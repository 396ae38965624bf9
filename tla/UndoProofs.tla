------------------------------ MODULE UndoProofs ------------------------------
(***************************************************************************)
(* Proofs about Undo, for any number of commands and of edits of people,   *)
(* and every kind of object, and about Diff, the diff an undo shows, for   *)
(* any two texts, any bounds of the search and any width of the context.   *)
(***************************************************************************)
EXTENDS Undo, Diff, SequenceTheorems, WellFoundedInduction, TLAPS

-----------------------------------------------------------------------------
(* What the steps of a command make of it.                                 *)

\* A command goes on, and all else of it stays.
LEMMA GotoEffect ==
    ASSUME TypeOK, NEW u \in Undos, NEW a \in Steps, Goto(u, a)
    PROVE  /\ call' \in [Undos -> Calls]
           /\ \A v \in Undos \ {u} : call'[v] = call[v]
           /\ call'[u].at = a /\ call'[u].of = call[u].of /\ call'[u].base = call[u].base
           /\ call'[u].was = call[u].was /\ call'[u].to = call[u].to
           /\ call'[u].failure = call[u].failure /\ call'[u].result = call[u].result
           /\ call'[u].sent = call[u].sent
<1>1. call \in [Undos -> Calls] /\ call[u] \in Calls
  BY DEF TypeOK
<1>2. [call[u] EXCEPT !.at = a] \in Calls
  BY <1>1 DEF Calls
<1>3. call' = [call EXCEPT ![u] = [call[u] EXCEPT !.at = a]]
  BY DEF Goto, Become
<1>4. call'[u] = [call[u] EXCEPT !.at = a]
  BY <1>1, <1>3
<1> QED
  BY <1>1, <1>2, <1>3, <1>4 DEF Calls

\* A command ends with a result, and says whether it may have written.
LEMMA EndsEffect ==
    ASSUME TypeOK, NEW u \in Undos, NEW r \in Results, NEW m \in BOOLEAN, Ends(u, r, m)
    PROVE  /\ call' \in [Undos -> Calls]
           /\ \A v \in Undos \ {u} : call'[v] = call[v]
           /\ call'[u].at = "audit" /\ call'[u].result = r /\ call'[u].sent = m
           /\ call'[u].of = call[u].of /\ call'[u].base = call[u].base
           /\ call'[u].was = call[u].was /\ call'[u].to = call[u].to
           /\ call'[u].failure = call[u].failure
<1> DEFINE c == [call[u] EXCEPT !.at = "audit", !.result = r, !.sent = m]
<1>1. call \in [Undos -> Calls] /\ call[u] \in Calls
  BY DEF TypeOK
<1>2. c \in Calls /\ c.at = "audit" /\ c.result = r /\ c.sent = m /\ c.of = call[u].of
      /\ c.base = call[u].base /\ c.was = call[u].was /\ c.to = call[u].to
      /\ c.failure = call[u].failure
  BY <1>1 DEF Calls, Steps
<1>3. call' = [call EXCEPT ![u] = c]
  BY DEF Ends, Become
<1> HIDE DEF c
<1>4. call'[u] = c
  BY <1>1, <1>3
<1> QED
  BY <1>1, <1>2, <1>3, <1>4

\* A command begins.
LEMMA StartEffect ==
    ASSUME TypeOK, NEW u \in Undos, NEW e \in Events, Start(u, e)
    PROVE  /\ call' \in [Undos -> Calls]
           /\ \A v \in Undos \ {u} : call'[v] = call[v]
           /\ call[u].at = "new" /\ call'[u].at = "load" /\ call'[u].of = e /\ e # u
           /\ call'[u].failure = "none" /\ call'[u].result = "none"
<1> DEFINE c == [NoCall EXCEPT !.at = "load", !.of = e]
<1>1. call \in [Undos -> Calls]
  BY DEF TypeOK
<1>2. c \in Calls /\ c.at = "load" /\ c.of = e /\ c.failure = "none" /\ c.result = "none"
  BY DEF NoCall, Calls, Steps, Results
<1>3. call' = [call EXCEPT ![u] = c]
  BY DEF Start, Become
<1> HIDE DEF c
<1>4. call'[u] = c
  BY <1>1, <1>3
<1> QED
  BY <1>1, <1>2, <1>3, <1>4 DEF Start

\* A command replaced as a whole.
LEMMA BecomeEffect ==
    ASSUME TypeOK, NEW u \in Undos, NEW c \in Calls, Become(u, c)
    PROVE  call' \in [Undos -> Calls] /\ call'[u] = c
BY DEF TypeOK, Become

\* What a command reads of the object, and a refusal or no answer.
LEMMA CommitEffect ==
    ASSUME TypeOK, NEW u \in Undos, NEW w \in Values,
           Become(u, [call[u] EXCEPT !.at = "look", !.was = w])
    PROVE  /\ call' \in [Undos -> Calls]
           /\ \A v \in Undos \ {u} : call'[v] = call[v]
           /\ call'[u].at = "look" /\ call'[u].was = w
           /\ call'[u].base = call[u].base /\ call'[u].to = call[u].to
           /\ call'[u].of = call[u].of /\ call'[u].failure = call[u].failure
           /\ call'[u].result = call[u].result /\ call'[u].sent = call[u].sent
<1> DEFINE c == [call[u] EXCEPT !.at = "look", !.was = w]
<1>1. call \in [Undos -> Calls] /\ call[u] \in Calls
  BY DEF TypeOK
<1>2. c \in Calls /\ c.at = "look" /\ c.was = w /\ c.base = call[u].base
      /\ c.to = call[u].to /\ c.of = call[u].of /\ c.failure = call[u].failure
      /\ c.result = call[u].result /\ c.sent = call[u].sent
  BY <1>1 DEF Calls, Steps
<1>3. call' = [call EXCEPT ![u] = c]
  BY DEF Become
<1> HIDE DEF c
<1>4. call'[u] = c
  BY <1>1, <1>3
<1> QED
  BY <1>1, <1>2, <1>3, <1>4

LEMMA AnswerEffect ==
    ASSUME TypeOK, NEW u \in Undos, NEW f \in {"definite", "open"},
           Become(u, [call[u] EXCEPT !.at = "readback", !.failure = f])
    PROVE  /\ call' \in [Undos -> Calls]
           /\ \A v \in Undos \ {u} : call'[v] = call[v]
           /\ call'[u].at = "readback" /\ call'[u].failure = f
           /\ call'[u].was = call[u].was
           /\ call'[u].base = call[u].base /\ call'[u].to = call[u].to
           /\ call'[u].of = call[u].of
           /\ call'[u].result = call[u].result /\ call'[u].sent = call[u].sent
<1> DEFINE c == [call[u] EXCEPT !.at = "readback", !.failure = f]
<1>1. call \in [Undos -> Calls] /\ call[u] \in Calls
  BY DEF TypeOK
<1>2. c \in Calls /\ c.at = "readback" /\ c.failure = f /\ c.base = call[u].base
      /\ c.to = call[u].to /\ c.of = call[u].of /\ c.was = call[u].was
      /\ c.result = call[u].result /\ c.sent = call[u].sent
  BY <1>1 DEF Calls, Steps
<1>3. call' = [call EXCEPT ![u] = c]
  BY DEF Become
<1> HIDE DEF c
<1>4. call'[u] = c
  BY <1>1, <1>3
<1> QED
  BY <1>1, <1>2, <1>3, <1>4

LEMMA CrashEffect ==
    ASSUME TypeOK, NEW u \in Undos, Crash(u)
    PROVE  /\ call' \in [Undos -> Calls]
           /\ \A v \in Undos \ {u} : call'[v] = call[v]
           /\ call'[u].at = "done" /\ call'[u].result = "crashed"
           /\ call'[u].was = call[u].was /\ call'[u].failure = call[u].failure
           /\ call'[u].base = call[u].base /\ call'[u].to = call[u].to
           /\ call'[u].of = call[u].of
<1> DEFINE c == [call[u] EXCEPT !.at = "done", !.result = "crashed"]
<1>1. call \in [Undos -> Calls] /\ call[u] \in Calls
  BY DEF TypeOK
<1>2. c \in Calls /\ c.at = "done" /\ c.result = "crashed" /\ c.was = call[u].was
      /\ c.failure = call[u].failure /\ c.base = call[u].base /\ c.to = call[u].to
      /\ c.of = call[u].of
  BY <1>1 DEF Calls, Steps, Results
<1>3. call' = [call EXCEPT ![u] = c]
  BY DEF Crash, Become
<1> HIDE DEF c
<1>4. call'[u] = c
  BY <1>1, <1>3
<1> QED
  BY <1>1, <1>2, <1>3, <1>4

-----------------------------------------------------------------------------
(* The invariant of one command.                                           *)

\* Between the read of the object and the end.
Live == {"commit", "look", "save", "send", "wait", "readback"}

\* A command of which the snapshot counts: it goes on, or was verified.
Pending(u) == call[u].at \in Live \/ Verified(u)

\* The order of its steps: one snapshot of its own, one send, one line.
Ordered(u) ==
    /\ call[u].of # u /\ (call[u].at # "new" => call[u].of \in Events)
    /\ call[u].at \in Live \cup {"read"} => call[u].result = "none"
    /\ call[u].at = "read" \/ Pending(u) => call[u].at # "new" /\ Snapshot(u) # None
    /\ call[u].at \in {"new", "load", "read", "commit", "look", "save"} =>
           snaps[u] = None /\ call[u].result = "none"
    /\ call[u].at = "save" => call[u].to # None
    /\ flight[u] # "none" => call[u].at \in {"wait", "readback", "audit", "done"}
    /\ call[u].failure = "definite" => flight[u] = "refused"
    /\ call[u].failure # "none" => call[u].at \in {"readback", "audit", "done"}
    /\ call[u].at = "readback" /\ call[u].failure = "none" => flight[u] = "landed"

\* Only a refusal shows that nothing was written; the rest has its line, or
\* says that it has none.
Honest(u) ==
    /\ call[u].at \in {"audit", "done"} /\ ~call[u].sent /\ call[u].result # "crashed"
           => flight[u] \in {"none", "refused"}
    /\ call[u].at = "done" /\ call[u].result # "crashed" /\ call[u].sent
           => u \in recorded \cup told

\* The snapshot a command takes back is the one it planned with, and its own
\* holds what it replaced.
Planned(u) ==
    /\ snaps[u] # None => ~snaps[u].new /\ snaps[u].before = call[u].was
    /\ Pending(u) =>
           /\ ~world.overwrite => /\ call[u].base = Snapshot(u).version
                                  /\ call[u].was = Snapshot(u).value
           /\ ~Snapshot(u).new => call[u].to = Snapshot(u).before

\* The object at the version a command read holds what it read, whoever wrote
\* since; so a send that shows the next version replaced just that.
Watched(u) ==
    /\ call[u].at \in Live /\ object # None =>
           /\ call[u].base <= object.version
           /\ object.version = call[u].base => object.value = call[u].was
    /\ call[u].at \in {"wait", "readback"} /\ flight[u] = "landed" =>
           /\ replaced[u] # None /\ call[u].base <= replaced[u].version
           /\ replaced[u].version = call[u].base => replaced[u].value = call[u].was
           /\ object # None => replaced[u].version < object.version
    /\ Verified(u) => /\ flight[u] = "landed"
                      /\ replaced[u].version = call[u].base
                      /\ replaced[u].value = call[u].was

UndoInv == /\ TypeOK
           /\ \A u \in Undos : Ordered(u) /\ Honest(u) /\ Planned(u) /\ Watched(u)

LEMMA UndoInit == Init => UndoInv
<1> SUFFICES ASSUME Init PROVE UndoInv
  OBVIOUS
<1>1. PICK landed \in BOOLEAN, named \in BOOLEAN :
        /\ object = IF landed
                      THEN [version |-> 2, value |-> Left, approved |-> FALSE]
                    ELSE IF world.create THEN None
                    ELSE [version |-> 1, value |-> Old, approved |-> FALSE]
        /\ snaps = [e \in Events |-> IF e # Write THEN None
                      ELSE [new |-> world.create,
                            before |-> IF world.create THEN None ELSE Old,
                            version |-> 2, value |-> Left, named |-> named]]
  BY DEF Init
<1>2. world \in Worlds /\ world.create \in BOOLEAN
  BY UndoAssumption DEF Init
<1>3. object \in Object \cup {None}
  BY <1>1 DEF Object, Values
<1>4. snaps \in [Events -> Snap \cup {None}] /\ \A u \in Undos : snaps[u] = None
  <2>1. [new |-> world.create, before |-> IF world.create THEN None ELSE Old,
         version |-> 2, value |-> Left, named |-> named] \in Snap
    BY <1>2 DEF Snap, Values
  <2> QED
    BY <1>1, <2>1, UndoAssumption DEF Events
<1>5. call \in [Undos -> Calls] /\ \A u \in Undos : call[u] = NoCall
  BY DEF Init, NoCall, Calls, Steps, Results
<1>6. TypeOK
  BY <1>2, <1>3, <1>4, <1>5, UndoAssumption DEF Init, TypeOK
<1>7. ASSUME NEW u \in Undos PROVE Ordered(u) /\ Honest(u) /\ Planned(u) /\ Watched(u)
  <2>1. /\ call[u].at = "new" /\ call[u].result = "none" /\ call[u].failure = "none"
        /\ call[u].of # u
    BY <1>5, UndoAssumption DEF NoCall
  <2>2. snaps[u] = None /\ flight[u] = "none"
    BY <1>4 DEF Init
  <2> QED
    BY <2>1, <2>2 DEF Ordered, Honest, Planned, Watched, Pending, Live, Verified
<1> QED
  BY <1>6, <1>7 DEF UndoInv

\* What every step of a command leaves alone.
LEMMA StepFrame ==
    ASSUME NEW u \in Undos, Step(u)
    PROVE  UNCHANGED <<world, object, edits, replaced>>
<1> USE DEF cloud
<1>1. CASE \E e \in Events : Start(u, e)
  BY <1>1 DEF Start
<1>2. CASE Refused(u)
  BY <1>2 DEF Refused
<1>3. CASE Load(u)
  BY <1>3 DEF Load
<1>4. CASE ReadGone(u)
  BY <1>4 DEF ReadGone
<1>5. CASE ReadTarget(u)
  BY <1>5 DEF ReadTarget
<1>6. CASE CommitRead(u)
  BY <1>6 DEF CommitRead
<1>7. CASE LookAgain(u)
  BY <1>7 DEF LookAgain
<1>8. CASE SaveBefore(u)
  BY <1>8 DEF SaveBefore
<1>9. CASE Send(u)
  BY <1>9 DEF Send
<1>10. CASE NotSent(u)
  BY <1>10 DEF NotSent
<1>11. CASE Answered(u)
  BY <1>11 DEF Answered
<1>12. CASE ReadBackFails(u)
  BY <1>12 DEF ReadBackFails
<1>13. CASE ReadBackChange(u)
  BY <1>13 DEF ReadBackChange
<1>14. CASE ReadBackDelete(u)
  BY <1>14 DEF ReadBackDelete
<1>15. CASE Audit(u)
  BY <1>15 DEF Audit
<1>16. CASE Crash(u)
  BY <1>16 DEF Crash
<1> QED
  BY <1>1, <1>2, <1>3, <1>4, <1>5, <1>6, <1>7, <1>8, <1>9, <1>10, <1>11,
     <1>12, <1>13, <1>14, <1>15, <1>16 DEF Step

\* A step of a command keeps its types and its invariant.
LEMMA OwnStep ==
    ASSUME TypeOK, NEW u \in Undos, Ordered(u), Honest(u), Planned(u), Watched(u), Step(u)
    PROVE  TypeOK' /\ Ordered(u)' /\ Honest(u)' /\ Planned(u)' /\ Watched(u)'
<1> USE DEF cloud, Live, Pending, Verified, Snapshot
<1>0. /\ call[u] \in Calls /\ call[u].at \in Steps /\ call[u].base \in Nat
      /\ call[u].sent \in BOOLEAN
      /\ snaps \in [Events -> Snap \cup {None}] /\ u \in Events
      /\ flight \in [Undos -> {"none", "open", "landed", "refused"}]
      /\ replaced \in [Undos -> Object \cup {None}]
      /\ object # None => object.version \in Nat /\ object.value \in Values
  BY DEF TypeOK, Calls, Events, Object
<1>1. UNCHANGED <<world, object, edits, replaced>>
  BY StepFrame
<1>2. \A a \in Steps : Goto(u, a) =>
        /\ call' \in [Undos -> Calls]
        /\ call'[u].at = a /\ call'[u].of = call[u].of /\ call'[u].base = call[u].base
        /\ call'[u].was = call[u].was /\ call'[u].to = call[u].to
        /\ call'[u].failure = call[u].failure /\ call'[u].result = call[u].result
        /\ call'[u].sent = call[u].sent
  BY GotoEffect
<1>3. \A r \in Results, m \in BOOLEAN : Ends(u, r, m) =>
        /\ call' \in [Undos -> Calls]
        /\ call'[u].at = "audit" /\ call'[u].result = r /\ call'[u].sent = m
        /\ call'[u].of = call[u].of /\ call'[u].base = call[u].base
        /\ call'[u].was = call[u].was /\ call'[u].to = call[u].to
        /\ call'[u].failure = call[u].failure
  BY EndsEffect
\* It is enough to look at the command.
<1> DEFINE Goal == TypeOK' /\ Ordered(u)' /\ Honest(u)' /\ Planned(u)' /\ Watched(u)'
<1>4. ASSUME call' \in [Undos -> Calls], UNCHANGED <<snaps, flight, recorded, told>>
      PROVE  TypeOK'
  BY <1>1, <1>4 DEF TypeOK
<1>5. ASSUME NEW e \in Events, Start(u, e) PROVE Goal
  <2>1. /\ call' \in [Undos -> Calls]
        /\ call[u].at = "new" /\ call'[u].at = "load" /\ call'[u].of = e /\ e # u
        /\ call'[u].failure = "none" /\ call'[u].result = "none"
    BY <1>5, StartEffect
  <2>2. UNCHANGED <<snaps, flight, recorded, told>>
    BY <1>5 DEF Start
  <2> QED
    BY <1>0, <1>1, <1>4, <2>1, <2>2 DEF Ordered, Honest, Planned, Watched
<1>6. CASE Refused(u)
  <2>1. call' \in [Undos -> Calls] /\ UNCHANGED <<snaps, flight, recorded, told>>
    BY <1>2, <1>3, <1>6 DEF Refused, Steps, Results
  <2>2. Ordered(u)'
    BY <1>0, <1>2, <1>3, <1>6, <2>1 DEF Refused, Ordered, Steps, Results
  <2>3. Honest(u)'
    BY <1>0, <1>2, <1>3, <1>6, <2>1 DEF Refused, Ordered, Honest, Steps, Results
  <2>4. Planned(u)'
    BY <1>0, <1>1, <1>2, <1>3, <1>6, <2>1 DEF Refused, Ordered, Planned, Steps, Results
  <2>5. Watched(u)'
    BY <1>0, <1>1, <1>2, <1>3, <1>6, <2>1 DEF Refused, AsPlanned, Ordered, Watched, Steps, Results
  <2> QED
    BY <1>4, <2>1, <2>2, <2>3, <2>4, <2>5
<1>7. CASE Load(u)
  <2>1. call' \in [Undos -> Calls] /\ UNCHANGED <<snaps, flight, recorded, told>>
    BY <1>2, <1>3, <1>7 DEF Load, Steps, Results
  <2>2. Ordered(u)'
    BY <1>0, <1>2, <1>3, <1>7, <2>1 DEF Load, Ordered, Steps, Results
  <2>3. Honest(u)'
    BY <1>0, <1>2, <1>3, <1>7, <2>1 DEF Load, Ordered, Honest, Steps, Results
  <2>4. Planned(u)'
    BY <1>0, <1>1, <1>2, <1>3, <1>7, <2>1 DEF Load, Ordered, Planned, Steps, Results
  <2>5. Watched(u)'
    BY <1>0, <1>1, <1>2, <1>3, <1>7, <2>1 DEF Load, AsPlanned, Ordered, Watched, Steps, Results
  <2> QED
    BY <1>4, <2>1, <2>2, <2>3, <2>4, <2>5
<1>8. CASE ReadGone(u)
  <2>1. call' \in [Undos -> Calls] /\ UNCHANGED <<snaps, flight, recorded, told>>
    BY <1>2, <1>3, <1>8 DEF ReadGone, Steps, Results
  <2>2. Ordered(u)'
    BY <1>0, <1>2, <1>3, <1>8, <2>1 DEF ReadGone, Ordered, Steps, Results
  <2>3. Honest(u)'
    BY <1>0, <1>2, <1>3, <1>8, <2>1 DEF ReadGone, Ordered, Honest, Steps, Results
  <2>4. Planned(u)'
    BY <1>0, <1>1, <1>2, <1>3, <1>8, <2>1 DEF ReadGone, Ordered, Planned, Steps, Results
  <2>5. Watched(u)'
    BY <1>0, <1>1, <1>2, <1>3, <1>8, <2>1 DEF ReadGone, AsPlanned, Ordered, Watched, Steps, Results
  <2> QED
    BY <1>4, <2>1, <2>2, <2>3, <2>4, <2>5
<1>9. CASE ReadTarget(u)
  <2>1. Snapshot(u) \in Snap /\ object \in Object /\ object # None
    BY <1>0, <1>9 DEF ReadTarget, Ordered, TypeOK
  <2>2. Target(u) \in Values \cup {None}
    BY <2>1 DEF Target, Snap, Values
  <2>3. CASE \E r \in {"unchanged", "changed"} : Ends(u, r, FALSE)
    <3>1. call' \in [Undos -> Calls] /\ UNCHANGED <<snaps, flight, recorded, told>>
      BY <1>3, <1>9, <2>3 DEF ReadTarget, Results
    <3> QED
      BY <1>0, <1>1, <1>3, <1>4, <1>9, <2>3, <3>1
         DEF ReadTarget, Ordered, Honest, Planned, Watched, Results
  <2>4. CASE /\ isAsLeft(u) \/ (world.overwrite /\ ~Deletes(u))
             /\ Become(u, [call[u] EXCEPT
                             !.at = IF world.kind = "page" THEN "commit" ELSE "look",
                             !.base = object.version, !.was = object.value,
                             !.to = Target(u)])
    <3> DEFINE a == IF world.kind = "page" THEN "commit" ELSE "look"
    <3>1. a \in Steps /\ a \in {"commit", "look"}
      BY DEF Steps
    <3>2. object.version \in Nat /\ object.value \in Values
      BY <2>1 DEF Object
    <3> DEFINE c == [call[u] EXCEPT !.at = a, !.base = object.version,
                                    !.was = object.value, !.to = Target(u)]
    <3>3. Become(u, c)
      BY <2>4
    <3> HIDE DEF a
    <3>4. /\ call' \in [Undos -> Calls]
          /\ call'[u].at = a /\ call'[u].base = object.version
          /\ call'[u].was = object.value /\ call'[u].to = Target(u)
          /\ call'[u].of = call[u].of /\ call'[u].failure = call[u].failure
          /\ call'[u].result = call[u].result
      <4>1. /\ c \in Calls /\ c.at = a /\ c.base = object.version
            /\ c.was = object.value /\ c.to = Target(u) /\ c.of = call[u].of
            /\ c.failure = call[u].failure /\ c.result = call[u].result
        BY <1>0, <2>2, <3>1, <3>2 DEF Calls
      <4> HIDE DEF c
      <4>2. call' \in [Undos -> Calls] /\ call'[u] = c
        BY <3>3, <4>1, BecomeEffect
      <4> QED
        BY <4>1, <4>2
    <3>5. UNCHANGED <<snaps, flight, recorded, told>> /\ call[u].at = "read"
      BY <1>9 DEF ReadTarget
    <3>6. Ordered(u)' /\ Honest(u)'
      BY <1>0, <3>1, <3>4, <3>5 DEF Ordered, Honest
    <3>7. ~world.overwrite => /\ object.version = Snapshot(u).version
                              /\ object.value = Snapshot(u).value
      BY <2>4 DEF isAsLeft
    <3>8. ~Snapshot(u).new => Target(u) = Snapshot(u).before
      BY DEF Target
    <3>9. Planned(u)'
      BY <1>1, <3>1, <3>4, <3>5, <3>7, <3>8 DEF Ordered, Planned
    <3>10. Watched(u)'
      BY <1>0, <1>1, <3>1, <3>2, <3>4, <3>5 DEF Ordered, Watched
    <3> QED
      BY <1>4, <3>4, <3>5, <3>6, <3>9, <3>10
  <2> QED
    BY <1>9, <2>3, <2>4 DEF ReadTarget
<1>10. CASE CommitRead(u)
  <2>0. UNCHANGED <<snaps, flight, recorded, told>>
    BY <1>10 DEF CommitRead
  <2>1. CASE Ends(u, "refused", FALSE)
    <3>1. call' \in [Undos -> Calls]
      BY <1>3, <2>1 DEF Results
    <3> QED
      BY <1>0, <1>1, <1>3, <1>4, <1>10, <2>0, <2>1, <3>1
         DEF CommitRead, Ordered, Honest, Planned, Watched, Results
  <2>2. CASE /\ object.version = call[u].base
             /\ Become(u, [call[u] EXCEPT !.at = "look", !.was = object.value])
    <3>1. object # None /\ object.value \in Values /\ call[u].at = "commit"
      BY <1>0, <1>10 DEF CommitRead
    <3>2. object.value = call[u].was
      BY <2>2, <3>1 DEF Watched
    <3>3. /\ call' \in [Undos -> Calls]
          /\ call'[u].at = "look" /\ call'[u].was = call[u].was
          /\ call'[u].base = call[u].base /\ call'[u].to = call[u].to
          /\ call'[u].of = call[u].of /\ call'[u].failure = call[u].failure
          /\ call'[u].result = call[u].result
      BY <2>2, <3>1, <3>2, CommitEffect
    <3> QED
      BY <1>0, <1>1, <1>4, <2>0, <3>1, <3>3 DEF Ordered, Honest, Planned, Watched
  <2> QED
    BY <1>10, <2>1, <2>2 DEF CommitRead
<1>11. CASE LookAgain(u)
  <2>1. call' \in [Undos -> Calls] /\ UNCHANGED <<snaps, flight, recorded, told>>
    BY <1>2, <1>3, <1>11 DEF LookAgain, Steps, Results
  <2>2. Ordered(u)'
    BY <1>0, <1>2, <1>3, <1>11, <2>1 DEF LookAgain, Ordered, Steps, Results
  <2>3. Honest(u)'
    BY <1>0, <1>2, <1>3, <1>11, <2>1 DEF LookAgain, Ordered, Honest, Steps, Results
  <2>4. Planned(u)'
    BY <1>0, <1>1, <1>2, <1>3, <1>11, <2>1 DEF LookAgain, Ordered, Planned, Steps, Results
  <2>5. Watched(u)'
    BY <1>0, <1>1, <1>2, <1>3, <1>11, <2>1 DEF LookAgain, AsPlanned, Ordered, Watched, Steps, Results
  <2> QED
    BY <1>4, <2>1, <2>2, <2>3, <2>4, <2>5
<1>12. CASE SaveBefore(u)
  <2>0. UNCHANGED <<flight, recorded, told>> /\ call[u].at = "save"
    BY <1>12 DEF SaveBefore
  <2>1. CASE Ends(u, "failed", FALSE) /\ UNCHANGED snaps
    <3>1. call' \in [Undos -> Calls]
      BY <1>3, <2>1 DEF Results
    <3> QED
      BY <1>0, <1>1, <1>3, <1>4, <2>0, <2>1, <3>1
         DEF Ordered, Honest, Planned, Watched, Results
  <2>2. CASE snaps' = [snaps EXCEPT ![u] = Kept(u, call[u].was)] /\ Goto(u, "send")
    <3>1. /\ call' \in [Undos -> Calls]
          /\ call'[u].at = "send" /\ call'[u].of = call[u].of
          /\ call'[u].base = call[u].base
          /\ call'[u].was = call[u].was /\ call'[u].to = call[u].to
          /\ call'[u].failure = call[u].failure /\ call'[u].result = call[u].result
      BY <1>2, <2>2 DEF Steps
    <3>2. /\ Kept(u, call[u].was) \in Snap
          /\ ~Kept(u, call[u].was).new /\ Kept(u, call[u].was).before = call[u].was
      BY <1>0, <2>0 DEF Kept, Snap, Calls, Ordered
    <3>3. /\ snaps' \in [Events -> Snap \cup {None}] /\ snaps'[u] = Kept(u, call[u].was)
          /\ \A e \in Events \ {u} : snaps'[e] = snaps[e]
      BY <1>0, <2>2, <3>2
    <3>4. snaps'[call[u].of] = snaps[call[u].of]
      BY <2>0, <3>3 DEF Ordered
    <3>5. TypeOK'
      BY <1>1, <2>0, <3>1, <3>3 DEF TypeOK
    <3>6. Ordered(u)' /\ Honest(u)'
      BY <1>0, <2>0, <3>1, <3>4 DEF Ordered, Honest
    <3>7. Planned(u)'
      BY <1>1, <2>0, <3>1, <3>2, <3>3, <3>4 DEF Planned
    <3>8. Watched(u)'
      BY <1>0, <1>1, <2>0, <3>1 DEF Ordered, Watched
    <3> QED
      BY <3>5, <3>6, <3>7, <3>8
  <2> QED
    BY <1>12, <2>1, <2>2 DEF SaveBefore
<1>13. CASE Send(u)
  <2>1. /\ UNCHANGED <<snaps, recorded, told>> /\ call[u].at = "send"
        /\ flight' = [flight EXCEPT ![u] = "open"]
    BY <1>13 DEF Send
  <2>2. /\ call' \in [Undos -> Calls]
        /\ call'[u].at = "wait" /\ call'[u].of = call[u].of
        /\ call'[u].base = call[u].base
        /\ call'[u].was = call[u].was /\ call'[u].to = call[u].to
        /\ call'[u].failure = call[u].failure /\ call'[u].result = call[u].result
    BY <1>2, <1>13 DEF Send, Steps
  <2>3. flight' \in [Undos -> {"none", "open", "landed", "refused"}] /\ flight'[u] = "open"
    BY <1>0, <2>1
  <2>4. TypeOK'
    BY <1>1, <2>1, <2>2, <2>3 DEF TypeOK
  <2> QED
    BY <1>0, <1>1, <2>1, <2>2, <2>3, <2>4 DEF Ordered, Honest, Planned, Watched
<1>14. CASE NotSent(u)
  <2>1. call' \in [Undos -> Calls] /\ UNCHANGED <<snaps, flight, recorded, told>>
    BY <1>2, <1>3, <1>14 DEF NotSent, Steps, Results
  <2>2. Ordered(u)'
    BY <1>0, <1>2, <1>3, <1>14, <2>1 DEF NotSent, Ordered, Steps, Results
  <2>3. Honest(u)'
    BY <1>0, <1>2, <1>3, <1>14, <2>1 DEF NotSent, Ordered, Honest, Steps, Results
  <2>4. Planned(u)'
    BY <1>0, <1>1, <1>2, <1>3, <1>14, <2>1 DEF NotSent, Ordered, Planned, Steps, Results
  <2>5. Watched(u)'
    BY <1>0, <1>1, <1>2, <1>3, <1>14, <2>1 DEF NotSent, AsPlanned, Ordered, Watched, Steps, Results
  <2> QED
    BY <1>4, <2>1, <2>2, <2>3, <2>4, <2>5
<1>15. CASE Answered(u)
  <2>0. UNCHANGED <<snaps, flight, recorded, told>> /\ call[u].at = "wait"
    BY <1>15 DEF Answered
  <2>1. CASE flight[u] = "landed" /\ Goto(u, "readback")
    <3>1. /\ call' \in [Undos -> Calls]
          /\ call'[u].at = "readback" /\ call'[u].of = call[u].of
          /\ call'[u].base = call[u].base
          /\ call'[u].was = call[u].was /\ call'[u].to = call[u].to
          /\ call'[u].failure = call[u].failure /\ call'[u].result = call[u].result
      BY <1>2, <2>1 DEF Steps
    <3> QED
      BY <1>0, <1>1, <1>4, <2>0, <2>1, <3>1 DEF Ordered, Honest, Planned, Watched
  <2>2. ASSUME NEW f \in {"definite", "open"},
               Become(u, [call[u] EXCEPT !.at = "readback", !.failure = f]),
               f = "definite" => flight[u] = "refused"
        PROVE  Goal
    <3>1. /\ call' \in [Undos -> Calls]
          /\ call'[u].at = "readback" /\ call'[u].failure = f
          /\ call'[u].was = call[u].was
          /\ call'[u].base = call[u].base /\ call'[u].to = call[u].to
          /\ call'[u].of = call[u].of /\ call'[u].result = call[u].result
      BY <2>2, AnswerEffect
    <3> QED
      BY <1>0, <1>1, <1>4, <2>0, <2>2, <3>1 DEF Ordered, Honest, Planned, Watched
  <2> QED
    BY <1>15, <2>1, <2>2 DEF Answered
<1>16. CASE ReadBackFails(u)
  <2>1. call' \in [Undos -> Calls] /\ UNCHANGED <<snaps, flight, recorded, told>>
    BY <1>2, <1>3, <1>16 DEF ReadBackFails, Steps, Results
  <2>2. Ordered(u)'
    BY <1>0, <1>2, <1>3, <1>16, <2>1 DEF ReadBackFails, Ordered, Steps, Results
  <2>3. Honest(u)'
    BY <1>0, <1>2, <1>3, <1>16, <2>1 DEF ReadBackFails, Ordered, Honest, Steps, Results
  <2>4. Planned(u)'
    BY <1>0, <1>1, <1>2, <1>3, <1>16, <2>1 DEF ReadBackFails, Ordered, Planned, Steps, Results
  <2>5. Watched(u)'
    BY <1>0, <1>1, <1>2, <1>3, <1>16, <2>1 DEF ReadBackFails, AsPlanned, Ordered, Watched, Steps, Results
  <2> QED
    BY <1>4, <2>1, <2>2, <2>3, <2>4, <2>5
<1>17. CASE ReadBackChange(u)
  <2>1. call' \in [Undos -> Calls] /\ UNCHANGED <<snaps, flight, recorded, told>>
    BY <1>2, <1>3, <1>17 DEF ReadBackChange, Steps, Results
  <2>2. Ordered(u)'
    BY <1>0, <1>2, <1>3, <1>17, <2>1 DEF ReadBackChange, Ordered, Steps, Results
  <2>3. Honest(u)'
    BY <1>0, <1>2, <1>3, <1>17, <2>1 DEF ReadBackChange, Ordered, Honest, Steps, Results
  <2>4. Planned(u)'
    BY <1>0, <1>1, <1>2, <1>3, <1>17, <2>1 DEF ReadBackChange, Ordered, Planned, Steps, Results
  <2>5. Watched(u)'
    <3>1. PICK r \in {"done", "failed", "conflict"} :
            \E m \in BOOLEAN : Ends(u, r, m) /\ (r = "done" => AsPlanned(u))
      BY <1>17 DEF ReadBackChange
    <3>2. /\ call'[u].at = "audit" /\ call'[u].result = r
          /\ call'[u].of = call[u].of /\ call'[u].base = call[u].base
          /\ call'[u].was = call[u].was /\ call'[u].failure = call[u].failure
      BY <1>3, <3>1 DEF Results
    <3>3. ASSUME r = "done", call[u].failure = "none"
          PROVE  /\ flight[u] = "landed" /\ replaced[u].version = call[u].base
                 /\ replaced[u].value = call[u].was
      <4>1. /\ call[u].at = "readback" /\ object # None /\ flight[u] = "landed"
            /\ object.version = call[u].base + 1
        BY <1>17, <3>1, <3>3 DEF ReadBackChange, AsPlanned, Ordered
      <4>2. /\ replaced[u] # None /\ call[u].base <= replaced[u].version
            /\ replaced[u].version < object.version
            /\ replaced[u].version = call[u].base => replaced[u].value = call[u].was
        BY <4>1 DEF Watched
      <4>3. replaced[u].version \in Nat
        BY <1>0, <4>2 DEF Object
      <4>4. replaced[u].version = call[u].base
        BY <1>0, <4>1, <4>2, <4>3
      <4> QED
        BY <4>1, <4>2, <4>4
    <3> QED
      BY <1>1, <2>1, <3>2, <3>3 DEF Watched
  <2> QED
    BY <1>4, <2>1, <2>2, <2>3, <2>4, <2>5
<1>18. CASE ReadBackDelete(u)
  <2>1. call' \in [Undos -> Calls] /\ UNCHANGED <<snaps, flight, recorded, told>>
    BY <1>2, <1>3, <1>18 DEF ReadBackDelete, Steps, Results
  <2>2. Ordered(u)'
    BY <1>0, <1>2, <1>3, <1>18, <2>1 DEF ReadBackDelete, Ordered, Steps, Results
  <2>3. Honest(u)'
    BY <1>0, <1>2, <1>3, <1>18, <2>1 DEF ReadBackDelete, Ordered, Honest, Steps, Results
  <2>4. Planned(u)'
    BY <1>0, <1>1, <1>2, <1>3, <1>18, <2>1 DEF ReadBackDelete, Ordered, Planned, Steps, Results
  <2>5. Watched(u)'
    BY <1>0, <1>1, <1>2, <1>3, <1>18, <2>1 DEF ReadBackDelete, AsPlanned, Ordered, Watched, Steps, Results
  <2> QED
    BY <1>4, <2>1, <2>2, <2>3, <2>4, <2>5
<1>19. CASE Audit(u)
  <2>1. /\ UNCHANGED <<snaps, flight>> /\ call[u].at = "audit"
        /\ recorded' \subseteq Undos /\ told' \subseteq Undos
        /\ call[u].sent => u \in recorded' \cup told'
    BY <1>19 DEF Audit, TypeOK
  <2>2. /\ call' \in [Undos -> Calls]
        /\ call'[u].at = "done" /\ call'[u].of = call[u].of
        /\ call'[u].base = call[u].base
        /\ call'[u].was = call[u].was /\ call'[u].to = call[u].to
        /\ call'[u].failure = call[u].failure /\ call'[u].result = call[u].result
        /\ call'[u].sent = call[u].sent
    BY <1>2, <1>19 DEF Audit, Steps
  <2>3. TypeOK'
    BY <1>1, <2>1, <2>2 DEF TypeOK
  <2> QED
    BY <1>0, <1>1, <2>1, <2>2, <2>3 DEF Ordered, Honest, Planned, Watched
<1>20. CASE Crash(u)
  <2>1. /\ call' \in [Undos -> Calls]
        /\ call'[u].at = "done" /\ call'[u].result = "crashed"
        /\ call'[u].was = call[u].was /\ call'[u].failure = call[u].failure
        /\ call'[u].of = call[u].of
    BY <1>20, CrashEffect
  <2>2. UNCHANGED <<snaps, flight, recorded, told>> /\ call[u].at # "new"
    BY <1>20 DEF Crash
  <2> QED
    BY <1>0, <1>1, <1>4, <2>1, <2>2 DEF Ordered, Honest, Planned, Watched
<1> QED
  BY <1>5, <1>6, <1>7, <1>8, <1>9, <1>10, <1>11, <1>12, <1>13, <1>14, <1>15,
     <1>16, <1>17, <1>18, <1>19, <1>20 DEF Step

\* A step of a command leaves the others alone, and every snapshot that is
\* kept.
LEMMA OthersStay ==
    ASSUME TypeOK, NEW u \in Undos, Ordered(u), Step(u), NEW v \in Undos \ {u}
    PROVE  /\ call'[v] = call[v] /\ flight'[v] = flight[v] /\ snaps'[v] = snaps[v]
           /\ \A e \in Events : snaps[e] # None => snaps'[e] = snaps[e]
           /\ v \in recorded' <=> v \in recorded
           /\ v \in told' <=> v \in told
<1> USE DEF cloud
<1>0. /\ call \in [Undos -> Calls] /\ snaps \in [Events -> Snap \cup {None}]
      /\ flight \in [Undos -> {"none", "open", "landed", "refused"}]
      /\ u \in Events /\ v \in Events
  BY DEF TypeOK, Events
<1>1. call'[v] = call[v]
  <2>1. \E c : Become(u, c)
    BY DEF Step, Start, Refused, Load, ReadGone, ReadTarget, CommitRead, LookAgain,
           SaveBefore, Send, NotSent, Answered, ReadBackFails, ReadBackChange,
           ReadBackDelete, Audit, Crash, Goto, Ends
  <2> QED
    BY <1>0, <2>1 DEF Become
<1>2. CASE SaveBefore(u)
  <2>1. snaps[u] = None /\ UNCHANGED <<flight, recorded, told>>
    BY <1>2 DEF SaveBefore, Ordered
  <2>2. snaps' = snaps \/ snaps' = [snaps EXCEPT ![u] = Kept(u, call[u].was)]
    BY <1>2 DEF SaveBefore
  <2> QED
    BY <1>0, <1>1, <2>1, <2>2
<1>3. CASE Send(u)
  BY <1>0, <1>1, <1>3 DEF Send
<1>4. CASE Audit(u)
  BY <1>0, <1>1, <1>4 DEF Audit
<1>5. CASE ~SaveBefore(u) /\ ~Send(u) /\ ~Audit(u)
  <2>1. UNCHANGED <<snaps, flight, recorded, told>>
    BY <1>5 DEF Step, Start, Refused, Load, ReadGone, ReadTarget, CommitRead, LookAgain,
                NotSent, Answered, ReadBackFails, ReadBackChange, ReadBackDelete, Crash
  <2> QED
    BY <1>1, <2>1
<1> QED
  BY <1>2, <1>3, <1>4, <1>5

\* The object changes to another version or is gone, or keeps what it holds.
LEMMA ObjectMoves ==
    ASSUME TypeOK, NEW v \in Undos, Ordered(v), Honest(v), Planned(v), Watched(v),
           UNCHANGED <<world, snaps, call, recorded, told>>,
           flight'[v] = flight[v], replaced'[v] = replaced[v],
           object' # None =>
              /\ object # None /\ object'.version \in Nat
              /\ \/ object'.version > object.version
                 \/ object'.version = object.version /\ object'.value = object.value
    PROVE  Ordered(v)' /\ Honest(v)' /\ Planned(v)' /\ Watched(v)'
<1>1. /\ object # None => object.version \in Nat
      /\ call[v].base \in Nat
      /\ replaced[v] # None => replaced[v].version \in Nat
  BY DEF TypeOK, Calls, Object
<1>2. Ordered(v)' /\ Honest(v)' /\ Planned(v)'
  BY DEF Ordered, Honest, Planned, Pending, Verified, Snapshot
<1>3. call[v].at \in Live /\ object' # None =>
         /\ call[v].base <= object'.version
         /\ object'.version = call[v].base => object'.value = call[v].was
  <2> SUFFICES ASSUME call[v].at \in Live, object' # None
               PROVE  /\ call[v].base <= object'.version
                      /\ object'.version = call[v].base => object'.value = call[v].was
    OBVIOUS
  <2>1. /\ object # None /\ call[v].base <= object.version
        /\ object.version = call[v].base => object.value = call[v].was
    BY DEF Watched
  <2>2. object.version \in Nat /\ object'.version \in Nat /\ call[v].base \in Nat
    BY <1>1, <2>1
  <2> QED
    BY <2>1, <2>2
<1>4. call[v].at \in {"wait", "readback"} /\ flight[v] = "landed" =>
         /\ replaced[v] # None /\ call[v].base <= replaced[v].version
         /\ replaced[v].version = call[v].base => replaced[v].value = call[v].was
         /\ object' # None => replaced[v].version < object'.version
  <2> SUFFICES ASSUME call[v].at \in {"wait", "readback"}, flight[v] = "landed"
               PROVE  /\ replaced[v] # None /\ call[v].base <= replaced[v].version
                      /\ replaced[v].version = call[v].base
                             => replaced[v].value = call[v].was
                      /\ object' # None => replaced[v].version < object'.version
    OBVIOUS
  <2>1. /\ replaced[v] # None /\ call[v].base <= replaced[v].version
        /\ replaced[v].version = call[v].base => replaced[v].value = call[v].was
        /\ object # None => replaced[v].version < object.version
    BY DEF Watched
  <2> QED
    BY <1>1, <2>1
<1>5. Watched(v)'
  BY <1>3, <1>4 DEF Watched, Verified
<1> QED
  BY <1>2, <1>5

\* What a write or an approval makes of the object.
LEMMA ObjectTypes ==
    ASSUME NEW o \in Object, NEW n \in Nat, NEW w \in Values
    PROVE  /\ [o EXCEPT !.version = n, !.value = w] \in Object
           /\ [o EXCEPT !.version = n, !.value = w].version = n
           /\ [o EXCEPT !.version = n, !.approved = TRUE] \in Object
           /\ [o EXCEPT !.version = n, !.approved = TRUE].version = n
           /\ [o EXCEPT !.version = n, !.approved = TRUE].value = o.value
BY DEF Object

LEMMA UndoNext == UndoInv /\ [Next]_vars => UndoInv'
<1> SUFFICES ASSUME UndoInv, [Next]_vars PROVE UndoInv'
  OBVIOUS
<1> DEFINE Fine(v) == Ordered(v) /\ Honest(v) /\ Planned(v) /\ Watched(v)
<1>0. /\ TypeOK /\ \A v \in Undos : Fine(v)
      /\ flight \in [Undos -> {"none", "open", "landed", "refused"}]
      /\ replaced \in [Undos -> Object \cup {None}]
      /\ object # None => object \in Object /\ object.version \in Nat
                          /\ object.value \in Values /\ object.approved \in BOOLEAN
  BY DEF UndoInv, TypeOK, Object
<1>1. ASSUME NEW u \in Undos, Step(u) PROVE UndoInv'
  <2>1. TypeOK' /\ Ordered(u)' /\ Honest(u)' /\ Planned(u)' /\ Watched(u)'
    BY <1>0, <1>1, OwnStep
  <2>2. ASSUME NEW v \in Undos \ {u}
        PROVE  Ordered(v)' /\ Honest(v)' /\ Planned(v)' /\ Watched(v)'
    <3>1. /\ call'[v] = call[v] /\ flight'[v] = flight[v] /\ snaps'[v] = snaps[v]
          /\ \A e \in Events : snaps[e] # None => snaps'[e] = snaps[e]
          /\ v \in recorded' <=> v \in recorded
          /\ v \in told' <=> v \in told
      BY <1>0, <1>1, OthersStay
    <3>2. UNCHANGED <<world, object, edits, replaced>>
      BY <1>1, StepFrame
    <3>3. call[v].at = "read" \/ Pending(v) => snaps'[call[v].of] = snaps[call[v].of]
      <4>1. call[v].at = "read" \/ Pending(v) => Snapshot(v) # None /\ call[v].of \in Events
        BY <1>0 DEF Ordered
      <4> QED
        BY <3>1, <4>1 DEF Snapshot
    <3>4. Ordered(v)' /\ Honest(v)'
      BY <1>0, <3>1, <3>2, <3>3 DEF Ordered, Honest, Pending, Verified, Snapshot
    <3>5. Planned(v)'
      BY <1>0, <3>1, <3>2, <3>3 DEF Planned, Pending, Verified, Snapshot
    <3>6. Watched(v)'
      BY <1>0, <3>1, <3>2 DEF Watched, Verified
    <3> QED
      BY <3>4, <3>5, <3>6
  <2> QED
    BY <2>1, <2>2 DEF UndoInv
<1>2. ASSUME NEW u \in Undos, Land(u) PROVE UndoInv'
  <2>1. /\ UNCHANGED <<world, edits, snaps, call, recorded, told>>
        /\ flight[u] = "open" /\ flight' = [flight EXCEPT ![u] = "landed"]
        /\ object # None /\ replaced' = [replaced EXCEPT ![u] = object]
    BY <1>2 DEF Land
  <2>2. object' # None => /\ object' \in Object /\ object'.version = object.version + 1
                          /\ object'.version \in Nat
    <3>1. CASE call[u].to = None
      BY <1>2, <3>1 DEF Land
    <3>2. CASE call[u].to # None
      <4>1. call[u].to \in Values
        BY <1>0, <3>2 DEF TypeOK, Calls
      <4> DEFINE n == object.version + 1
      <4>2. object' = [object EXCEPT !.version = n, !.value = call[u].to]
        BY <1>2, <3>2 DEF Land
      <4>3. object \in Object /\ n \in Nat
        BY <1>0, <2>1
      <4> HIDE DEF n
      <4>4. object' \in Object /\ object'.version = n
        BY <4>1, <4>2, <4>3, ObjectTypes
      <4> QED
        BY <4>3, <4>4 DEF n
    <3> QED
      BY <3>1, <3>2
  <2>3. TypeOK'
    BY <1>0, <2>1, <2>2 DEF TypeOK
  <2>4. ASSUME NEW v \in Undos \ {u}
        PROVE  Ordered(v)' /\ Honest(v)' /\ Planned(v)' /\ Watched(v)'
    <3>1. flight'[v] = flight[v] /\ replaced'[v] = replaced[v]
      BY <1>0, <2>1
    <3>2. object' # None => object'.version > object.version
      BY <1>0, <2>1, <2>2
    <3> QED
      BY <1>0, <2>1, <2>2, <3>1, <3>2, ObjectMoves
  <2>5. Ordered(u)' /\ Honest(u)' /\ Planned(u)'
    BY <1>0, <2>1 DEF Ordered, Honest, Planned, Pending, Verified, Snapshot
  <2>6. Watched(u)'
    <3>1. flight'[u] = "landed" /\ replaced'[u] = object /\ ~Verified(u)
      BY <1>0, <2>1 DEF Watched
    <3>2. call[u].base \in Nat
      BY <1>0 DEF TypeOK, Calls
    <3> QED
      BY <1>0, <2>1, <2>2, <3>1, <3>2 DEF Watched, Verified, Live
  <2> QED
    BY <2>3, <2>4, <2>5, <2>6 DEF UndoInv
<1>3. ASSUME NEW u \in Undos, Refuse(u) PROVE UndoInv'
  <2>1. /\ UNCHANGED <<world, object, edits, replaced, snaps, call, recorded, told>>
        /\ flight[u] = "open" /\ flight' = [flight EXCEPT ![u] = "refused"]
    BY <1>3 DEF Refuse
  <2>2. ASSUME NEW v \in Undos
        PROVE  Ordered(v)' /\ Honest(v)' /\ Planned(v)' /\ Watched(v)'
    BY <1>0, <2>1 DEF Ordered, Honest, Planned, Watched, Pending, Verified, Snapshot
  <2> QED
    BY <1>0, <2>1, <2>2 DEF UndoInv, TypeOK
\* What people do.
<1>4. ASSUME UNCHANGED <<world, flight, replaced, snaps, call, recorded, told>>,
             edits' \in 0 .. MaxEdits, object' \in Object \cup {None},
             object' # None =>
                 /\ object # None
                 /\ \/ object'.version > object.version
                    \/ object'.version = object.version /\ object'.value = object.value
      PROVE  UndoInv'
  <2>1. TypeOK' /\ (object' # None => object'.version \in Nat)
    BY <1>0, <1>4 DEF TypeOK, Object
  <2>2. ASSUME NEW v \in Undos
        PROVE  Ordered(v)' /\ Honest(v)' /\ Planned(v)' /\ Watched(v)'
    BY <1>0, <1>4, <2>1, ObjectMoves
  <2> QED
    BY <2>1, <2>2 DEF UndoInv
<1>5. CASE PersonEdits
  <2> DEFINE n == object.version + 1
  <2>1. PICK w \in Values : object' = [object EXCEPT !.version = n, !.value = w]
    BY <1>5 DEF PersonEdits, Values
  <2>2. object # None /\ object' \in Object /\ object'.version > object.version
    <3>1. object # None /\ object \in Object /\ n \in Nat /\ n > object.version
      BY <1>0, <1>5 DEF PersonEdits
    <3> HIDE DEF n
    <3>2. object' \in Object /\ object'.version = n
      BY <2>1, <3>1, ObjectTypes
    <3> QED
      BY <3>1, <3>2
  <2>3. edits' \in 0 .. MaxEdits
    BY <1>0, <1>5, UndoAssumption DEF PersonEdits, TypeOK
  <2> QED
    BY <1>4, <1>5, <2>2, <2>3 DEF PersonEdits
<1>6. CASE PersonApproves
  <2>1. PICK k \in {0, 1} : object' = [object EXCEPT !.version = @ + k, !.approved = TRUE]
    BY <1>6 DEF PersonApproves
  <2>2. /\ object # None /\ object' \in Object
        /\ \/ object'.version > object.version
           \/ object'.version = object.version /\ object'.value = object.value
    <3> DEFINE n == object.version + k
    <3>1. object' = [object EXCEPT !.version = n, !.approved = TRUE]
      BY <2>1
    <3>2. object # None /\ object \in Object /\ n \in Nat
      BY <1>0, <1>6, <2>1 DEF PersonApproves
    <3>3. n > object.version \/ n = object.version
      BY <1>0, <2>1, <3>2
    <3> HIDE DEF n
    <3>4. Old \in Values
      BY DEF Values
    <3>5. object' \in Object /\ object'.version = n /\ object'.value = object.value
      BY <3>1, <3>2, <3>4, ObjectTypes
    <3> QED
      BY <3>2, <3>3, <3>5
  <2>3. edits' \in 0 .. MaxEdits
    BY <1>0, <1>6 DEF PersonApproves, TypeOK
  <2> QED
    BY <1>4, <1>6, <2>2, <2>3 DEF PersonApproves
<1>7. CASE PersonDeletes
  <2>1. edits' \in 0 .. MaxEdits
    BY <1>0, <1>7, UndoAssumption DEF PersonDeletes, TypeOK
  <2> QED
    BY <1>4, <1>7, <2>1 DEF PersonDeletes
<1>8. CASE UNCHANGED vars
  <2>1. edits \in 0 .. MaxEdits /\ object \in Object \cup {None}
    BY <1>0 DEF TypeOK
  <2> QED
    BY <1>4, <1>8, <2>1 DEF vars
<1> QED
  BY <1>1, <1>2, <1>3, <1>5, <1>6, <1>7, <1>8 DEF Next

-----------------------------------------------------------------------------
(* The theorems.                                                           *)

THEOREM Invariant == Spec => []UndoInv
BY UndoInit, UndoNext, PTL DEF Spec

\* Every variable keeps its type.
THEOREM TypeCorrect == Spec => []TypeOK
<1>1. UndoInv => TypeOK
  BY DEF UndoInv
<1> QED
  BY <1>1, Invariant, PTL

\* Without --overwrite a verified undo replaced what the write had left, for
\* any number of commands and of people at the same object.
THEOREM OverwriteIsAsked == Spec => []OverwriteAsked
<1>1. UndoInv => OverwriteAsked
  BY DEF UndoInv, OverwriteAsked, Planned, Watched, Pending
<1> QED
  BY <1>1, Invariant, PTL

\* A second undo of an undo writes what the first one replaced.
THEOREM SecondRestores == Spec => []TwiceRestores
<1>1. UndoInv => TwiceRestores
  <2> SUFFICES ASSUME UndoInv, NEW u \in Undos, NEW first \in Undos, Verified(u),
                      call[u].of = first, Verified(first)
               PROVE  call[u].to = replaced[first].value
    BY DEF TwiceRestores
  <2>1. snaps[first] # None
    BY DEF UndoInv, Ordered, Pending, Snapshot
  <2>2. ~snaps[first].new /\ snaps[first].before = call[first].was
    BY <2>1 DEF UndoInv, Planned
  <2>3. call[u].to = snaps[first].before
    BY <2>2 DEF UndoInv, Planned, Pending, Snapshot
  <2> QED
    BY <2>2, <2>3 DEF UndoInv, Watched
<1> QED
  BY <1>1, Invariant, PTL

\* What says that nothing was sent has no effect, neither before nor after.
THEOREM NotSentHasNoEffect == Spec => []NotSentNeverLands
<1>1. UndoInv => NotSentNeverLands
  BY DEF UndoInv, NotSentNeverLands, Honest
<1> QED
  BY <1>1, Invariant, PTL

\* What changed ChurchTools has its line in the audit when its command ends, or
\* the command said that it has none, unless its process stopped.
THEOREM EffectIsTold == Spec => []LandedIsTold
<1>1. UndoInv => LandedIsTold
  BY DEF UndoInv, LandedIsTold, Honest, TypeOK, Calls
<1> QED
  BY <1>1, Invariant, PTL

-----------------------------------------------------------------------------
(* The diff an undo shows: the positions of a search.                      *)

\* The diagonals of a step: every other one.
Diagonals(d) == {i \in -d .. d : (i + d) % 2 = 0}

\* The place in the new text of a position from the start.
RowF(box, f, i) == Row(box, f[i], i)
\* And of one from the end.
RowB(box, g, c) == Row(box, g[c], c + Delta(box))

\* A position of the search from the start is in the box or at most as far
\* outside of it as the search took steps.
InF(box, f, d, i) ==
    /\ f[i] \in box.l .. box.r + d
    /\ RowF(box, f, i) \in box.t .. box.b + d

\* Where the searches did not meet on a forward step, the one from the start
\* is not yet at the end of the box.
ApartF(box, f, d, i) ==
    Odd(Delta(box)) /\ i - Delta(box) \in -(d - 1) .. d - 1 =>
        f[i] < box.r /\ RowF(box, f, i) < box.b

\* All positions of a step: one that is past the box has the neighbour that
\* stopped at its edge.
FwdFull(box, f, d) == \A i \in Diagonals(d) :
    /\ InF(box, f, d, i)
    /\ f[i] > box.r => i - 2 >= -d /\ f[i - 2] >= box.r
    /\ RowF(box, f, i) > box.b => i + 2 <= d /\ RowF(box, f, i + 2) >= box.b
    /\ ApartF(box, f, d, i)

\* Those of the step that is done in part. Each is at least as far as the
\* positions of the step before next to it, which are still in the array.
FwdPart(box, f, d, k) == \A i \in Diagonals(d) : i < k =>
    /\ InF(box, f, d, i)
    /\ f[i] > box.r => i # -d /\ f[i - 1] >= box.r
    /\ RowF(box, f, i) > box.b => i # d /\ RowF(box, f, i + 1) >= box.b
    /\ i # d => f[i] >= f[i + 1]
    /\ i # -d => f[i] >= f[i - 1] + 1
    /\ ApartF(box, f, d, i)

\* The same of the search from the end.
InB(box, g, d, c) ==
    /\ g[c] \in box.l - d .. box.r
    /\ RowB(box, g, c) \in box.t - d .. box.b

\* Nor the one from the end at the start, after a backward step.
ApartB(box, g, d, c) ==
    ~Odd(Delta(box)) /\ c + Delta(box) \in -d .. d =>
        g[c] > box.l /\ RowB(box, g, c) > box.t

\* All positions of a step from the end.
BwdFull(box, g, d) == \A c \in Diagonals(d) :
    /\ InB(box, g, d, c)
    /\ g[c] < box.l => c + 2 <= d /\ g[c + 2] <= box.l
    /\ RowB(box, g, c) < box.t => c - 2 >= -d /\ RowB(box, g, c - 2) <= box.t
    /\ ApartB(box, g, d, c)

\* And those of the one that is done in part.
BwdPart(box, g, d, k) == \A c \in Diagonals(d) : c < k =>
    /\ InB(box, g, d, c)
    /\ g[c] < box.l => c # d /\ g[c + 1] <= box.l
    /\ RowB(box, g, c) < box.t => c # -d /\ RowB(box, g, c - 1) <= box.t
    /\ c # -d => g[c] <= g[c - 1]
    /\ c # d => g[c] <= g[c + 1] - 1
    /\ ApartB(box, g, d, c)

\* The two searches, in their box and in turns.
SearchInv ==
    /\ stage \in {"forward", "backward"} =>
        /\ todo # <<>> /\ Head(todo).op = "search"
        /\ Current.l < Current.r /\ Current.t < Current.b
        /\ level \in 0 .. bounds.depth /\ diagonal \in Diagonals(level)
    /\ stage = "forward" =>
        /\ level = 0 => forward[1] = Current.l /\ backward[-1] = Current.r
        /\ FwdFull(Current, forward, level - 1)
        /\ BwdFull(Current, backward, level - 1)
        /\ FwdPart(Current, forward, level, diagonal)
    /\ stage = "backward" =>
        /\ level = 0 => backward[-1] = Current.r
        /\ FwdFull(Current, forward, level)
        /\ BwdFull(Current, backward, level - 1)
        /\ BwdPart(Current, backward, level, diagonal)

\* A box over both texts.
InBox(box) ==
    /\ box.l \in Nat /\ box.r \in box.l .. Len(before)
    /\ box.t \in Nat /\ box.b \in box.t .. Len(after)

-----------------------------------------------------------------------------
(* The search of a middle snake: its steps and where they meet.            *)

\* Every other diagonal is of a step, those between them of the step before.
LEMMA DiagonalFacts ==
    ASSUME NEW d \in Int
    PROVE  /\ \A k \in Diagonals(d) :
                /\ k \in Int /\ -d <= k /\ k <= d
                /\ k \notin Diagonals(d - 1)
                /\ k # d => k + 2 \in Diagonals(d) /\ k + 1 \in Diagonals(d - 1)
                /\ k # -d => k - 2 \in Diagonals(d) /\ k - 1 \in Diagonals(d - 1)
           /\ d \in Nat => -d \in Diagonals(d) /\ d \in Diagonals(d)
           /\ \A k, i \in Diagonals(d) : i < k + 2 => i <= k
BY DEF Diagonals

\* A step of the search from the start, on any diagonal.
LEMMA ForwardStep ==
    ASSUME NEW box, box.l \in Int, box.r \in Int, box.t \in Int, box.b \in Int,
           box.l <= box.r, box.t <= box.b,
           NEW d \in Nat, NEW k \in Diagonals(d), NEW f, NEW x,
           d = 0 => f[1] = box.l,
           FwdFull(box, f, d - 1),
           x = IF k = -d \/ (k # d /\ f[k - 1] < f[k + 1])
                 THEN f[k + 1] ELSE f[k - 1] + 1
    PROVE  /\ x \in box.l .. box.r + d
           /\ Row(box, x, k) \in box.t .. box.b + d
           /\ x > box.r => k # -d /\ f[k - 1] >= box.r
           /\ Row(box, x, k) > box.b => k # d /\ RowF(box, f, k + 1) >= box.b
           /\ k # d => x >= f[k + 1]
           /\ k # -d => x >= f[k - 1] + 1
<1>1. /\ k \in Int /\ -d <= k /\ k <= d
      /\ k # d => k + 1 \in Diagonals(d - 1)
      /\ k # -d => k - 1 \in Diagonals(d - 1)
  BY DiagonalFacts
<1>2. \A i \in Diagonals(d - 1) :
         /\ f[i] \in box.l .. box.r + (d - 1)
         /\ box.t + (f[i] - box.l) - i \in box.t .. box.b + (d - 1)
         /\ f[i] > box.r => i - 2 >= -(d - 1) /\ f[i - 2] >= box.r
         /\ box.t + (f[i] - box.l) - i > box.b =>
              i + 2 <= d - 1 /\ box.t + (f[i + 2] - box.l) - (i + 2) >= box.b
  BY DEF FwdFull, InF, RowF, Row
<1>3. CASE d = 0
  BY <1>1, <1>3 DEF Row
<1>4. CASE d # 0 /\ (k = -d \/ (k # d /\ f[k - 1] < f[k + 1]))
  <2>1. x = f[k + 1] /\ k # d /\ k + 1 \in Diagonals(d - 1)
    BY <1>1, <1>4
  <2>2. k # -d => f[k - 1] \in Int /\ f[k - 1] < f[k + 1]
    BY <1>1, <1>2, <1>4
  <2> QED
    BY <1>1, <1>2, <1>4, <2>1, <2>2 DEF Row, RowF
<1>5. CASE d # 0 /\ ~(k = -d \/ (k # d /\ f[k - 1] < f[k + 1]))
  <2>1. x = f[k - 1] + 1 /\ k # -d /\ k - 1 \in Diagonals(d - 1)
    BY <1>1, <1>5
  <2>2. k # d => f[k + 1] \in Int /\ ~(f[k - 1] < f[k + 1])
    BY <1>1, <1>2, <1>5
  <2> QED
    BY <1>1, <1>2, <1>5, <2>1, <2>2 DEF Row, RowF
<1> QED
  BY <1>3, <1>4, <1>5

\* Where the two searches meet on a forward step is inside the box.
LEMMA ForwardMeetsInside ==
    ASSUME NEW box, box.l \in Int, box.r \in Int, box.t \in Int, box.b \in Int,
           box.l <= box.r, box.t <= box.b,
           NEW d \in Nat, NEW k \in Diagonals(d), NEW f, NEW x,
           d = 0 => f[1] = box.l,
           FwdFull(box, f, d - 1),
           x = IF k = -d \/ (k # d /\ f[k - 1] < f[k + 1])
                 THEN f[k + 1] ELSE f[k - 1] + 1,
           Odd(Delta(box)), k - Delta(box) > -d, k - Delta(box) < d
    PROVE  x <= box.r /\ Row(box, x, k) <= box.b
<1>1. /\ x \in box.l .. box.r + d
      /\ Row(box, x, k) \in box.t .. box.b + d
      /\ x > box.r => k # -d /\ f[k - 1] >= box.r
      /\ Row(box, x, k) > box.b => k # d /\ RowF(box, f, k + 1) >= box.b
  BY ForwardStep
<1>2. /\ k \in Int /\ -d <= k /\ k <= d
      /\ k # d => k + 1 \in Diagonals(d - 1)
      /\ k # -d => k - 1 \in Diagonals(d - 1)
  BY DiagonalFacts
<1>3. \A i \in Diagonals(d - 1) :
         /\ f[i] \in box.l .. box.r + (d - 1)
         /\ box.t + (f[i] - box.l) - i \in box.t .. box.b + (d - 1)
         /\ i - (box.r - box.l - (box.b - box.t)) \in -(d - 2) .. d - 2 =>
              f[i] < box.r /\ box.t + (f[i] - box.l) - i < box.b
  BY DEF FwdFull, InF, RowF, Row, ApartF, Delta
<1>4. ASSUME x > box.r PROVE FALSE
  <2>1. k - 1 \in Diagonals(d - 1) /\ f[k - 1] >= box.r
    BY <1>1, <1>2, <1>4
  <2> DEFINE e == Delta(box)
  <2>2. e = box.r - box.l - (box.b - box.t) /\ e \in Int
    BY DEF Delta
  <2>3. /\ f[k - 1] \in Int
        /\ box.t + (f[k - 1] - box.l) - (k - 1) <= box.b + (d - 1)
        /\ (k - 1) - (box.r - box.l - (box.b - box.t)) \in -(d - 2) .. d - 2 =>
              f[k - 1] < box.r
    BY <1>3, <2>1
  <2>4. k - e > -d /\ k - e < d
    OBVIOUS
  <2>5. k - e # -(d - 2) /\ k - e # d - 2
    BY <2>2 DEF Diagonals, Odd
  <2> HIDE DEF e
  <2> QED
    BY <1>2, <2>1, <2>2, <2>3, <2>4, <2>5
<1>5. ASSUME Row(box, x, k) > box.b PROVE FALSE
  <2>1. k + 1 \in Diagonals(d - 1) /\ box.t + (f[k + 1] - box.l) - (k + 1) >= box.b
    BY <1>1, <1>2, <1>5 DEF RowF, Row
  <2> DEFINE e == Delta(box)
  <2>2. e = box.r - box.l - (box.b - box.t) /\ e \in Int
    BY DEF Delta
  <2>3. /\ f[k + 1] \in Int /\ f[k + 1] <= box.r + (d - 1)
        /\ (k + 1) - (box.r - box.l - (box.b - box.t)) \in -(d - 2) .. d - 2 =>
              box.t + (f[k + 1] - box.l) - (k + 1) < box.b
    BY <1>3, <2>1
  <2>4. k - e > -d /\ k - e < d
    OBVIOUS
  <2>5. k - e # -(d - 2) /\ k - e # d - 2
    BY <2>2 DEF Diagonals, Odd
  <2> HIDE DEF e
  <2> QED
    BY <1>2, <2>1, <2>2, <2>3, <2>4, <2>5
<1> QED
  BY <1>1, <1>4, <1>5 DEF Row

\* A step of the search that does not meet the other one.
LEMMA ForwardPart ==
    ASSUME NEW box, box.l \in Int, box.r \in Int, box.t \in Int, box.b \in Int,
           box.l <= box.r, box.t <= box.b,
           NEW d \in Nat, NEW k \in Diagonals(d), NEW f, NEW g, NEW x, NEW n \in Nat, NEW h,
           d = 0 => f[1] = box.l,
           FwdFull(box, f, d - 1), FwdPart(box, f, d, k), BwdFull(box, g, d - 1),
           x = IF k = -d \/ (k # d /\ f[k - 1] < f[k + 1])
                 THEN f[k + 1] ELSE f[k - 1] + 1,
           n > 0 => x + n <= box.r /\ Row(box, x, k) + n <= box.b,
           Odd(Delta(box)) /\ k - Delta(box) > -d /\ k - Delta(box) < d
               => x + n < g[k - Delta(box)],
           h[k] = x + n, \A i \in Diagonals(d) \cup Diagonals(d - 1) : i # k => h[i] = f[i]
    PROVE  FwdFull(box, h, d - 1) /\ FwdPart(box, h, d, k + 2)
<1>1. /\ x \in box.l .. box.r + d
      /\ Row(box, x, k) \in box.t .. box.b + d
      /\ x > box.r => k # -d /\ f[k - 1] >= box.r
      /\ Row(box, x, k) > box.b => k # d /\ RowF(box, f, k + 1) >= box.b
      /\ k # d => x >= f[k + 1]
      /\ k # -d => x >= f[k - 1] + 1
  BY ForwardStep
<1>2. /\ \A i \in Diagonals(d) :
           /\ i \in Int /\ -d <= i /\ i <= d /\ i \notin Diagonals(d - 1)
           /\ i # d => i + 1 \in Diagonals(d - 1)
           /\ i # -d => i - 1 \in Diagonals(d - 1)
      /\ \A i \in Diagonals(d) : i < k + 2 => i <= k
      /\ \A i \in Diagonals(d - 1) : i \in Int /\ i # k
  BY DiagonalFacts
<1>3. \A i \in Diagonals(d - 1) : h[i] = f[i]
  BY <1>2
<1>4. FwdFull(box, h, d - 1)
  <2>1. \A i \in Diagonals(d - 1) :
          /\ i - 2 >= -(d - 1) => i - 2 \in Diagonals(d - 1)
          /\ i + 2 <= d - 1 => i + 2 \in Diagonals(d - 1)
    BY DEF Diagonals
  <2> QED
    BY <1>2, <1>3, <2>1 DEF FwdFull, InF, RowF, Row, ApartF
<1>5. ApartF(box, h, d, k)
  <2> SUFFICES ASSUME Odd(Delta(box)), k - Delta(box) \in -(d - 1) .. d - 1
               PROVE  h[k] < box.r /\ RowF(box, h, k) < box.b
    BY DEF ApartF
  <2>1. k - Delta(box) \in Diagonals(d - 1)
    BY DEF Diagonals, Odd, Delta
  <2>2. /\ g[k - Delta(box)] \in Int /\ g[k - Delta(box)] <= box.r
        /\ box.t + (g[k - Delta(box)] - box.l) - k <= box.b
    BY <1>2, <2>1 DEF BwdFull, InB, RowB, Row, Delta
  <2>3. h[k] < g[k - Delta(box)]
    BY <1>2 DEF Delta
  <2> QED
    BY <1>1, <1>2, <2>2, <2>3 DEF RowF, Row
<1>6. FwdPart(box, h, d, k + 2)
  <2> SUFFICES ASSUME NEW i \in Diagonals(d), i <= k
               PROVE  /\ InF(box, h, d, i)
                      /\ h[i] > box.r => i # -d /\ h[i - 1] >= box.r
                      /\ RowF(box, h, i) > box.b => i # d /\ RowF(box, h, i + 1) >= box.b
                      /\ i # d => h[i] >= h[i + 1]
                      /\ i # -d => h[i] >= h[i - 1] + 1
                      /\ ApartF(box, h, d, i)
    BY <1>2 DEF FwdPart
  <2>1. /\ i # d => h[i + 1] = f[i + 1]
        /\ i # -d => h[i - 1] = f[i - 1]
    BY <1>2, <1>3
  <2>2. CASE i = k
    <3>0. /\ h[i] = x + n /\ RowF(box, h, i) = Row(box, x, k) + n
          /\ x \in Int /\ Row(box, x, k) \in Int
      <4>1. h[i] = x + n /\ x \in Int /\ k \in Int
        BY <1>1, <1>2, <2>2
      <4> QED
        BY <2>2, <4>1 DEF RowF, Row
    <3>1. h[i] > box.r => x > box.r
      BY <3>0
    <3>2. RowF(box, h, i) > box.b => Row(box, x, k) > box.b
      BY <3>0
    <3>3. InF(box, h, d, i)
      BY <1>1, <3>0 DEF InF
    <3>4. k # d => f[k + 1] \in Int
      BY <1>2 DEF FwdFull, InF
    <3>5. k # -d => f[k - 1] \in Int
      BY <1>2 DEF FwdFull, InF
    <3>6. RowF(box, h, i) > box.b => i # d /\ RowF(box, h, i + 1) >= box.b
      BY <1>1, <2>1, <2>2, <3>2 DEF RowF
    <3>7. h[i] > box.r => i # -d /\ h[i - 1] >= box.r
      BY <1>1, <2>1, <2>2, <3>1
    <3>8. /\ i # d => h[i] >= h[i + 1]
          /\ i # -d => h[i] >= h[i - 1] + 1
      BY <1>1, <2>1, <2>2, <3>4, <3>5
    <3> QED
      BY <1>5, <2>2, <3>3, <3>6, <3>7, <3>8
  <2>3. CASE i # k
    <3>1. i < k /\ h[i] = f[i]
      BY <1>2, <2>3
    <3> QED
      BY <2>1, <3>1 DEF FwdPart, InF, RowF, ApartF
  <2> QED
    BY <2>2, <2>3
<1> QED
  BY <1>4, <1>6

\* When the last diagonal of a step is done, the step is.
LEMMA ForwardFull ==
    ASSUME NEW box, box.l \in Int, box.r \in Int, box.t \in Int, box.b \in Int,
           NEW d \in Nat, NEW f,
           FwdFull(box, f, d - 1), FwdPart(box, f, d, d + 2)
    PROVE  FwdFull(box, f, d)
<1> SUFFICES ASSUME NEW i \in Diagonals(d)
             PROVE  /\ InF(box, f, d, i)
                    /\ f[i] > box.r => i - 2 >= -d /\ f[i - 2] >= box.r
                    /\ RowF(box, f, i) > box.b => i + 2 <= d /\ RowF(box, f, i + 2) >= box.b
                    /\ ApartF(box, f, d, i)
  BY DEF FwdFull
<1>1. \A j \in Diagonals(d) :
        /\ j \in Int /\ j <= d /\ j >= -d
        /\ j # d => j + 2 \in Diagonals(d) /\ j + 1 \in Diagonals(d - 1)
        /\ j # -d => j - 2 \in Diagonals(d) /\ j - 1 \in Diagonals(d - 1)
  BY DiagonalFacts
<1>2. \A j \in Diagonals(d) :
        /\ InF(box, f, d, j)
        /\ f[j] > box.r => j # -d /\ f[j - 1] >= box.r
        /\ RowF(box, f, j) > box.b => j # d /\ RowF(box, f, j + 1) >= box.b
        /\ j # d => f[j] >= f[j + 1]
        /\ j # -d => f[j] >= f[j - 1] + 1
        /\ ApartF(box, f, d, j)
  BY <1>1 DEF FwdPart
<1>3. \A j \in Diagonals(d) \cup Diagonals(d - 1) : f[j] \in Int
  BY <1>2 DEF FwdFull, InF
<1>4. ASSUME f[i] > box.r PROVE i - 2 >= -d /\ f[i - 2] >= box.r
  <2>1. i # -d /\ f[i - 1] >= box.r
    BY <1>2, <1>4
  <2>2. i - 2 \in Diagonals(d) /\ i - 2 # d /\ i - 1 \in Diagonals(d - 1)
    BY <1>1, <2>1
  <2>3. f[i - 2] >= f[(i - 2) + 1]
    BY <1>2, <2>2
  <2>4. (i - 2) + 1 = i - 1 /\ i - 2 >= -d
    BY <1>1, <2>2
  <2> QED
    BY <1>3, <2>1, <2>2, <2>3, <2>4
<1>5. ASSUME RowF(box, f, i) > box.b PROVE i + 2 <= d /\ RowF(box, f, i + 2) >= box.b
  <2>1. i # d /\ RowF(box, f, i + 1) >= box.b
    BY <1>2, <1>5
  <2>2. i + 2 \in Diagonals(d) /\ i + 2 # -d /\ i + 1 \in Diagonals(d - 1)
    BY <1>1, <2>1
  <2>3. f[i + 2] >= f[(i + 2) - 1] + 1
    BY <1>2, <2>2
  <2>4. (i + 2) - 1 = i + 1 /\ i + 2 <= d /\ i \in Int
    BY <1>1, <2>2
  <2> QED
    BY <1>3, <2>1, <2>2, <2>3, <2>4 DEF RowF, Row
<1> QED
  BY <1>2, <1>4, <1>5

\* A step of the search from the end, on any diagonal.
LEMMA BackwardStep ==
    ASSUME NEW box, box.l \in Int, box.r \in Int, box.t \in Int, box.b \in Int,
           box.l <= box.r, box.t <= box.b,
           NEW d \in Nat, NEW k \in Diagonals(d), NEW g, NEW x,
           d = 0 => g[-1] = box.r,
           BwdFull(box, g, d - 1),
           x = IF k = d \/ (k # -d /\ g[k - 1] < g[k + 1])
                 THEN g[k - 1] ELSE g[k + 1] - 1
    PROVE  /\ x \in box.l - d .. box.r
           /\ Row(box, x, k + Delta(box)) \in box.t - d .. box.b
           /\ x < box.l => k # d /\ g[k + 1] <= box.l
           /\ Row(box, x, k + Delta(box)) < box.t => k # -d /\ RowB(box, g, k - 1) <= box.t
           /\ k # -d => x <= g[k - 1]
           /\ k # d => x <= g[k + 1] - 1
<1>1. /\ k \in Int /\ -d <= k /\ k <= d
      /\ k # d => k + 1 \in Diagonals(d - 1)
      /\ k # -d => k - 1 \in Diagonals(d - 1)
  BY DiagonalFacts
<1> DEFINE e == Delta(box)
<1>0. e = box.r - box.l - (box.b - box.t) /\ e \in Int
  BY DEF Delta
<1>2. \A i \in Diagonals(d - 1) :
         /\ g[i] \in box.l - (d - 1) .. box.r
         /\ box.t + (g[i] - box.l) - (i + e) \in box.t - (d - 1) .. box.b
         /\ g[i] < box.l => i + 2 <= d - 1 /\ g[i + 2] <= box.l
         /\ box.t + (g[i] - box.l) - (i + e) < box.t =>
              i - 2 >= -(d - 1) /\ box.t + (g[i - 2] - box.l) - (i - 2 + e) <= box.t
  BY DEF BwdFull, InB, RowB, Row
<1>3. SUFFICES
        /\ x \in box.l - d .. box.r
        /\ box.t + (x - box.l) - (k + e) \in box.t - d .. box.b
        /\ x < box.l => k # d /\ g[k + 1] <= box.l
        /\ box.t + (x - box.l) - (k + e) < box.t =>
             k # -d /\ box.t + (g[k - 1] - box.l) - (k - 1 + e) <= box.t
        /\ k # -d => x <= g[k - 1]
        /\ k # d => x <= g[k + 1] - 1
  BY DEF Row, RowB
<1> HIDE DEF e
<1>4. CASE d = 0
  BY <1>0, <1>1, <1>4
<1>5. CASE d # 0 /\ (k = d \/ (k # -d /\ g[k - 1] < g[k + 1]))
  <2>1. x = g[k - 1] /\ k # -d /\ k - 1 \in Diagonals(d - 1)
    BY <1>1, <1>5
  <2>2. k # d => g[k + 1] \in Int /\ g[k - 1] < g[k + 1]
    BY <1>1, <1>2, <1>5
  <2> QED
    BY <1>0, <1>1, <1>2, <1>5, <2>1, <2>2
<1>6. CASE d # 0 /\ ~(k = d \/ (k # -d /\ g[k - 1] < g[k + 1]))
  <2>1. x = g[k + 1] - 1 /\ k # d /\ k + 1 \in Diagonals(d - 1)
    BY <1>1, <1>6
  <2>2. k # -d => g[k - 1] \in Int /\ ~(g[k - 1] < g[k + 1])
    BY <1>1, <1>2, <1>6
  <2> QED
    BY <1>0, <1>1, <1>2, <1>6, <2>1, <2>2
<1> QED
  BY <1>4, <1>5, <1>6

\* Where the two searches meet on a backward step is inside the box.
LEMMA BackwardMeetsInside ==
    ASSUME NEW box, box.l \in Int, box.r \in Int, box.t \in Int, box.b \in Int,
           box.l <= box.r, box.t <= box.b,
           NEW d \in Nat, NEW k \in Diagonals(d), NEW g, NEW x,
           d = 0 => g[-1] = box.r,
           BwdFull(box, g, d - 1),
           x = IF k = d \/ (k # -d /\ g[k - 1] < g[k + 1])
                 THEN g[k - 1] ELSE g[k + 1] - 1,
           ~Odd(Delta(box)), k + Delta(box) >= -d, k + Delta(box) <= d
    PROVE  x >= box.l /\ Row(box, x, k + Delta(box)) >= box.t
<1>1. /\ x \in box.l - d .. box.r
      /\ Row(box, x, k + Delta(box)) \in box.t - d .. box.b
      /\ x < box.l => k # d /\ g[k + 1] <= box.l
      /\ Row(box, x, k + Delta(box)) < box.t => k # -d /\ RowB(box, g, k - 1) <= box.t
  BY BackwardStep
<1>2. /\ k \in Int /\ -d <= k /\ k <= d
      /\ k # d => k + 1 \in Diagonals(d - 1)
      /\ k # -d => k - 1 \in Diagonals(d - 1)
  BY DiagonalFacts
<1> DEFINE e == Delta(box)
<1>3. e = box.r - box.l - (box.b - box.t) /\ e \in Int
  BY DEF Delta
<1>4. k + e >= -d /\ k + e <= d
  OBVIOUS
<1>5. k + e # d - 1 /\ k + e # -(d - 1)
  BY <1>3 DEF Diagonals, Odd
<1>6. \A i \in Diagonals(d - 1) :
         /\ g[i] \in box.l - (d - 1) .. box.r
         /\ box.t + (g[i] - box.l) - (i + e) \in box.t - (d - 1) .. box.b
         /\ i + e \in -(d - 1) .. d - 1 =>
              g[i] > box.l /\ box.t + (g[i] - box.l) - (i + e) > box.t
  BY DEF BwdFull, InB, RowB, Row, ApartB
<1>7. /\ Row(box, x, k + e) = box.t + (x - box.l) - (k + e)
      /\ RowB(box, g, k - 1) = box.t + (g[k - 1] - box.l) - (k - 1 + e)
  BY DEF Row, RowB
<1> HIDE DEF e
<1>8. ASSUME x < box.l PROVE FALSE
  <2>1. k + 1 \in Diagonals(d - 1) /\ g[k + 1] <= box.l
    BY <1>1, <1>2, <1>8
  <2> QED
    BY <1>2, <1>3, <1>4, <1>5, <1>6, <2>1
<1>9. ASSUME Row(box, x, k + e) < box.t PROVE FALSE
  <2>1. k - 1 \in Diagonals(d - 1) /\ box.t + (g[k - 1] - box.l) - (k - 1 + e) <= box.t
    BY <1>1, <1>2, <1>7, <1>9 DEF e
  <2> QED
    BY <1>2, <1>3, <1>4, <1>5, <1>6, <2>1
<1> QED
  BY <1>1, <1>3, <1>8, <1>9 DEF Row, e

\* A step of the search from the end that does not meet the other one.
LEMMA BackwardPart ==
    ASSUME NEW box, box.l \in Int, box.r \in Int, box.t \in Int, box.b \in Int,
           box.l <= box.r, box.t <= box.b,
           NEW d \in Nat, NEW k \in Diagonals(d), NEW f, NEW g, NEW x, NEW n \in Nat, NEW h,
           d = 0 => g[-1] = box.r,
           BwdFull(box, g, d - 1), BwdPart(box, g, d, k), FwdFull(box, f, d),
           x = IF k = d \/ (k # -d /\ g[k - 1] < g[k + 1])
                 THEN g[k - 1] ELSE g[k + 1] - 1,
           n > 0 => x - n >= box.l /\ Row(box, x, k + Delta(box)) - n >= box.t,
           ~Odd(Delta(box)) /\ k + Delta(box) >= -d /\ k + Delta(box) <= d
               => x - n > f[k + Delta(box)],
           h[k] = x - n, \A i \in Diagonals(d) \cup Diagonals(d - 1) : i # k => h[i] = g[i]
    PROVE  BwdFull(box, h, d - 1) /\ BwdPart(box, h, d, k + 2)
<1>1. /\ x \in box.l - d .. box.r
      /\ Row(box, x, k + Delta(box)) \in box.t - d .. box.b
      /\ x < box.l => k # d /\ g[k + 1] <= box.l
      /\ Row(box, x, k + Delta(box)) < box.t => k # -d /\ RowB(box, g, k - 1) <= box.t
      /\ k # -d => x <= g[k - 1]
      /\ k # d => x <= g[k + 1] - 1
  BY BackwardStep
<1>2. /\ \A i \in Diagonals(d) :
           /\ i \in Int /\ -d <= i /\ i <= d /\ i \notin Diagonals(d - 1)
           /\ i # d => i + 1 \in Diagonals(d - 1)
           /\ i # -d => i - 1 \in Diagonals(d - 1)
      /\ \A i \in Diagonals(d) : i < k + 2 => i <= k
      /\ \A i \in Diagonals(d - 1) : i \in Int /\ i # k
  BY DiagonalFacts
<1>3. \A i \in Diagonals(d - 1) : h[i] = g[i]
  BY <1>2
<1>4. BwdFull(box, h, d - 1)
  <2>1. \A i \in Diagonals(d - 1) :
          /\ i - 2 >= -(d - 1) => i - 2 \in Diagonals(d - 1)
          /\ i + 2 <= d - 1 => i + 2 \in Diagonals(d - 1)
    BY DEF Diagonals
  <2> QED
    BY <1>2, <1>3, <2>1 DEF BwdFull, InB, RowB, Row, ApartB
<1>5. ApartB(box, h, d, k)
  <2> SUFFICES ASSUME ~Odd(Delta(box)), k + Delta(box) \in -d .. d
               PROVE  h[k] > box.l /\ RowB(box, h, k) > box.t
    BY DEF ApartB
  <2>1. k + Delta(box) \in Diagonals(d)
    BY DEF Diagonals, Odd, Delta
  <2>2. /\ f[k + Delta(box)] \in Int /\ f[k + Delta(box)] >= box.l
        /\ box.t + (f[k + Delta(box)] - box.l) - (k + Delta(box)) >= box.t
    BY <1>2, <2>1 DEF FwdFull, InF, RowF, Row, Delta
  <2>3. h[k] > f[k + Delta(box)] /\ h[k] \in Int /\ Delta(box) \in Int
    BY <1>1, <1>2 DEF Delta
  <2> QED
    BY <1>2, <2>2, <2>3 DEF RowB, Row
<1>6. BwdPart(box, h, d, k + 2)
  <2> SUFFICES ASSUME NEW i \in Diagonals(d), i <= k
               PROVE  /\ InB(box, h, d, i)
                      /\ h[i] < box.l => i # d /\ h[i + 1] <= box.l
                      /\ RowB(box, h, i) < box.t => i # -d /\ RowB(box, h, i - 1) <= box.t
                      /\ i # -d => h[i] <= h[i - 1]
                      /\ i # d => h[i] <= h[i + 1] - 1
                      /\ ApartB(box, h, d, i)
    BY <1>2 DEF BwdPart
  <2>1. /\ i # d => h[i + 1] = g[i + 1]
        /\ i # -d => h[i - 1] = g[i - 1]
    BY <1>2, <1>3
  <2>2. CASE i = k
    <3>0. /\ h[i] = x - n /\ RowB(box, h, i) = Row(box, x, k + Delta(box)) - n
          /\ x \in Int /\ Row(box, x, k + Delta(box)) \in Int
      <4>1. h[i] = x - n /\ x \in Int /\ k \in Int /\ Delta(box) \in Int
        BY <1>1, <1>2, <2>2 DEF Delta
      <4> QED
        BY <2>2, <4>1 DEF RowB, Row
    <3>1. h[i] < box.l => x < box.l
      BY <3>0
    <3>2. RowB(box, h, i) < box.t => Row(box, x, k + Delta(box)) < box.t
      BY <3>0
    <3>3. InB(box, h, d, i)
      BY <1>1, <3>0 DEF InB
    <3>4. k # d => g[k + 1] \in Int
      BY <1>2 DEF BwdFull, InB
    <3>5. k # -d => g[k - 1] \in Int
      BY <1>2 DEF BwdFull, InB
    <3>6. RowB(box, h, i) < box.t => i # -d /\ RowB(box, h, i - 1) <= box.t
      BY <1>1, <2>1, <2>2, <3>2 DEF RowB
    <3>7. h[i] < box.l => i # d /\ h[i + 1] <= box.l
      BY <1>1, <2>1, <2>2, <3>1
    <3>8. /\ i # -d => h[i] <= h[i - 1]
          /\ i # d => h[i] <= h[i + 1] - 1
      BY <1>1, <2>1, <2>2, <3>0, <3>4, <3>5
    <3> QED
      BY <1>5, <2>2, <3>3, <3>6, <3>7, <3>8
  <2>3. CASE i # k
    <3>1. i < k /\ h[i] = g[i]
      BY <1>2, <2>3
    <3> QED
      BY <2>1, <3>1 DEF BwdPart, InB, RowB, ApartB
  <2> QED
    BY <2>2, <2>3
<1> QED
  BY <1>4, <1>6

\* When the last diagonal of a step is done, the step is.
LEMMA BackwardFull ==
    ASSUME NEW box, box.l \in Int, box.r \in Int, box.t \in Int, box.b \in Int,
           NEW d \in Nat, NEW g,
           BwdFull(box, g, d - 1), BwdPart(box, g, d, d + 2)
    PROVE  BwdFull(box, g, d)
<1> SUFFICES ASSUME NEW i \in Diagonals(d)
             PROVE  /\ InB(box, g, d, i)
                    /\ g[i] < box.l => i + 2 <= d /\ g[i + 2] <= box.l
                    /\ RowB(box, g, i) < box.t => i - 2 >= -d /\ RowB(box, g, i - 2) <= box.t
                    /\ ApartB(box, g, d, i)
  BY DEF BwdFull
<1>1. \A j \in Diagonals(d) :
        /\ j \in Int /\ j <= d /\ j >= -d
        /\ j # d => j + 2 \in Diagonals(d) /\ j + 1 \in Diagonals(d - 1)
        /\ j # -d => j - 2 \in Diagonals(d) /\ j - 1 \in Diagonals(d - 1)
  BY DiagonalFacts
<1>2. \A j \in Diagonals(d) :
        /\ InB(box, g, d, j)
        /\ g[j] < box.l => j # d /\ g[j + 1] <= box.l
        /\ RowB(box, g, j) < box.t => j # -d /\ RowB(box, g, j - 1) <= box.t
        /\ j # -d => g[j] <= g[j - 1]
        /\ j # d => g[j] <= g[j + 1] - 1
        /\ ApartB(box, g, d, j)
  BY <1>1 DEF BwdPart
<1>3. \A j \in Diagonals(d) \cup Diagonals(d - 1) : g[j] \in Int
  BY <1>2 DEF BwdFull, InB
<1>4. ASSUME g[i] < box.l PROVE i + 2 <= d /\ g[i + 2] <= box.l
  <2>1. i # d /\ g[i + 1] <= box.l
    BY <1>2, <1>4
  <2>2. i + 2 \in Diagonals(d) /\ i + 2 # -d /\ i + 1 \in Diagonals(d - 1)
    BY <1>1, <2>1
  <2>3. g[i + 2] <= g[(i + 2) - 1]
    BY <1>2, <2>2
  <2>4. (i + 2) - 1 = i + 1 /\ i + 2 <= d
    BY <1>1, <2>2
  <2> QED
    BY <1>3, <2>1, <2>2, <2>3, <2>4
<1>5. ASSUME RowB(box, g, i) < box.t PROVE i - 2 >= -d /\ RowB(box, g, i - 2) <= box.t
  <2>1. i # -d /\ RowB(box, g, i - 1) <= box.t
    BY <1>2, <1>5
  <2>2. i - 2 \in Diagonals(d) /\ i - 2 # d /\ i - 1 \in Diagonals(d - 1)
    BY <1>1, <2>1
  <2>3. g[i - 2] <= g[(i - 2) + 1] - 1
    BY <1>2, <2>2
  <2>4. (i - 2) + 1 = i - 1 /\ i - 2 >= -d /\ i \in Int /\ Delta(box) \in Int
    BY <1>1, <2>2 DEF Delta
  <2> QED
    BY <1>3, <2>1, <2>2, <2>3, <2>4 DEF RowB, Row
<1> QED
  BY <1>2, <1>4, <1>5

-----------------------------------------------------------------------------
(* Boxes over both texts, and the script.                                  *)

\* The texts and the bounds are what the diff is made of.
TextsOK ==
    /\ before \in Seq(Line) /\ after \in Seq(Line)
    /\ bounds \in [depth : Nat, lines : Nat]

\* The next n lines are the same, from one place in each text.
Same(x, y, n) == \A i \in 1 .. n : before[x + i] = after[y + i]

\* A set of numbers has a greatest, if they have a bound.
LEMMA MostOf ==
    ASSUME NEW N \in Nat, NEW S \in SUBSET (0 .. N), 0 \in S
    PROVE  Max(S) \in S /\ \A n \in S : n <= Max(S)
<1> DEFINE T == {N - n : n \in S}
<1>1. T \in SUBSET Nat /\ N \in T
  OBVIOUS
<1>2. PICK m \in T : \A n \in T : ~ (<<n, m>> \in OpToRel(<, Nat))
  BY <1>1, NatLessThanWellFounded, WFMin
<1>3. ASSUME NEW n \in T PROVE m <= n
  <2>1. n \in Nat /\ m \in Nat
    BY <1>1
  <2>2. n < m => <<n, m>> \in OpToRel(<, Nat)
    BY <2>1 DEF OpToRel
  <2>3. ~ (<<n, m>> \in OpToRel(<, Nat))
    BY <1>2
  <2> HIDE DEF T
  <2>4. ~ (n < m)
    BY <2>2, <2>3
  <2> QED
    BY <2>1, <2>4
<1>4. PICK g \in S : m = N - g
  BY <1>2
<1>5. \A n \in S : g >= n
  <2> TAKE n \in S
  <2>1. m <= N - n
    BY <1>3
  <2> QED
    BY <1>4, <2>1
<1>6. Max(S) \in S /\ \A n \in S : Max(S) >= n
  BY <1>5 DEF Max
<1> QED
  BY <1>6

\* The lines that are equal from a place on: all of them, and only inside the box.
LEMMA RunFacts ==
    ASSUME NEW box, box.r \in Int, box.b \in Int, NEW x \in Int, NEW y \in Int
    PROVE  /\ Run(box, x, y) \in Nat
           /\ Run(box, x, y) > 0 =>
                x + Run(box, x, y) <= box.r /\ y + Run(box, x, y) <= box.b
           /\ Same(x, y, Run(box, x, y))
           /\ \A n \in Nat : n > 0 /\ x + n <= box.r /\ y + n <= box.b /\ Same(x, y, n)
                => n <= Run(box, x, y)
<1> DEFINE R == {n \in 1 .. box.r - x :
                    /\ y + n <= box.b
                    /\ \A i \in 1 .. n : before[x + i] = after[y + i]}
           S == {0} \cup R
           N == IF box.r - x > 0 THEN box.r - x ELSE 0
           m == Max(S)
<1>1. Run(box, x, y) = m
  BY DEF Run
<1>2. N \in Nat /\ S \in SUBSET (0 .. N) /\ 0 \in S
  OBVIOUS
<1>3. m \in S /\ \A n \in S : n <= m
  <2> HIDE DEF N, S
  <2> QED
    BY <1>2, MostOf
<1>4. \A n \in Nat : n > 0 /\ x + n <= box.r /\ y + n <= box.b /\ Same(x, y, n) => n \in S
  BY DEF Same
<1> HIDE DEF m
<1>5. m \in Nat
  BY <1>3
<1>6. m > 0 => m \in R
  BY <1>3
<1>7. /\ m > 0 => x + m <= box.r /\ y + m <= box.b
      /\ Same(x, y, m)
  BY <1>5, <1>6 DEF Same
<1> QED
  BY <1>1, <1>3, <1>4, <1>5, <1>7

\* And back from a place.
LEMMA RunBackFacts ==
    ASSUME NEW box, box.l \in Int, box.t \in Int, NEW x \in Int, NEW y \in Int
    PROVE  /\ RunBack(box, x, y) \in Nat
           /\ RunBack(box, x, y) > 0 =>
                x - RunBack(box, x, y) >= box.l /\ y - RunBack(box, x, y) >= box.t
           /\ Same(x - RunBack(box, x, y), y - RunBack(box, x, y), RunBack(box, x, y))
<1> DEFINE R == {n \in 1 .. x - box.l :
                    /\ y - n >= box.t
                    /\ \A i \in 0 .. n - 1 : before[x - i] = after[y - i]}
           S == {0} \cup R
           N == IF x - box.l > 0 THEN x - box.l ELSE 0
           m == Max(S)
<1>1. RunBack(box, x, y) = m
  BY DEF RunBack
<1>2. N \in Nat /\ S \in SUBSET (0 .. N) /\ 0 \in S
  OBVIOUS
<1>3. m \in S /\ \A n \in S : n <= m
  <2> HIDE DEF N, S
  <2> QED
    BY <1>2, MostOf
<1> HIDE DEF m
<1>5. m \in Nat
  BY <1>3
<1>6. m > 0 => m \in R
  BY <1>3
<1>7. m > 0 => x - m >= box.l /\ y - m >= box.t
  BY <1>6
<1>8. Same(x - m, y - m, m)
  <2> SUFFICES ASSUME NEW i \in 1 .. m
               PROVE  before[x - m + i] = after[y - m + i]
    BY DEF Same
  <2>1. m - i \in 0 .. m - 1 /\ m > 0
    BY <1>5
  <2>2. before[x - (m - i)] = after[y - (m - i)]
    BY <1>6, <2>1
  <2>3. x - (m - i) = x - m + i /\ y - (m - i) = y - m + i
    BY <1>5
  <2> QED
    BY <2>2, <2>3
<1> QED
  BY <1>1, <1>5, <1>7, <1>8

\* What is left of a box, and what the texts share around it.
LEMMA InnerFacts ==
    ASSUME NEW box, TextsOK, InBox(box), NEW in, in = Inner(box)
    PROVE  /\ InBox(in)
           /\ box.l <= in.l /\ in.r <= box.r /\ box.t <= in.t /\ in.b <= box.b
           /\ in.l - box.l = in.t - box.t /\ box.r - in.r = box.b - in.b
           /\ Same(box.l, box.t, in.l - box.l)
           /\ Same(in.r, in.b, box.r - in.r)
           /\ in.l < in.r /\ in.t < in.b => before[in.l + 1] # after[in.t + 1]
<1> DEFINE s == Run(box, box.l, box.t)
           rest == Box(box.l + s, box.r, box.t + s, box.b)
           e == RunBack(rest, box.r, box.b)
<1>l. /\ Len(before) \in Nat /\ box.r <= Len(before)
      /\ Len(after) \in Nat /\ box.b <= Len(after)
  BY DEF InBox, TextsOK
<1>1. /\ box.l \in Nat /\ box.r \in Nat /\ box.l <= box.r
      /\ box.t \in Nat /\ box.b \in Nat /\ box.t <= box.b
  BY <1>l DEF InBox
<1>2. /\ s \in Nat
      /\ s > 0 => box.l + s <= box.r /\ box.t + s <= box.b
      /\ Same(box.l, box.t, s)
      /\ \A n \in Nat : n > 0 /\ box.l + n <= box.r /\ box.t + n <= box.b
             /\ Same(box.l, box.t, n) => n <= s
  <2> HIDE DEF s
  <2> QED
    BY <1>1, RunFacts DEF s
<1>3. /\ rest.l = box.l + s /\ rest.t = box.t + s /\ rest.r = box.r /\ rest.b = box.b
  BY DEF Box
<1>4. /\ e \in Nat
      /\ e > 0 => box.r - e >= box.l + s /\ box.b - e >= box.t + s
      /\ Same(box.r - e, box.b - e, e)
  <2> HIDE DEF e, rest, s
  <2>1. rest.l \in Int /\ rest.t \in Int
    BY <1>1, <1>2, <1>3
  <2> QED
    BY <1>1, <1>3, <2>1, RunBackFacts DEF e
<1>5. /\ in.l = box.l + s /\ in.r = box.r - e /\ in.t = box.t + s /\ in.b = box.b - e
  BY DEF Inner, Box
<1> HIDE DEF e, rest, s
<1>0. /\ box.l + s <= box.r - e /\ box.t + s <= box.b - e
      /\ s \in Nat /\ e \in Nat
  <2>1. CASE e = 0
    <3>1. s = 0 \/ s > 0
      BY <1>2
    <3> QED
      BY <1>1, <1>2, <2>1, <3>1
  <2>2. CASE e > 0
    BY <1>1, <1>2, <1>4, <2>2
  <2> QED
    BY <1>2, <1>4, <2>1, <2>2
<1>6. InBox(in)
  <2>1. box.l + s \in Nat /\ box.t + s \in Nat /\ box.r - e \in Int /\ box.b - e \in Int
    BY <1>0, <1>1
  <2>2. in.l \in Nat /\ in.t \in Nat /\ in.r \in Int /\ in.b \in Int
    BY <1>5, <2>1
  <2>3. in.l <= in.r /\ in.t <= in.b
    BY <1>0, <1>5
  <2>4. PICK p \in Nat, q \in Nat : p = Len(before) /\ q = Len(after)
    BY <1>l
  <2>5. in.r <= p /\ in.b <= q
    <3>1. box.r <= p /\ box.b <= q
      BY <1>l, <2>4
    <3> QED
      BY <1>0, <1>1, <1>5, <2>2, <3>1, SMTT(30)
  <2>6. in.r \in in.l .. p /\ in.b \in in.t .. q
    BY <2>2, <2>3, <2>5, SMTT(30)
  <2> QED
    BY <2>2, <2>4, <2>6 DEF InBox
<1>7. in.l - box.l = s /\ in.t - box.t = s /\ box.r - in.r = e /\ box.b - in.b = e
  BY <1>1, <1>2, <1>4, <1>5
<1>8. ASSUME in.l < in.r, in.t < in.b, before[in.l + 1] = after[in.t + 1]
      PROVE  FALSE
  <2>1. s + 1 \in Nat /\ box.l + (s + 1) <= box.r /\ box.t + (s + 1) <= box.b
    BY <1>0, <1>1, <1>5, <1>8
  <2>2. Same(box.l, box.t, s + 1)
    <3> SUFFICES ASSUME NEW i \in 1 .. s + 1 PROVE before[box.l + i] = after[box.t + i]
      BY DEF Same
    <3>1. CASE i = s + 1
      <4>1. box.l + i = in.l + 1 /\ box.t + i = in.t + 1
        BY <1>1, <1>2, <1>5, <3>1
      <4> QED
        BY <1>8, <4>1
    <3>2. CASE i # s + 1
      BY <1>2, <3>2 DEF Same
    <3> QED
      BY <3>1, <3>2
  <2>3. s + 1 <= s
    BY <1>2, <2>1, <2>2
  <2> QED
    BY <1>2, <2>3
<1>10. /\ box.l <= in.l /\ in.r <= box.r /\ box.t <= in.t /\ in.b <= box.b
       /\ in.l - box.l = in.t - box.t /\ box.r - in.r = box.b - in.b
  BY <1>0, <1>1, <1>5
<1>9. Same(box.l, box.t, in.l - box.l) /\ Same(in.r, in.b, box.r - in.r)
  BY <1>2, <1>4, <1>5, <1>7
<1> QED
  BY <1>6, <1>8, <1>9, <1>10

\* A step of the script leads from one place in both texts to another.
Fits(e, x, y, u, v) ==
    /\ u = x + e.equal + e.removed /\ u <= Len(before)
    /\ v = y + e.equal + e.added /\ v <= Len(after)
    /\ Same(x, y, e.equal)

\* So do steps one after the other, through places in between.
Leads(s, x, y, u, v) ==
    \E at, to \in [0 .. Len(s) -> Nat] :
        /\ at[0] = x /\ to[0] = y /\ at[Len(s)] = u /\ to[Len(s)] = v
        /\ \A i \in 1 .. Len(s) : Fits(s[i], at[i - 1], to[i - 1], at[i], to[i])

\* The script with its open step leads from the start to a place.
Reaches(s, u, v) ==
    \E x, y \in Nat : Leads(s.steps, 0, 0, x, y) /\ Fits(s.open, x, y, u, v)

\* The steps found so far, and the one that is open.
Scripts == [steps : Seq(EditStep), open : EditStep]

\* No steps lead nowhere.
LEMMA LeadsNowhere ==
    ASSUME NEW x \in Nat, NEW y \in Nat
    PROVE  Leads(<<>>, x, y, x, y)
<1> DEFINE at == [i \in 0 .. 0 |-> x]
           to == [i \in 0 .. 0 |-> y]
<1>1. at \in [0 .. 0 -> Nat] /\ to \in [0 .. 0 -> Nat] /\ at[0] = x /\ to[0] = y
  OBVIOUS
<1> HIDE DEF at, to
<1>2. Len(<<>>) = 0 /\ 1 .. 0 = {}
  OBVIOUS
<1> QED
  BY <1>1, <1>2 DEF Leads

\* One more step at the end leads on from where the others lead.
LEMMA LeadsFurther ==
    ASSUME NEW s \in Seq(EditStep), NEW e \in EditStep, NEW x, NEW y, NEW u, NEW v,
           NEW w \in Nat, NEW z \in Nat, Leads(s, x, y, u, v), Fits(e, u, v, w, z)
    PROVE  Leads(Append(s, e), x, y, w, z)
<1>1. PICK at \in [0 .. Len(s) -> Nat], to \in [0 .. Len(s) -> Nat] :
        /\ at[0] = x /\ to[0] = y /\ at[Len(s)] = u /\ to[Len(s)] = v
        /\ \A i \in 1 .. Len(s) : Fits(s[i], at[i - 1], to[i - 1], at[i], to[i])
  BY DEF Leads
<1> DEFINE t == Append(s, e)
           n == Len(s)
           a == [i \in 0 .. n + 1 |-> IF i <= n THEN at[i] ELSE w]
           b == [i \in 0 .. n + 1 |-> IF i <= n THEN to[i] ELSE z]
<1>2. n \in Nat /\ Len(t) = n + 1 /\ t[n + 1] = e /\ \A i \in 1 .. n : t[i] = s[i]
  OBVIOUS
<1>3. a \in [0 .. n + 1 -> Nat] /\ b \in [0 .. n + 1 -> Nat]
  BY <1>2
<1>4. /\ \A i \in 0 .. n : a[i] = at[i] /\ b[i] = to[i]
      /\ a[n + 1] = w /\ b[n + 1] = z
  BY <1>2
<1> HIDE DEF a, b, t, n
<1>5. ASSUME NEW i \in 1 .. n + 1
      PROVE  Fits(t[i], a[i - 1], b[i - 1], a[i], b[i])
  <2>1. CASE i = n + 1
    <3>1. i - 1 = n /\ a[i - 1] = u /\ b[i - 1] = v
      BY <1>1, <1>2, <1>4, <2>1 DEF n
    <3> QED
      BY <1>2, <1>4, <2>1, <3>1
  <2>2. CASE i # n + 1
    <3>1. i \in 1 .. n /\ i - 1 \in 0 .. n /\ i \in 0 .. n
      BY <1>2, <2>2
    <3> QED
      BY <1>1, <1>2, <1>4, <3>1 DEF n
  <2> QED
    BY <2>1, <2>2
<1>6. a[0] = x /\ b[0] = y
  BY <1>1, <1>2, <1>4
<1> QED
  BY <1>2, <1>3, <1>4, <1>5, <1>6 DEF Leads, t

\* The first step of a script, and those after it.
LEMMA LeadsOn ==
    ASSUME NEW s \in Seq(EditStep), s # <<>>, NEW x \in Nat, NEW y \in Nat, NEW u, NEW v,
           Leads(s, x, y, u, v),
           NEW w, w = x + Head(s).equal + Head(s).removed,
           NEW z, z = y + Head(s).equal + Head(s).added
    PROVE  Fits(Head(s), x, y, w, z) /\ Leads(Tail(s), w, z, u, v)
<1>1. PICK at \in [0 .. Len(s) -> Nat], to \in [0 .. Len(s) -> Nat] :
        /\ at[0] = x /\ to[0] = y /\ at[Len(s)] = u /\ to[Len(s)] = v
        /\ \A i \in 1 .. Len(s) : Fits(s[i], at[i - 1], to[i - 1], at[i], to[i])
  BY DEF Leads
<1> DEFINE t == Tail(s)
           n == Len(s)
           a == [i \in 0 .. n - 1 |-> at[i + 1]]
           b == [i \in 0 .. n - 1 |-> to[i + 1]]
<1>2. n \in Nat /\ n >= 1 /\ Len(t) = n - 1 /\ Head(s) = s[1]
      /\ \A i \in 1 .. n - 1 : t[i] = s[i + 1]
  OBVIOUS
<1>3. a \in [0 .. n - 1 -> Nat] /\ b \in [0 .. n - 1 -> Nat]
  BY <1>2
<1>4. \A i \in 0 .. n - 1 : a[i] = at[i + 1] /\ b[i] = to[i + 1]
  BY <1>2
<1> HIDE DEF a, b, t
<1>5. Fits(Head(s), x, y, at[1], to[1])
  <2>1. 1 \in 1 .. Len(s) /\ 1 - 1 = 0
    BY <1>2
  <2>2. Fits(s[1], at[1 - 1], to[1 - 1], at[1], to[1])
    BY <1>1, <2>1
  <2> QED
    BY <1>1, <1>2, <2>1, <2>2
<1>6. at[1] = w /\ to[1] = z
  BY <1>5 DEF Fits
<1>7. a[0] = w /\ b[0] = z /\ a[n - 1] = u /\ b[n - 1] = v
  BY <1>1, <1>2, <1>4, <1>6
<1>8. ASSUME NEW i \in 1 .. n - 1
      PROVE  Fits(t[i], a[i - 1], b[i - 1], a[i], b[i])
  <2>1. i + 1 \in 1 .. Len(s) /\ i \in 0 .. n - 1 /\ i - 1 \in 0 .. n - 1
    BY <1>2
  <2>2. Fits(s[i + 1], at[(i + 1) - 1], to[(i + 1) - 1], at[i + 1], to[i + 1])
    BY <1>1, <2>1
  <2>3. (i + 1) - 1 = (i - 1) + 1
    BY <2>1
  <2> QED
    BY <1>2, <1>4, <2>1, <2>2, <2>3
<1> QED
  BY <1>2, <1>3, <1>5, <1>6, <1>7, <1>8 DEF Leads, t

\* Steps begin and end at places.
LEMMA LeadsTypes ==
    ASSUME NEW s \in Seq(EditStep), NEW x, NEW y, NEW u, NEW v, Leads(s, x, y, u, v)
    PROVE  x \in Nat /\ y \in Nat /\ u \in Nat /\ v \in Nat
<1>1. PICK at \in [0 .. Len(s) -> Nat], to \in [0 .. Len(s) -> Nat] :
        at[0] = x /\ to[0] = y /\ at[Len(s)] = u /\ to[Len(s)] = v
  BY DEF Leads
<1>2. Len(s) \in Nat /\ 0 \in 0 .. Len(s) /\ Len(s) \in 0 .. Len(s)
  OBVIOUS
<1> QED
  BY <1>1, <1>2

\* Without a step, the end is the beginning.
LEMMA LeadsNowhereElse ==
    ASSUME NEW s \in Seq(EditStep), s = <<>>, NEW x \in Nat, NEW y \in Nat,
           NEW u \in Nat, NEW v \in Nat, Leads(s, x, y, u, v)
    PROVE  u = x /\ v = y
<1>1. PICK at \in [0 .. Len(s) -> Nat], to \in [0 .. Len(s) -> Nat] :
        at[0] = x /\ to[0] = y /\ at[Len(s)] = u /\ to[Len(s)] = v
  BY DEF Leads
<1>2. Len(s) = 0
  OBVIOUS
<1> QED
  BY <1>1, <1>2

\* Runs of equal lines add up.
LEMMA SameAdds ==
    ASSUME NEW x \in Nat, NEW y \in Nat, NEW m \in Nat, NEW n \in Nat,
           Same(x, y, m), Same(x + m, y + m, n)
    PROVE  Same(x, y, m + n)
<1> SUFFICES ASSUME NEW i \in 1 .. m + n PROVE before[x + i] = after[y + i]
  BY DEF Same
<1>1. CASE i <= m
  BY <1>1 DEF Same
<1>2. CASE i > m
  <2>1. i - m \in 1 .. n /\ (x + m) + (i - m) = x + i /\ (y + m) + (i - m) = y + i
    BY <1>2
  <2>2. before[(x + m) + (i - m)] = after[(y + m) + (i - m)]
    BY <2>1 DEF Same
  <2> QED
    BY <2>1, <2>2
<1> QED
  BY <1>1, <1>2

\* A step of the script stays one when it grows.
LEMMA EditGrows ==
    ASSUME NEW s \in EditStep, NEW i \in Nat, NEW j \in Nat, NEW k \in Nat
    PROVE  /\ [s EXCEPT !.equal = i] \in EditStep
           /\ [s EXCEPT !.removed = j, !.added = k] \in EditStep
<1>1. [s EXCEPT !.equal = i] \in EditStep
  BY DEF EditStep
<1>2. [s EXCEPT !.removed = j, !.added = k] \in EditStep
  <2>1. [s EXCEPT !.removed = j] \in EditStep
    BY DEF EditStep
  <2>2. [[s EXCEPT !.removed = j] EXCEPT !.added = k] \in EditStep
    BY <2>1 DEF EditStep
  <2>3. [s EXCEPT !.removed = j, !.added = k] = [[s EXCEPT !.removed = j] EXCEPT !.added = k]
    BY Zenon
  <2> QED
    BY <2>2, <2>3
<1> QED
  BY <1>1, <1>2

\* Lines that are the same in both texts lead the script on (Keep).
LEMMA KeepLeads ==
    ASSUME NEW s \in Scripts, NEW u \in Nat, NEW v \in Nat, NEW n \in Nat,
           Reaches(s, u, v), Same(u, v, n),
           u + n <= Len(before), v + n <= Len(after)
    PROVE  Keep(s, n) \in Scripts /\ Reaches(Keep(s, n), u + n, v + n)
<1>1. PICK x \in Nat, y \in Nat : Leads(s.steps, 0, 0, x, y) /\ Fits(s.open, x, y, u, v)
  BY DEF Reaches
<1>2. /\ s.steps \in Seq(EditStep) /\ s.open \in EditStep
      /\ s.open.equal \in Nat /\ s.open.removed \in Nat /\ s.open.added \in Nat
  BY DEF Scripts, EditStep
<1>3. CASE n = 0
  BY <1>3 DEF Keep
<1>4. CASE n # 0 /\ s.open.removed + s.open.added > 0
  <2> DEFINE e == [NoStep EXCEPT !.equal = n]
  <2>1. e \in EditStep /\ e.equal = n /\ e.removed = 0 /\ e.added = 0
    BY DEF EditStep, NoStep
  <2> HIDE DEF e
  <2>2. Keep(s, n) = [steps |-> Append(s.steps, s.open), open |-> e]
    BY <1>4 DEF Keep, e
  <2>3. Leads(Append(s.steps, s.open), 0, 0, u, v)
    BY <1>1, <1>2, LeadsFurther
  <2>4. Fits(e, u, v, u + n, v + n)
    BY <2>1 DEF Fits
  <2>5. Append(s.steps, s.open) \in Seq(EditStep)
    BY <1>2
  <2> QED
    BY <2>1, <2>2, <2>3, <2>4, <2>5 DEF Scripts, Reaches
<1>5. CASE n # 0 /\ ~(s.open.removed + s.open.added > 0)
  <2>1. s.open.removed = 0 /\ s.open.added = 0
    BY <1>2, <1>5
  <2> DEFINE e == [s.open EXCEPT !.equal = s.open.equal + n]
  <2>0. e.equal = s.open.equal + n /\ e.removed = s.open.removed /\ e.added = s.open.added
    BY <1>2 DEF EditStep
  <2>2. e \in EditStep /\ e.equal = s.open.equal + n /\ e.removed = 0 /\ e.added = 0
    <3>1. e \in EditStep
      <4>1. s.open.equal \in Nat
        BY <1>2
      <4>2. s.open.equal + n \in Nat
        BY <4>1, SMTT(30)
      <4> QED
        BY <1>2, <4>2, EditGrows, ZenonT(30)
    <3> HIDE DEF e
    <3> QED
      BY <2>0, <2>1, <3>1
  <2>3. Keep(s, n) = [s EXCEPT !.open = e]
    BY <1>5 DEF Keep
  <2> HIDE DEF e
  <2>4. Keep(s, n) \in Scripts /\ Keep(s, n).steps = s.steps /\ Keep(s, n).open = e
    BY <1>2, <2>2, <2>3 DEF Scripts
  <2>5. u = x + s.open.equal /\ v = y + s.open.equal /\ Same(x, y, s.open.equal)
    <3>1. /\ u = x + s.open.equal + s.open.removed /\ v = y + s.open.equal + s.open.added
          /\ Same(x, y, s.open.equal)
      BY <1>1 DEF Fits
    <3>2. PICK i \in Nat : i = s.open.equal
      BY <1>2
    <3>3. x + i + 0 = x + i /\ y + i + 0 = y + i
      OBVIOUS
    <3> QED
      BY <2>1, <3>1, <3>2, <3>3
  <2>6. Same(x, y, s.open.equal + n)
    BY <1>1, <1>2, <2>5, SameAdds
  <2>7. Fits(e, x, y, u + n, v + n)
    <3>1. u + n = x + e.equal + e.removed /\ v + n = y + e.equal + e.added
      <4>1. PICK i \in Nat : i = s.open.equal
        BY <1>2
      <4>2. u = x + i /\ v = y + i /\ e.equal = i + n /\ e.removed = 0 /\ e.added = 0
        BY <2>2, <2>5, <4>1
      <4> QED
        BY <4>2
    <3>2. Same(x, y, e.equal)
      BY <2>2, <2>6
    <3> QED
      BY <3>1, <3>2 DEF Fits
  <2> QED
    BY <1>1, <2>4, <2>7 DEF Reaches
<1> QED
  BY <1>3, <1>4, <1>5

\* So do lines that go and lines that come (Change).
LEMMA ChangeLeads ==
    ASSUME NEW s \in Scripts, NEW u \in Nat, NEW v \in Nat, NEW m \in Nat, NEW n \in Nat,
           Reaches(s, u, v), u + m <= Len(before), v + n <= Len(after)
    PROVE  Change(s, m, n) \in Scripts /\ Reaches(Change(s, m, n), u + m, v + n)
<1>1. PICK x \in Nat, y \in Nat : Leads(s.steps, 0, 0, x, y) /\ Fits(s.open, x, y, u, v)
  BY DEF Reaches
<1>2. /\ s.steps \in Seq(EditStep) /\ s.open \in EditStep
      /\ s.open.equal \in Nat /\ s.open.removed \in Nat /\ s.open.added \in Nat
  BY DEF Scripts, EditStep
<1> DEFINE e == [s.open EXCEPT !.removed = s.open.removed + m, !.added = s.open.added + n]
<1>3. /\ e \in EditStep /\ e.equal = s.open.equal
      /\ e.removed = s.open.removed + m /\ e.added = s.open.added + n
  <2>1. e.equal = s.open.equal
    BY <1>2 DEF EditStep
  <2>2. e.removed = s.open.removed + m /\ e.added = s.open.added + n
    BY <1>2 DEF EditStep
  <2>3. e \in EditStep
    <3>1. s.open.removed + m \in Nat /\ s.open.added + n \in Nat
      <4>1. PICK j \in Nat, k \in Nat : j = s.open.removed /\ k = s.open.added
        BY <1>2
      <4>2. j + m \in Nat /\ k + n \in Nat
        OBVIOUS
      <4> QED
        BY <4>1, <4>2
    <3> QED
      BY <1>2, <3>1, EditGrows, Zenon
  <2> QED
    BY <2>1, <2>2, <2>3
<1>4. Change(s, m, n) = [s EXCEPT !.open = e]
  BY <1>2 DEF Change, Scripts, EditStep
<1> HIDE DEF e
<1>5. /\ Change(s, m, n) \in Scripts /\ Change(s, m, n).steps = s.steps
      /\ Change(s, m, n).open = e
  BY <1>2, <1>3, <1>4 DEF Scripts
<1>6. Fits(e, x, y, u + m, v + n)
  <2>1. u = x + s.open.equal + s.open.removed /\ v = y + s.open.equal + s.open.added
    BY <1>1 DEF Fits
  <2>2. u + m = x + e.equal + e.removed /\ v + n = y + e.equal + e.added
    <3>1. PICK i \in Nat, j \in Nat, k \in Nat :
            i = s.open.equal /\ j = s.open.removed /\ k = s.open.added
      BY <1>2
    <3>2. /\ u = x + i + j /\ v = y + i + k
          /\ e.equal = i /\ e.removed = j + m /\ e.added = k + n
      BY <1>3, <2>1, <3>1
    <3> QED
      BY <3>2
  <2>3. Same(x, y, e.equal)
    BY <1>1, <1>3 DEF Fits
  <2> QED
    BY <2>2, <2>3 DEF Fits
<1> QED
  BY <1>1, <1>5, <1>6 DEF Reaches

-----------------------------------------------------------------------------
(* Hunks.                                                                  *)

\* A line of a hunk leads from one place in both texts to the next.
LineFits(line, x, y, u, v) ==
    /\ u = (IF line.kind = "added" THEN x ELSE x + 1) /\ u <= Len(before)
    /\ v = (IF line.kind = "removed" THEN y ELSE y + 1) /\ v <= Len(after)
    /\ line.kind # "added" => before[u] = line.text
    /\ line.kind # "removed" => after[v] = line.text

\* So do lines one after the other, through the places in between.
Passes(lines, at, to) ==
    /\ at \in [0 .. Len(lines) -> Nat] /\ to \in [0 .. Len(lines) -> Nat]
    /\ \A i \in 1 .. Len(lines) : LineFits(lines[i], at[i - 1], to[i - 1], at[i], to[i])

\* The lines of a hunk lead from one place in both texts to another.
Spells(lines, x, y, u, v) ==
    \E at, to \in [0 .. Len(lines) -> Nat] :
        /\ Passes(lines, at, to)
        /\ at[0] = x /\ to[0] = y /\ at[Len(lines)] = u /\ to[Len(lines)] = v

\* No lines lead nowhere.
LEMMA SpellsNothing ==
    ASSUME NEW x \in Nat, NEW y \in Nat
    PROVE  Spells(<<>>, x, y, x, y)
<1> DEFINE at == [i \in 0 .. 0 |-> x]
           to == [i \in 0 .. 0 |-> y]
<1>1. at \in [0 .. 0 -> Nat] /\ to \in [0 .. 0 -> Nat] /\ at[0] = x /\ to[0] = y
  OBVIOUS
<1> HIDE DEF at, to
<1>2. Len(<<>>) = 0 /\ 1 .. 0 = {}
  OBVIOUS
<1> QED
  BY <1>1, <1>2 DEF Spells, Passes

\* Lines and the lines that follow them.
LEMMA SpellsFurther ==
    ASSUME NEW s \in Seq(DiffLine), NEW t \in Seq(DiffLine),
           NEW x, NEW y, NEW u, NEW v, NEW w, NEW z,
           Spells(s, x, y, u, v), Spells(t, u, v, w, z)
    PROVE  Spells(s \o t, x, y, w, z)
<1>1. PICK at \in [0 .. Len(s) -> Nat], to \in [0 .. Len(s) -> Nat] :
        /\ at[0] = x /\ to[0] = y /\ at[Len(s)] = u /\ to[Len(s)] = v
        /\ \A i \in 1 .. Len(s) : LineFits(s[i], at[i - 1], to[i - 1], at[i], to[i])
  BY DEF Spells, Passes
<1>2. PICK a \in [0 .. Len(t) -> Nat], b \in [0 .. Len(t) -> Nat] :
        /\ a[0] = u /\ b[0] = v /\ a[Len(t)] = w /\ b[Len(t)] = z
        /\ \A i \in 1 .. Len(t) : LineFits(t[i], a[i - 1], b[i - 1], a[i], b[i])
  BY DEF Spells, Passes
<1> DEFINE m == Len(s)
           n == Len(t)
           p == [i \in 0 .. m + n |-> IF i <= m THEN at[i] ELSE a[i - m]]
           q == [i \in 0 .. m + n |-> IF i <= m THEN to[i] ELSE b[i - m]]
           r == s \o t
<1>3. /\ m \in Nat /\ n \in Nat /\ Len(r) = m + n
      /\ \A i \in 1 .. m : r[i] = s[i]
      /\ \A i \in m + 1 .. m + n : r[i] = t[i - m]
  OBVIOUS
<1>4. p \in [0 .. m + n -> Nat] /\ q \in [0 .. m + n -> Nat]
  <2> SUFFICES ASSUME NEW i \in 0 .. m + n
               PROVE  (IF i <= m THEN at[i] ELSE a[i - m]) \in Nat
                      /\ (IF i <= m THEN to[i] ELSE b[i - m]) \in Nat
    OBVIOUS
  <2>1. CASE i <= m
    <3>1. i \in 0 .. Len(s)
      BY <1>3, <2>1
    <3> QED
      BY <2>1, <3>1
  <2>2. CASE ~(i <= m)
    <3>1. i - m \in 0 .. Len(t)
      BY <1>3, <2>2
    <3> QED
      BY <2>2, <3>1
  <2> QED
    BY <2>1, <2>2
<1>5. \A i \in 0 .. m : p[i] = at[i] /\ q[i] = to[i]
  <2> TAKE i \in 0 .. m
  <2>1. i \in 0 .. m + n /\ i <= m
    BY <1>3
  <2> QED
    BY <2>1
<1>6. \A i \in m .. m + n : p[i] = a[i - m] /\ q[i] = b[i - m]
  <2> TAKE i \in m .. m + n
  <2>1. i \in 0 .. m + n /\ (i = m => i - m = 0 /\ i <= m) /\ (i # m => ~(i <= m))
    BY <1>3
  <2>2. at[m] = a[0] /\ to[m] = b[0]
    BY <1>1, <1>2
  <2>3. CASE i = m
    BY <2>1, <2>2, <2>3
  <2>4. CASE i # m
    BY <2>1, <2>4
  <2> QED
    BY <2>3, <2>4
<1> HIDE DEF p, q, r
<1>7. ASSUME NEW i \in 1 .. m + n
      PROVE  LineFits(r[i], p[i - 1], q[i - 1], p[i], q[i])
  <2>1. CASE i <= m
    <3>1. i \in 1 .. m /\ i - 1 \in 0 .. m /\ i \in 0 .. m
      BY <1>3, <2>1
    <3> QED
      BY <1>1, <1>3, <1>5, <3>1
  <2>2. CASE i > m
    <3>1. /\ i - m \in 1 .. n /\ i \in m + 1 .. m + n /\ i \in m .. m + n
          /\ i - 1 \in m .. m + n /\ (i - 1) - m = (i - m) - 1
      BY <1>3, <2>2
    <3>2. LineFits(t[i - m], a[(i - m) - 1], b[(i - m) - 1], a[i - m], b[i - m])
      BY <1>2, <3>1
    <3> QED
      BY <1>3, <1>6, <3>1, <3>2
  <2> QED
    BY <1>3, <2>1, <2>2
<1>8. p[0] = x /\ q[0] = y /\ p[m + n] = w /\ q[m + n] = z
  <2>1. 0 \in 0 .. m /\ m + n \in m .. m + n /\ (m + n) - m = n
    BY <1>3
  <2> QED
    BY <1>1, <1>2, <1>5, <1>6, <2>1
<1> QED
  BY <1>3, <1>4, <1>7, <1>8 DEF Spells, Passes, r

\* n lines of one kind.
Kindred(kind, text, from, n) == [i \in 1 .. n |-> [kind |-> kind, text |-> text[from + i]]]

\* Lines of one kind, taken from their text in order, lead over as many lines of it.
LEMMA KindredSpell ==
    ASSUME TextsOK, NEW kind \in {"context", "removed", "added"}, NEW text, NEW from,
           NEW u \in Nat, NEW v \in Nat, NEW n \in Nat, NEW w, NEW z,
           w = (IF kind = "added" THEN u ELSE u + n), w <= Len(before),
           z = (IF kind = "removed" THEN v ELSE v + n), z <= Len(after),
           IF kind = "added" THEN text = after /\ from = v
           ELSE text = before /\ from = u,
           kind = "context" => Same(u, v, n)
    PROVE  /\ Kindred(kind, text, from, n) \in Seq(DiffLine)
           /\ Spells(Kindred(kind, text, from, n), u, v, w, z)
<1> DEFINE s == Kindred(kind, text, from, n)
           at == [i \in 0 .. n |-> IF kind = "added" THEN u ELSE u + i]
           to == [i \in 0 .. n |-> IF kind = "removed" THEN v ELSE v + i]
<1>1. before \in Seq(Line) /\ after \in Seq(Line)
  BY DEF TextsOK
<1>2. ASSUME NEW i \in 1 .. n
      PROVE  /\ kind # "added" => u + i \in 1 .. Len(before)
             /\ kind # "removed" => v + i \in 1 .. Len(after)
  <2>1. Len(before) \in Nat /\ Len(after) \in Nat
    BY <1>1
  <2> QED
    BY <2>1
<1>3. ASSUME NEW i \in 1 .. n PROVE text[from + i] \in Line
  BY <1>1, <1>2
<1>4. s \in Seq(DiffLine) /\ Len(s) = n
  <2>1. \A i \in 1 .. n : [kind |-> kind, text |-> text[from + i]] \in DiffLine
    BY <1>3 DEF DiffLine
  <2>2. s \in [1 .. n -> DiffLine]
    BY <2>1 DEF Kindred
  <2> QED
    BY <2>2
<1>5. \A i \in 1 .. n : s[i].kind = kind /\ s[i].text = text[from + i]
  BY DEF Kindred
<1>6. /\ at \in [0 .. n -> Nat] /\ to \in [0 .. n -> Nat]
      /\ \A i \in 0 .. n : /\ at[i] = (IF kind = "added" THEN u ELSE u + i)
                           /\ to[i] = (IF kind = "removed" THEN v ELSE v + i)
  OBVIOUS
<1> HIDE DEF at, to, s
<1>7. at[0] = u /\ to[0] = v /\ at[n] = w /\ to[n] = z
  BY <1>6
<1>8. ASSUME NEW i \in 1 .. n
      PROVE  LineFits(s[i], at[i - 1], to[i - 1], at[i], to[i])
  <2>1. i \in 0 .. n /\ i - 1 \in 0 .. n /\ u + i = (u + (i - 1)) + 1 /\ v + i = (v + (i - 1)) + 1
    OBVIOUS
  <2>2. /\ at[i] = (IF kind = "added" THEN u ELSE u + i)
        /\ to[i] = (IF kind = "removed" THEN v ELSE v + i)
        /\ at[i - 1] = (IF kind = "added" THEN u ELSE u + (i - 1))
        /\ to[i - 1] = (IF kind = "removed" THEN v ELSE v + (i - 1))
    BY <1>6, <2>1
  <2>3. at[i] <= Len(before) /\ to[i] <= Len(after)
    <3>1. Len(before) \in Nat /\ Len(after) \in Nat
      BY <1>1
    <3> QED
      BY <2>2, <3>1
  <2>4. kind = "context" => before[u + i] = after[v + i]
    BY DEF Same
  <2>5. CASE kind = "added"
    BY <1>5, <2>1, <2>2, <2>3, <2>5 DEF LineFits
  <2>6. CASE kind = "removed"
    BY <1>5, <2>1, <2>2, <2>3, <2>6 DEF LineFits
  <2>7. CASE kind = "context"
    BY <1>5, <2>1, <2>2, <2>3, <2>4, <2>7 DEF LineFits
  <2> QED
    BY <2>5, <2>6, <2>7
<1>9. Spells(s, u, v, w, z)
  BY <1>4, <1>6, <1>7, <1>8 DEF Spells, Passes
<1> QED
  BY <1>4, <1>9 DEF s

\* A hunk starts where it says, and its lines and counts lead on from there.
HunkFits(h, x, y, u, v) ==
    /\ h \in DiffHunk /\ x \in Nat /\ y \in Nat
    /\ h.oldStart = x + 1 /\ h.newStart = y + 1
    /\ u = x + h.oldCount /\ v = y + h.newCount
    /\ u <= Len(before) /\ v <= Len(after)
    /\ Spells(h.lines, x, y, u, v)

\* A hunk that begins has no lines yet.
LEMMA DraftFits ==
    ASSUME NEW x \in Nat, NEW y \in Nat, x <= Len(before), y <= Len(after)
    PROVE  HunkFits(DraftAt(x + 1, y + 1), x, y, x, y)
<1> DEFINE h == DraftAt(x + 1, y + 1)
<1>1. /\ h.oldStart = x + 1 /\ h.newStart = y + 1 /\ h.oldCount = 0 /\ h.newCount = 0
      /\ h.lines = <<>>
  BY DEF DraftAt
<1>2. h \in DiffHunk
  <2>1. x + 1 \in Nat /\ y + 1 \in Nat /\ 0 \in Nat /\ <<>> \in Seq(DiffLine)
    OBVIOUS
  <2> QED
    BY <2>1 DEF DraftAt, DiffHunk
<1> HIDE DEF h
<1>3. Spells(h.lines, x, y, x, y)
  BY <1>1, SpellsNothing
<1>4. x = x + h.oldCount /\ y = y + h.newCount
  BY <1>1
<1> QED
  BY <1>1, <1>2, <1>3, <1>4 DEF HunkFits, h

\* A hunk of which lines, old and new ones are more.
LEMMA HunkGrows ==
    ASSUME NEW h \in DiffHunk, NEW s \in Seq(DiffLine), NEW m \in Nat, NEW n \in Nat
    PROVE  [h EXCEPT !.lines = s, !.oldCount = m, !.newCount = n] \in DiffHunk
<1>1. [h EXCEPT !.lines = s] \in DiffHunk
  BY DEF DiffHunk
<1>2. [[h EXCEPT !.lines = s] EXCEPT !.oldCount = m] \in DiffHunk
  BY <1>1 DEF DiffHunk
<1>3. [[[h EXCEPT !.lines = s] EXCEPT !.oldCount = m] EXCEPT !.newCount = n] \in DiffHunk
  BY <1>2 DEF DiffHunk
<1> QED
  BY <1>3

\* A hunk with more lines of one kind leads on by as many.
LEMMA GrownFits ==
    ASSUME TextsOK, NEW h, NEW x, NEW y, NEW u \in Nat, NEW v \in Nat, HunkFits(h, x, y, u, v),
           NEW kind \in {"context", "removed", "added"}, NEW text, NEW from,
           NEW n \in Nat, NEW w, NEW z,
           w = (IF kind = "added" THEN u ELSE u + n), w <= Len(before),
           z = (IF kind = "removed" THEN v ELSE v + n), z <= Len(after),
           IF kind = "added" THEN text = after /\ from = v
           ELSE text = before /\ from = u,
           kind = "context" => Same(u, v, n)
    PROVE  HunkFits(Grown(h, kind, text, from, n), x, y, w, z)
<1> DEFINE s == Kindred(kind, text, from, n)
           g == Grown(h, kind, text, from, n)
           c == IF kind = "added" THEN h.oldCount ELSE h.oldCount + n
           d == IF kind = "removed" THEN h.newCount ELSE h.newCount + n
<1>1. s \in Seq(DiffLine) /\ Spells(s, u, v, w, z)
  BY KindredSpell
<1>2. /\ h.oldStart \in Nat /\ h.newStart \in Nat /\ h.oldCount \in Nat /\ h.newCount \in Nat
      /\ h.lines \in Seq(DiffLine) /\ h \in DiffHunk
  BY DEF HunkFits, DiffHunk
<1>3. c \in Nat /\ d \in Nat
  <2>1. PICK i \in Nat, j \in Nat : i = h.oldCount /\ j = h.newCount
    BY <1>2
  <2>2. i + n \in Nat /\ j + n \in Nat
    OBVIOUS
  <2> QED
    BY <2>1, <2>2
<1>4. g = [h EXCEPT !.lines = h.lines \o s, !.oldCount = c, !.newCount = d]
  BY DEF Grown, Kindred
<1> HIDE DEF c, d, g, s
<1>5. h.lines \o s \in Seq(DiffLine)
  BY <1>1, <1>2
<1>6. /\ g \in DiffHunk
      /\ g.oldStart = h.oldStart /\ g.newStart = h.newStart
      /\ g.oldCount = c /\ g.newCount = d /\ g.lines = h.lines \o s
  <2>1. g \in DiffHunk
    BY <1>2, <1>3, <1>4, <1>5, HunkGrows
  <2>2. /\ g.oldStart = h.oldStart /\ g.newStart = h.newStart
        /\ g.oldCount = c /\ g.newCount = d /\ g.lines = h.lines \o s
    BY <1>2, <1>4 DEF DiffHunk
  <2> QED
    BY <2>1, <2>2
<1>7. Spells(g.lines, x, y, w, z)
  <2>1. Spells(h.lines, x, y, u, v)
    BY DEF HunkFits
  <2> QED
    BY <1>1, <1>2, <1>6, <2>1, SpellsFurther
<1>8. w = x + g.oldCount /\ z = y + g.newCount
  <2>1. PICK i \in Nat, j \in Nat : i = h.oldCount /\ j = h.newCount
    BY <1>2
  <2>2. u = x + i /\ v = y + j /\ x \in Nat /\ y \in Nat
    BY <2>1 DEF HunkFits
  <2>3. /\ g.oldCount = (IF kind = "added" THEN i ELSE i + n)
        /\ g.newCount = (IF kind = "removed" THEN j ELSE j + n)
    BY <1>6, <2>1 DEF c, d
  <2>4. (x + i) + n = x + (i + n) /\ (y + j) + n = y + (j + n)
    BY <2>2
  <2> QED
    BY <2>2, <2>3, <2>4
<1>9. x \in Nat /\ y \in Nat /\ g.oldStart = x + 1 /\ g.newStart = y + 1
  BY <1>6 DEF HunkFits
<1> QED
  BY <1>6, <1>7, <1>8, <1>9 DEF HunkFits, g

\* A change of m lines to n.
LEMMA ChangedFits ==
    ASSUME TextsOK, NEW h, NEW x, NEW y, NEW u \in Nat, NEW v \in Nat, HunkFits(h, x, y, u, v),
           NEW m \in Nat, NEW n \in Nat, u + m <= Len(before), v + n <= Len(after)
    PROVE  HunkFits(Changed(h, u, m, v, n), x, y, u + m, v + n)
<1> DEFINE g == Grown(h, "removed", before, u, m)
<1>1. v <= Len(after)
  BY DEF HunkFits
<1>2. HunkFits(g, x, y, u + m, v)
  BY <1>1, GrownFits
<1> HIDE DEF g
<1>3. u + m \in Nat
  OBVIOUS
<1>4. HunkFits(Grown(g, "added", after, v, n), x, y, u + m, v + n)
  BY <1>2, <1>3, GrownFits
<1> QED
  BY <1>4 DEF Changed, g

\* Between two places all lines are the same.
Gap(x, y, u, v) ==
    /\ x \in Nat /\ y \in Nat /\ u \in Nat /\ v \in Nat
    /\ x <= u /\ u - x = v - y /\ u <= Len(before) /\ v <= Len(after)
    /\ Same(x, y, u - x)

\* Where a hunk ends, and before the first the start.
OldEnd(hs, i) == IF i = 0 THEN 0 ELSE hs[i].oldStart - 1 + hs[i].oldCount
\* And in the new text.
NewEnd(hs, i) == IF i = 0 THEN 0 ELSE hs[i].newStart - 1 + hs[i].newCount

\* The hunks lead to a place, one after the other, with gaps in between.
HunksFit(hs, u, v) ==
    /\ hs \in Seq(DiffHunk)
    /\ \A i \in 1 .. Len(hs) :
        /\ Gap(OldEnd(hs, i - 1), NewEnd(hs, i - 1), hs[i].oldStart - 1, hs[i].newStart - 1)
        /\ HunkFits(hs[i], hs[i].oldStart - 1, hs[i].newStart - 1, OldEnd(hs, i), NewEnd(hs, i))
    /\ Gap(OldEnd(hs, Len(hs)), NewEnd(hs, Len(hs)), u, v)

\* Two gaps with nothing between them are one.
LEMMA GapsAdd ==
    ASSUME NEW x, NEW y, NEW u, NEW v, NEW w, NEW z, Gap(x, y, u, v), Gap(u, v, w, z)
    PROVE  Gap(x, y, w, z)
<1>1. /\ x \in Nat /\ y \in Nat /\ u \in Nat /\ v \in Nat /\ w \in Nat /\ z \in Nat
      /\ x <= u /\ u - x = v - y /\ u <= w /\ w - u = z - v
  BY DEF Gap
<1> DEFINE m == u - x
           n == w - u
<1>2. /\ m \in Nat /\ n \in Nat /\ u = x + m /\ v = y + m /\ w - x = m + n
      /\ x <= w /\ w - x = z - y
  BY <1>1
<1>3. Same(x, y, m) /\ Same(u, v, n) /\ w <= Len(before) /\ z <= Len(after)
  BY DEF Gap
<1> HIDE DEF m, n
<1>4. Same(x, y, m + n)
  BY <1>1, <1>2, <1>3, SameAdds
<1> QED
  BY <1>1, <1>2, <1>3, <1>4 DEF Gap

\* Without a hunk, all lines so far are the same.
LEMMA NoHunks ==
    ASSUME TextsOK
    PROVE  HunksFit(<<>>, 0, 0)
<1>1. Len(before) \in Nat /\ Len(after) \in Nat
  BY DEF TextsOK
<1>2. Gap(0, 0, 0, 0)
  BY <1>1 DEF Gap, Same
<1>3. Len(<<>>) = 0 /\ 1 .. 0 = {} /\ <<>> \in Seq(DiffHunk)
  OBVIOUS
<1> QED
  BY <1>2, <1>3 DEF HunksFit, OldEnd, NewEnd

\* Equal lines after the last hunk lead on.
LEMMA HunksGoOn ==
    ASSUME NEW hs, NEW x, NEW y, NEW u, NEW v, HunksFit(hs, x, y), Gap(x, y, u, v)
    PROVE  HunksFit(hs, u, v)
BY GapsAdd DEF HunksFit

\* One more hunk.
LEMMA HunkAdded ==
    ASSUME TextsOK, NEW hs, NEW h, NEW x, NEW y, NEW u, NEW v,
           HunksFit(hs, x, y), HunkFits(h, x, y, u, v)
    PROVE  HunksFit(Append(hs, h), u, v)
<1> DEFINE n == Len(hs)
           t == Append(hs, h)
<1>1. hs \in Seq(DiffHunk) /\ h \in DiffHunk
  BY DEF HunksFit, HunkFits
<1>2. /\ n \in Nat /\ Len(t) = n + 1 /\ t \in Seq(DiffHunk) /\ t[n + 1] = h
      /\ \A i \in 1 .. n : t[i] = hs[i]
  BY <1>1
<1> HIDE DEF t, n
<1>3. \A i \in 0 .. n : OldEnd(t, i) = OldEnd(hs, i) /\ NewEnd(t, i) = NewEnd(hs, i)
  BY <1>2 DEF OldEnd, NewEnd
<1>4. /\ h.oldStart - 1 = x /\ h.newStart - 1 = y
      /\ u = x + h.oldCount /\ v = y + h.newCount /\ x \in Nat /\ y \in Nat
      /\ u \in Nat /\ v \in Nat
  <2>1. /\ h.oldStart = x + 1 /\ h.newStart = y + 1 /\ x \in Nat /\ y \in Nat
        /\ u = x + h.oldCount /\ v = y + h.newCount
    BY DEF HunkFits
  <2>2. h.oldCount \in Nat /\ h.newCount \in Nat
    BY <1>1 DEF DiffHunk
  <2> QED
    BY <2>1, <2>2
<1>5. OldEnd(t, n + 1) = u /\ NewEnd(t, n + 1) = v
  <2>1. n + 1 # 0
    BY <1>2
  <2> QED
    BY <1>2, <1>4, <2>1 DEF OldEnd, NewEnd
<1>6. Gap(OldEnd(hs, n), NewEnd(hs, n), x, y)
  BY DEF HunksFit, n
<1>7. Gap(u, v, u, v)
  <2>1. u <= Len(before) /\ v <= Len(after)
    BY DEF HunkFits
  <2>2. u - u = 0 /\ v - v = 0 /\ u <= u /\ Same(u, v, 0)
    BY <1>4 DEF Same
  <2> QED
    BY <1>4, <2>1, <2>2 DEF Gap
<1>8. ASSUME NEW i \in 1 .. n + 1
      PROVE  /\ Gap(OldEnd(t, i - 1), NewEnd(t, i - 1), t[i].oldStart - 1, t[i].newStart - 1)
             /\ HunkFits(t[i], t[i].oldStart - 1, t[i].newStart - 1, OldEnd(t, i), NewEnd(t, i))
  <2>1. CASE i = n + 1
    <3>1. i - 1 = n /\ n \in 0 .. n
      BY <1>2, <2>1
    <3> QED
      BY <1>2, <1>3, <1>4, <1>5, <1>6, <2>1, <3>1
  <2>2. CASE i # n + 1
    <3>1. i \in 1 .. n /\ i - 1 \in 0 .. n /\ i \in 0 .. n
      BY <1>2, <2>2
    <3> QED
      BY <1>2, <1>3, <3>1 DEF HunksFit, n
  <2> QED
    BY <2>1, <2>2
<1> QED
  BY <1>2, <1>5, <1>7, <1>8 DEF HunksFit, t

-----------------------------------------------------------------------------
(* What is left to do.                                                     *)

\* What is still to do: a box of lines to compare, or lines that are the same.
Tasks == [op : {"solve", "search", "keep"}, box : [l : Nat, r : Nat, t : Nat, b : Nat]]

\* What is left to do of a call leads over its box: an unsolved box anyhow,
\* lines that stay only where both texts have them.
TaskFits(task, x, y, u, v) ==
    /\ task \in Tasks
    /\ task.box.l = x /\ task.box.t = y /\ task.box.r = u /\ task.box.b = v
    /\ InBox(task.box)
    /\ task.op = "keep" => u - x = v - y /\ Same(x, y, u - x)

\* Tasks one after the other, through places in between.
Links(s, x, y, u, v) ==
    /\ s \in Seq(Tasks)
    /\ \E at, to \in [0 .. Len(s) -> Nat] :
        /\ at[0] = x /\ to[0] = y /\ at[Len(s)] = u /\ to[Len(s)] = v
        /\ \A i \in 1 .. Len(s) : TaskFits(s[i], at[i - 1], to[i - 1], at[i], to[i])

\* Nothing left to do leads nowhere.
LEMMA LinksNowhere ==
    ASSUME NEW x \in Nat, NEW y \in Nat
    PROVE  Links(<<>>, x, y, x, y)
<1> DEFINE at == [i \in 0 .. 0 |-> x]
           to == [i \in 0 .. 0 |-> y]
<1>1. at \in [0 .. 0 -> Nat] /\ to \in [0 .. 0 -> Nat] /\ at[0] = x /\ to[0] = y
  OBVIOUS
<1> HIDE DEF at, to
<1>2. Len(<<>>) = 0 /\ 1 .. 0 = {} /\ <<>> \in Seq(Tasks)
  OBVIOUS
<1> QED
  BY <1>1, <1>2 DEF Links

\* One more task on top leads to where the others begin.
LEMMA LinksBefore ==
    ASSUME NEW s, NEW task, NEW x \in Nat, NEW y \in Nat, NEW u, NEW v, NEW w, NEW z,
           TaskFits(task, x, y, u, v), Links(s, u, v, w, z)
    PROVE  Links(<<task>> \o s, x, y, w, z)
<1>1. PICK at \in [0 .. Len(s) -> Nat], to \in [0 .. Len(s) -> Nat] :
        /\ at[0] = u /\ to[0] = v /\ at[Len(s)] = w /\ to[Len(s)] = z
        /\ \A i \in 1 .. Len(s) : TaskFits(s[i], at[i - 1], to[i - 1], at[i], to[i])
  BY DEF Links
<1> DEFINE n == Len(s)
           t == <<task>> \o s
           p == [i \in 0 .. n + 1 |-> IF i = 0 THEN x ELSE at[i - 1]]
           q == [i \in 0 .. n + 1 |-> IF i = 0 THEN y ELSE to[i - 1]]
<1>2. s \in Seq(Tasks) /\ task \in Tasks
  BY DEF Links, TaskFits
<1>3. /\ n \in Nat /\ Len(t) = n + 1 /\ t \in Seq(Tasks) /\ t[1] = task
      /\ \A i \in 2 .. n + 1 : t[i] = s[i - 1]
  BY <1>2
<1>4. /\ p \in [0 .. n + 1 -> Nat] /\ q \in [0 .. n + 1 -> Nat]
      /\ p[0] = x /\ q[0] = y
      /\ \A i \in 1 .. n + 1 : p[i] = at[i - 1] /\ q[i] = to[i - 1]
  <2>1. \A i \in 0 .. n + 1 : i # 0 => i - 1 \in 0 .. n
    BY <1>3
  <2> QED
    BY <1>3, <2>1
<1> HIDE DEF p, q, t
<1>5. ASSUME NEW i \in 1 .. n + 1
      PROVE  TaskFits(t[i], p[i - 1], q[i - 1], p[i], q[i])
  <2>1. CASE i = 1
    <3>1. i - 1 = 0
      BY <2>1
    <3>2. p[i] = u /\ q[i] = v
      BY <1>1, <1>4, <3>1
    <3> QED
      BY <1>3, <1>4, <2>1, <3>1, <3>2
  <2>2. CASE i # 1
    <3>1. i \in 2 .. n + 1 /\ i - 1 \in 1 .. n /\ i - 1 \in 1 .. n + 1
      BY <1>3, <2>2
    <3>2. TaskFits(s[i - 1], at[(i - 1) - 1], to[(i - 1) - 1], at[i - 1], to[i - 1])
      BY <1>1, <3>1
    <3> QED
      BY <1>3, <1>4, <3>1, <3>2
  <2> QED
    BY <2>1, <2>2
<1>6. p[n + 1] = w /\ q[n + 1] = z
  <2>1. n + 1 \in 1 .. n + 1 /\ (n + 1) - 1 = n
    BY <1>3
  <2> QED
    BY <1>1, <1>4, <2>1
<1> QED
  BY <1>3, <1>4, <1>5, <1>6 DEF Links, t

\* The first task, and those after it.
LEMMA LinksOn ==
    ASSUME NEW s, s # <<>>, NEW x, NEW y, NEW w, NEW z, Links(s, x, y, w, z)
    PROVE  /\ TaskFits(Head(s), x, y, Head(s).box.r, Head(s).box.b)
           /\ Links(Tail(s), Head(s).box.r, Head(s).box.b, w, z)
<1>1. PICK at \in [0 .. Len(s) -> Nat], to \in [0 .. Len(s) -> Nat] :
        /\ at[0] = x /\ to[0] = y /\ at[Len(s)] = w /\ to[Len(s)] = z
        /\ \A i \in 1 .. Len(s) : TaskFits(s[i], at[i - 1], to[i - 1], at[i], to[i])
  BY DEF Links
<1> DEFINE t == Tail(s)
           n == Len(s)
           a == [i \in 0 .. n - 1 |-> at[i + 1]]
           b == [i \in 0 .. n - 1 |-> to[i + 1]]
<1>0. s \in Seq(Tasks)
  BY DEF Links
<1>2. n \in Nat /\ n >= 1 /\ Len(t) = n - 1 /\ Head(s) = s[1] /\ t \in Seq(Tasks)
      /\ \A i \in 1 .. n - 1 : t[i] = s[i + 1]
  BY <1>0
<1>3. a \in [0 .. n - 1 -> Nat] /\ b \in [0 .. n - 1 -> Nat]
  BY <1>2
<1>4. \A i \in 0 .. n - 1 : a[i] = at[i + 1] /\ b[i] = to[i + 1]
  BY <1>2
<1> HIDE DEF a, b, t
<1>5. TaskFits(Head(s), x, y, at[1], to[1])
  <2>1. 1 \in 1 .. Len(s) /\ 1 - 1 = 0
    BY <1>2
  <2>2. TaskFits(s[1], at[1 - 1], to[1 - 1], at[1], to[1])
    BY <1>1, <2>1
  <2> QED
    BY <1>1, <1>2, <2>1, <2>2
<1>6. at[1] = Head(s).box.r /\ to[1] = Head(s).box.b
  BY <1>5 DEF TaskFits
<1>7. a[0] = at[1] /\ b[0] = to[1] /\ a[n - 1] = w /\ b[n - 1] = z
  BY <1>1, <1>2, <1>4
<1>8. ASSUME NEW i \in 1 .. n - 1
      PROVE  TaskFits(t[i], a[i - 1], b[i - 1], a[i], b[i])
  <2>1. i + 1 \in 1 .. Len(s) /\ i \in 0 .. n - 1 /\ i - 1 \in 0 .. n - 1
    BY <1>2
  <2>2. TaskFits(s[i + 1], at[(i + 1) - 1], to[(i + 1) - 1], at[i + 1], to[i + 1])
    BY <1>1, <2>1
  <2>3. (i + 1) - 1 = (i - 1) + 1
    BY <2>1
  <2> QED
    BY <1>2, <1>4, <2>1, <2>2, <2>3
<1>9. Links(t, at[1], to[1], w, z)
  BY <1>2, <1>3, <1>7, <1>8 DEF Links
<1> QED
  BY <1>5, <1>6, <1>9 DEF t

\* The tasks begin and end at places.
LEMMA LinksTypes ==
    ASSUME NEW s, NEW x, NEW y, NEW w, NEW z, Links(s, x, y, w, z)
    PROVE  /\ x \in Nat /\ y \in Nat /\ w \in Nat /\ z \in Nat /\ s \in Seq(Tasks)
           /\ s = <<>> => x = w /\ y = z
<1>1. PICK at \in [0 .. Len(s) -> Nat], to \in [0 .. Len(s) -> Nat] :
        /\ at[0] = x /\ to[0] = y /\ at[Len(s)] = w /\ to[Len(s)] = z
  BY DEF Links
<1>2. s \in Seq(Tasks)
  BY DEF Links
<1>3. Len(s) \in Nat /\ (s = <<>> => Len(s) = 0)
  BY <1>2
<1> QED
  BY <1>1, <1>2, <1>3

\* The texts stay as they are, and with them what leads from place to place.
LEMMA PlacesStay ==
    ASSUME UNCHANGED texts
    PROVE  /\ \A x, y, n : Same(x, y, n)' <=> Same(x, y, n)
           /\ \A box : InBox(box)' <=> InBox(box)
           /\ \A e, x, y, u, v : Fits(e, x, y, u, v)' <=> Fits(e, x, y, u, v)
           /\ \A s, x, y, u, v : Leads(s, x, y, u, v)' <=> Leads(s, x, y, u, v)
           /\ \A s, u, v : Reaches(s, u, v)' <=> Reaches(s, u, v)
           /\ \A task, x, y, u, v : TaskFits(task, x, y, u, v)' <=> TaskFits(task, x, y, u, v)
           /\ \A s, x, y, u, v : Links(s, x, y, u, v)' <=> Links(s, x, y, u, v)
<1>0. before' = before /\ after' = after
  BY DEF texts
<1>1. \A x, y, n : Same(x, y, n)' <=> Same(x, y, n)
  BY <1>0 DEF Same
<1>2. \A box : InBox(box)' <=> InBox(box)
  BY <1>0 DEF InBox
<1>3. \A e, x, y, u, v : Fits(e, x, y, u, v)' <=> Fits(e, x, y, u, v)
  BY <1>0, <1>1 DEF Fits
<1>4. \A s, x, y, u, v : Leads(s, x, y, u, v)' <=> Leads(s, x, y, u, v)
  <2> TAKE s, x, y, u, v
  <2> DEFINE Led == \E at, to \in [0 .. Len(s) -> Nat] :
        /\ at[0] = x /\ to[0] = y /\ at[Len(s)] = u /\ to[Len(s)] = v
        /\ \A i \in 1 .. Len(s) : Fits(s[i], at[i - 1], to[i - 1], at[i], to[i])
  <2>1. Led' <=> Led
    BY <1>3
  <2> QED
    BY <2>1 DEF Leads
<1>5. \A s, u, v : Reaches(s, u, v)' <=> Reaches(s, u, v)
  BY <1>3, <1>4 DEF Reaches
<1>6. \A task, x, y, u, v : TaskFits(task, x, y, u, v)' <=> TaskFits(task, x, y, u, v)
  BY <1>1, <1>2 DEF TaskFits
<1>7. \A s, x, y, u, v : Links(s, x, y, u, v)' <=> Links(s, x, y, u, v)
  <2> TAKE s, x, y, u, v
  <2> DEFINE Led == \E at, to \in [0 .. Len(s) -> Nat] :
        /\ at[0] = x /\ to[0] = y /\ at[Len(s)] = u /\ to[Len(s)] = v
        /\ \A i \in 1 .. Len(s) : TaskFits(s[i], at[i - 1], to[i - 1], at[i], to[i])
  <2>1. Led' <=> Led
    BY <1>6
  <2> QED
    BY <2>1 DEF Links
<1> QED
  BY <1>1, <1>2, <1>3, <1>4, <1>5, <1>6, <1>7

-----------------------------------------------------------------------------
(* The inductive invariant of a diff.                                      *)

\* The text made so far is how the new text begins.
Prefix(text, n) ==
    /\ text \in Seq(Line) /\ Len(text) = n /\ n <= Len(after)
    /\ \A j \in 1 .. n : text[j] = after[j]

\* Between two hunks: the old text is read as far as the last one reaches.
AtHunk(hs, a) ==
    /\ HunksFit(hs, Len(before), Len(after))
    /\ a.hunk \in 1 .. Len(hs) + 1
    /\ a.at = OldEnd(hs, a.hunk - 1)
    /\ Prefix(a.text, NewEnd(hs, a.hunk - 1))

\* In a hunk: as far as the lines before the next one lead.
AtLine(hs, a) ==
    /\ HunksFit(hs, Len(before), Len(after))
    /\ a.hunk \in 1 .. Len(hs)
    /\ LET h == hs[a.hunk] IN
       \E at, to \in [0 .. Len(h.lines) -> Nat] :
        /\ Passes(h.lines, at, to)
        /\ at[0] = h.oldStart - 1 /\ at[Len(h.lines)] = OldEnd(hs, a.hunk)
        /\ to[0] = h.newStart - 1 /\ to[Len(h.lines)] = NewEnd(hs, a.hunk)
        /\ a.line \in 1 .. Len(h.lines) + 1
        /\ a.at = at[a.line - 1] /\ a.oldCount = at[a.line - 1] - at[0]
        /\ Prefix(a.text, to[a.line - 1]) /\ a.newCount = to[a.line - 1] - to[0]

\* What applyDiff keeps of its loops.
Applied == [hunk : Nat, line : Nat, at : Nat, text : Seq(Line),
            oldCount : Nat, newCount : Nat]
\* And before it begins.
NoneApplied == [hunk |-> 1, line |-> 1, at |-> 0, text |-> <<>>,
                oldCount |-> 0, newCount |-> 0]

\* The stages of editScript.
Scripting == {"begin", "script", "forward", "backward"}

\* The types, and that no hunk was refused.
DiffTypes ==
    /\ TextsOK
    /\ stage \in Scripting \cup {"hunks", "apply", "line", "done"}
    /\ forward \in [-(bounds.depth + 1) .. bounds.depth + 1 -> Int]
    /\ backward \in [-(bounds.depth + 1) .. bounds.depth + 1 -> Int]
    /\ script \in Scripts
    /\ shown \in [hunks : Seq(DiffHunk), replaced : BOOLEAN]
    /\ applied \in Applied

\* What is not yet begun.
Untouched ==
    /\ stage = "begin" => script = [steps |-> <<>>, open |-> NoStep]
    /\ stage \in Scripting => /\ oldAt = 0 /\ newAt = 0 /\ draft = Nil
                              /\ shown.hunks = <<>>
    /\ stage \in Scripting \cup {"hunks"} => applied = NoneApplied

\* The script leads to a place from which what is left to do leads to the end.
Searched ==
    stage \in Scripting \ {"begin"} =>
        \E x, y \in Nat : Reaches(script, x, y) /\ Links(todo, x, y, Len(before), Len(after))

\* The hunks so far, the open one at their end, lead to a place in both texts.
Drafted(u, v) ==
    /\ draft = Nil => HunksFit(shown.hunks, u, v)
    /\ draft # Nil => \E x, y \in Nat : HunksFit(shown.hunks, x, y) /\ HunkFits(draft, x, y, u, v)

\* They lead to where the rest of the script leads on from.
Hunked ==
    stage = "hunks" => /\ Leads(script.steps, oldAt, newAt, Len(before), Len(after))
                       /\ Drafted(oldAt, newAt)

\* What was applied so far is how the new text begins.
Applying ==
    /\ stage = "apply" => AtHunk(shown.hunks, applied)
    /\ stage = "line" => AtLine(shown.hunks, applied)
    /\ stage = "done" => Prefix(applied.text, Len(after))

\* The inductive invariant of a diff, from its first step to the text that
\* comes of it.
DiffInvariant == DiffTypes /\ Untouched /\ Searched /\ SearchInv /\ Hunked /\ Applying

\* Only the texts matter for what fits, and they stay.
LEMMA HunksStay ==
    ASSUME UNCHANGED texts
    PROVE  /\ \A h, x, y, u, v : HunkFits(h, x, y, u, v)' <=> HunkFits(h, x, y, u, v)
           /\ \A hs, u, v : HunksFit(hs, u, v)' <=> HunksFit(hs, u, v)
           /\ \A text, n : Prefix(text, n)' <=> Prefix(text, n)
           /\ \A hs, a : AtHunk(hs, a)' <=> AtHunk(hs, a)
           /\ \A hs, a : AtLine(hs, a)' <=> AtLine(hs, a)
<1>0. before' = before /\ after' = after
  BY DEF texts
<1>1. \A line, x, y, u, v : LineFits(line, x, y, u, v)' <=> LineFits(line, x, y, u, v)
  BY <1>0 DEF LineFits
<1>2. \A lines, at, to : Passes(lines, at, to)' <=> Passes(lines, at, to)
  BY <1>1 DEF Passes
<1>3. \A lines, x, y, u, v : Spells(lines, x, y, u, v)' <=> Spells(lines, x, y, u, v)
  BY <1>2 DEF Spells
<1>4. \A h, x, y, u, v : HunkFits(h, x, y, u, v)' <=> HunkFits(h, x, y, u, v)
  BY <1>0, <1>3 DEF HunkFits
<1>5. \A x, y, u, v : Gap(x, y, u, v)' <=> Gap(x, y, u, v)
  BY <1>0, PlacesStay DEF Gap
<1>6. \A hs, u, v : HunksFit(hs, u, v)' <=> HunksFit(hs, u, v)
  BY <1>4, <1>5 DEF HunksFit
<1>7. \A text, n : Prefix(text, n)' <=> Prefix(text, n)
  BY <1>0 DEF Prefix
<1>8. \A hs, a : AtHunk(hs, a)' <=> AtHunk(hs, a)
  BY <1>0, <1>6, <1>7 DEF AtHunk
<1>9. \A hs, a : AtLine(hs, a)' <=> AtLine(hs, a)
  <2> TAKE hs, a
  <2> DEFINE h == hs[a.hunk]
             Led == \E at, to \in [0 .. Len(h.lines) -> Nat] :
                /\ Passes(h.lines, at, to)
                /\ at[0] = h.oldStart - 1 /\ at[Len(h.lines)] = OldEnd(hs, a.hunk)
                /\ to[0] = h.newStart - 1 /\ to[Len(h.lines)] = NewEnd(hs, a.hunk)
                /\ a.line \in 1 .. Len(h.lines) + 1
                /\ a.at = at[a.line - 1] /\ a.oldCount = at[a.line - 1] - at[0]
                /\ Prefix(a.text, to[a.line - 1]) /\ a.newCount = to[a.line - 1] - to[0]
  <2>1. Led' <=> Led
    BY <1>2, <1>7
  <2> QED
    BY <1>0, <1>6, <2>1 DEF AtLine
<1> QED
  BY <1>4, <1>6, <1>7, <1>8, <1>9

\* The texts and the bounds are set once.
LEMMA TextsStay ==
    ASSUME TextsOK, UNCHANGED texts
    PROVE  TextsOK' /\ bounds' = bounds /\ Len(before)' = Len(before) /\ Len(after)' = Len(after)
           /\ before' = before /\ after' = after
BY DEF texts, TextsOK

\* The invariant holds at the beginning.
LEMMA DiffBegins == DiffInit => DiffInvariant
<1> SUFFICES ASSUME DiffInit PROVE DiffInvariant
  OBVIOUS
<1>1. TextsOK
  <2>1. PICK pair \in Texts : before = pair[1] /\ after = pair[2]
    BY DEF DiffInit
  <2>2. pair \in Seq(Line) \X Seq(Line)
    BY DiffAssumption
  <2>3. before \in Seq(Line) /\ after \in Seq(Line)
    BY <2>1, <2>2
  <2>4. bounds \in [depth : Nat, lines : Nat]
    BY DiffAssumption DEF DiffInit
  <2> QED
    BY <2>3, <2>4 DEF TextsOK
<1>2. script \in Scripts
  BY DEF DiffInit, Scripts, EditStep, NoStep
<1>3. shown \in [hunks : Seq(DiffHunk), replaced : BOOLEAN] /\ applied \in Applied
  BY DEF DiffInit, Applied
<1>4. /\ forward \in [-(bounds.depth + 1) .. bounds.depth + 1 -> Int]
      /\ backward \in [-(bounds.depth + 1) .. bounds.depth + 1 -> Int]
  BY DEF DiffInit
<1>5. stage = "begin"
  BY DEF DiffInit
<1>6. DiffTypes
  BY <1>1, <1>2, <1>3, <1>4, <1>5 DEF DiffTypes, Scripting
<1>7. Untouched
  BY DEF DiffInit, Untouched, NoneApplied
<1>8. Searched /\ SearchInv /\ Hunked /\ Applying
  BY <1>5 DEF Searched, SearchInv, Hunked, Applying, Scripting
<1> QED
  BY <1>6, <1>7, <1>8 DEF DiffInvariant

\* Past a bound the diff is one hunk over all of both texts.
LEMMA ShowWholeFits ==
    ASSUME DiffTypes, Untouched, stage \in Scripting, ShowWhole, UNCHANGED <<texts, applied>>
    PROVE  /\ shown' \in [hunks : Seq(DiffHunk), replaced : BOOLEAN]
           /\ AtHunk(shown'.hunks, applied')
<1> DEFINE h == Changed(DraftAt(1, 1), 0, Len(before), 0, Len(after))
<1>1. Len(before) \in Nat /\ Len(after) \in Nat /\ TextsOK
  BY DEF DiffTypes, TextsOK
<1>2. HunkFits(DraftAt(1, 1), 0, 0, 0, 0)
  <2>1. HunkFits(DraftAt(0 + 1, 0 + 1), 0, 0, 0, 0)
    <3>1. 0 <= Len(before) /\ 0 <= Len(after)
      BY <1>1
    <3> QED
      BY <3>1, DraftFits
  <2>2. 0 + 1 = 1
    OBVIOUS
  <2> QED
    BY <2>1, <2>2
<1>3. HunkFits(h, 0, 0, Len(before), Len(after))
  <2>1. 0 + Len(before) = Len(before) /\ 0 + Len(after) = Len(after)
        /\ Len(before) <= Len(before) /\ Len(after) <= Len(after)
    BY <1>1
  <2> HIDE DEF h
  <2>2. HunkFits(Changed(DraftAt(1, 1), 0, Len(before), 0, Len(after)), 0, 0,
                 0 + Len(before), 0 + Len(after))
    BY <1>1, <1>2, <2>1, ChangedFits
  <2> QED
    BY <2>1, <2>2 DEF h
<1> HIDE DEF h
<1>4. HunksFit(Append(<<>>, h), Len(before), Len(after))
  BY <1>1, <1>3, NoHunks, HunkAdded
<1>5. shown' = [hunks |-> <<h>>, replaced |-> TRUE]
  BY DEF ShowWhole, h
<1>6. Append(<<>>, h) = <<h>>
  OBVIOUS
<1>7. HunksFit(<<h>>, Len(before), Len(after)) /\ <<h>> \in Seq(DiffHunk)
  BY <1>4, <1>6 DEF HunksFit
<1>8. applied' = NoneApplied
  BY DEF Untouched
<1>9. AtHunk(<<h>>, NoneApplied)
  <2>1. Prefix(<<>>, 0)
    BY <1>1 DEF Prefix
  <2>2. Len(<<h>>) = 1
    OBVIOUS
  <2> QED
    BY <1>7, <2>1, <2>2 DEF AtHunk, OldEnd, NewEnd, NoneApplied
<1> QED
  BY <1>5, <1>7, <1>8, <1>9

\* The invariant where only the diff or what was applied of it is left.
LEMMA ShownStays ==
    ASSUME DiffInvariant, UNCHANGED <<texts, script>>,
           stage' \in {"apply", "line", "done"},
           forward' \in [-(bounds.depth + 1) .. bounds.depth + 1 -> Int],
           backward' \in [-(bounds.depth + 1) .. bounds.depth + 1 -> Int],
           shown' \in [hunks : Seq(DiffHunk), replaced : BOOLEAN], applied' \in Applied,
           stage' = "apply" => AtHunk(shown'.hunks, applied'),
           stage' = "line" => AtLine(shown'.hunks, applied'),
           stage' = "done" => Prefix(applied'.text, Len(after))
    PROVE  DiffInvariant'
<1>1. TextsOK /\ script \in Scripts
  BY DEF DiffInvariant, DiffTypes
<1>2. TextsOK' /\ bounds' = bounds /\ after' = after
  BY <1>1, TextsStay
<1>3. DiffTypes'
  BY <1>1, <1>2 DEF DiffTypes
<1>4. Untouched' /\ Searched' /\ SearchInv' /\ Hunked'
  BY DEF Untouched, Searched, SearchInv, Hunked, Scripting
<1>5. Applying'
  BY <1>2, HunksStay DEF Applying
<1> QED
  BY <1>3, <1>4, <1>5 DEF DiffInvariant

\* Past a bound of the texts nothing is searched.
LEMMA RefrainKeeps == DiffInvariant /\ Refrain => DiffInvariant'
<1> SUFFICES ASSUME DiffInvariant, Refrain PROVE DiffInvariant'
  OBVIOUS
<1>1. DiffTypes /\ Untouched
  BY DEF DiffInvariant
<1>2. /\ stage \in Scripting /\ ShowWhole /\ UNCHANGED <<texts, script, forward, backward, applied>>
      /\ stage' = "apply"
  BY DEF Refrain, Scripting, ShowWhole, search
<1>3. /\ shown' \in [hunks : Seq(DiffHunk), replaced : BOOLEAN]
      /\ AtHunk(shown'.hunks, applied')
  BY <1>1, <1>2, ShowWholeFits
<1>4. /\ forward' \in [-(bounds.depth + 1) .. bounds.depth + 1 -> Int]
      /\ backward' \in [-(bounds.depth + 1) .. bounds.depth + 1 -> Int]
      /\ applied' \in Applied
  BY <1>1, <1>2 DEF DiffTypes
<1> QED
  BY <1>2, <1>3, <1>4, ShownStays

\* The invariant while the script is made.
LEMMA ScriptStays ==
    ASSUME DiffInvariant, UNCHANGED <<texts, hunking, applied>>, stage \in Scripting,
           stage' \in Scripting \ {"begin"},
           forward' \in [-(bounds.depth + 1) .. bounds.depth + 1 -> Int],
           backward' \in [-(bounds.depth + 1) .. bounds.depth + 1 -> Int],
           script' \in Scripts, SearchInv',
           NEW x \in Nat, NEW y \in Nat, Reaches(script', x, y),
           Links(todo', x, y, Len(before), Len(after))
    PROVE  DiffInvariant'
<1>1. /\ TextsOK /\ stage \in Scripting
      /\ shown \in [hunks : Seq(DiffHunk), replaced : BOOLEAN] /\ applied \in Applied
  BY DEF DiffInvariant, DiffTypes
<1>2. TextsOK' /\ bounds' = bounds /\ before' = before /\ after' = after
  BY <1>1, TextsStay
<1>3. DiffTypes'
  BY <1>1, <1>2 DEF DiffTypes, hunking
<1>4. Untouched'
  BY DEF DiffInvariant, Untouched, Scripting, hunking
<1>5. Searched'
  <2>1. Reaches(script, x, y)' /\ Links(todo, x, y, Len(before), Len(after))'
    BY <1>2, PlacesStay
  <2> QED
    BY <2>1 DEF Searched
<1>6. Hunked' /\ Applying'
  BY DEF Hunked, Applying, Scripting
<1> QED
  BY <1>3, <1>4, <1>5, <1>6 DEF DiffInvariant

-----------------------------------------------------------------------------
(* The steps of editScript.                                                *)

\* Tasks on top of others.
LEMMA Piles ==
    ASSUME NEW s \in Seq(Tasks), NEW a \in Tasks, NEW b \in Tasks
    PROVE  /\ <<a>> \o s \in Seq(Tasks) /\ Head(<<a>> \o s) = a /\ <<a>> \o s # <<>>
           /\ <<a>> \o <<>> = <<a>>
           /\ <<a, b>> \o s = <<a>> \o (<<b>> \o s)
<1> DEFINE p == <<a>> \o (<<b>> \o s)
           P == <<a, b>> \o s
           n == Len(s)
<1>1. /\ <<a>> \o s \in Seq(Tasks) /\ Head(<<a>> \o s) = a /\ <<a>> \o s # <<>>
      /\ <<a>> \o <<>> = <<a>>
  OBVIOUS
<1>2. /\ n \in Nat /\ <<b>> \o s \in Seq(Tasks) /\ Len(<<b>> \o s) = n + 1
      /\ (<<b>> \o s)[1] = b /\ \A i \in 2 .. n + 1 : (<<b>> \o s)[i] = s[i - 1]
  OBVIOUS
<1>3. /\ p \in Seq(Tasks) /\ Len(p) = n + 2 /\ p[1] = a /\ p[2] = b
      /\ \A i \in 3 .. n + 2 : p[i] = s[i - 2]
  <2>1. /\ p \in Seq(Tasks) /\ Len(p) = n + 2 /\ p[1] = a
        /\ \A i \in 2 .. n + 2 : p[i] = (<<b>> \o s)[i - 1]
    BY <1>2
  <2>2. \A i \in 3 .. n + 2 : i - 1 \in 2 .. n + 1 /\ (i - 1) - 1 = i - 2
    BY <1>2
  <2>3. 2 \in 2 .. n + 2 /\ 2 - 1 = 1
    BY <1>2
  <2> HIDE DEF p, n
  <2> QED
    BY <1>2, <2>1, <2>2, <2>3
<1>4. /\ P \in Seq(Tasks) /\ Len(P) = n + 2 /\ P[1] = a /\ P[2] = b
      /\ \A i \in 3 .. n + 2 : P[i] = s[i - 2]
  OBVIOUS
<1>5. P = p
  <2> HIDE DEF P, p, n
  <2>1. \A i \in 1 .. n + 2 : P[i] = p[i]
    <3> TAKE i \in 1 .. n + 2
    <3>1. i = 1 \/ i = 2 \/ i \in 3 .. n + 2
      BY <1>2
    <3> QED
      BY <1>3, <1>4, <3>1
  <2> QED
    BY <1>3, <1>4, <2>1, SeqEqual
<1> QED
  BY <1>1, <1>5

\* Three tasks on top of others.
LEMMA ThreePiles ==
    ASSUME NEW s \in Seq(Tasks), NEW a \in Tasks, NEW b \in Tasks, NEW c \in Tasks
    PROVE  <<a, b, c>> \o s = <<a>> \o (<<b, c>> \o s)
<1> DEFINE p == <<a>> \o (<<b, c>> \o s)
           P == <<a, b, c>> \o s
           n == Len(s)
<1>1. /\ n \in Nat /\ <<b, c>> \o s \in Seq(Tasks) /\ Len(<<b, c>> \o s) = n + 2
      /\ (<<b, c>> \o s)[1] = b /\ (<<b, c>> \o s)[2] = c
      /\ \A i \in 3 .. n + 2 : (<<b, c>> \o s)[i] = s[i - 2]
  OBVIOUS
<1>2. /\ p \in Seq(Tasks) /\ Len(p) = n + 3 /\ p[1] = a /\ p[2] = b /\ p[3] = c
      /\ \A i \in 4 .. n + 3 : p[i] = s[i - 3]
  <2>1. /\ p \in Seq(Tasks) /\ Len(p) = n + 3 /\ p[1] = a
        /\ \A i \in 2 .. n + 3 : p[i] = (<<b, c>> \o s)[i - 1]
    BY <1>1
  <2>2. \A i \in 4 .. n + 3 : i - 1 \in 3 .. n + 2 /\ (i - 1) - 2 = i - 3
    BY <1>1
  <2>3. 2 \in 2 .. n + 3 /\ 2 - 1 = 1 /\ 3 \in 2 .. n + 3 /\ 3 - 1 = 2
    BY <1>1
  <2> HIDE DEF p, n
  <2> QED
    BY <1>1, <2>1, <2>2, <2>3
<1>3. /\ P \in Seq(Tasks) /\ Len(P) = n + 3 /\ P[1] = a /\ P[2] = b /\ P[3] = c
      /\ \A i \in 4 .. n + 3 : P[i] = s[i - 3]
  OBVIOUS
<1> HIDE DEF P, p, n
<1>4. \A i \in 1 .. n + 3 : P[i] = p[i]
  <2> TAKE i \in 1 .. n + 3
  <2>1. i = 1 \/ i = 2 \/ i = 3 \/ i \in 4 .. n + 3
    BY <1>1
  <2> QED
    BY <1>2, <1>3, <2>1
<1>5. P = p
  BY <1>2, <1>3, <1>4, SeqEqual
<1> QED
  BY <1>5 DEF P, p

\* What is left of a box without the lines at its ends, in numbers.
LEMMA InnerMeasures ==
    ASSUME NEW box, TextsOK, InBox(box), NEW in, in = Inner(box)
    PROVE  /\ InBox(in)
           /\ in.l \in Nat /\ in.r \in Nat /\ in.t \in Nat /\ in.b \in Nat
           /\ in.l <= in.r /\ in.t <= in.b /\ in.r <= box.r /\ in.b <= box.b
           /\ in.l <= Len(before) /\ in.r <= Len(before)
           /\ in.t <= Len(after) /\ in.b <= Len(after)
           /\ in.l - box.l \in Nat /\ box.r - in.r \in Nat
           /\ in.r - in.l \in Nat /\ in.b - in.t \in Nat
           /\ box.l + (in.l - box.l) = in.l /\ box.t + (in.l - box.l) = in.t
           /\ in.l + (in.r - in.l) = in.r /\ in.t + (in.b - in.t) = in.b
           /\ in.r + (box.r - in.r) = box.r /\ in.b + (box.r - in.r) = box.b
           /\ box.r - in.r = box.b - in.b
           /\ Same(box.l, box.t, in.l - box.l) /\ Same(in.r, in.b, box.r - in.r)
<1>1. /\ InBox(in)
      /\ box.l <= in.l /\ in.r <= box.r /\ box.t <= in.t /\ in.b <= box.b
      /\ in.l - box.l = in.t - box.t /\ box.r - in.r = box.b - in.b
      /\ Same(box.l, box.t, in.l - box.l)
      /\ Same(in.r, in.b, box.r - in.r)
  BY InnerFacts
<1>2. PICK p \in Nat, q \in Nat : p = Len(before) /\ q = Len(after)
  BY DEF TextsOK
<1>3. /\ in.l \in Nat /\ in.r \in in.l .. p /\ in.t \in Nat /\ in.b \in in.t .. q
      /\ box.l \in Nat /\ box.r \in box.l .. p /\ box.t \in Nat /\ box.b \in box.t .. q
  BY <1>1, <1>2 DEF InBox
<1>4. /\ in.l \in Nat /\ in.r \in Nat /\ in.t \in Nat /\ in.b \in Nat
      /\ in.l <= in.r /\ in.t <= in.b
      /\ in.l <= p /\ in.r <= p /\ in.t <= q /\ in.b <= q
  BY <1>3
<1>5. /\ in.l - box.l \in Nat /\ box.r - in.r \in Nat
      /\ in.r - in.l \in Nat /\ in.b - in.t \in Nat
      /\ box.l + (in.l - box.l) = in.l /\ box.t + (in.l - box.l) = in.t
      /\ in.l + (in.r - in.l) = in.r /\ in.t + (in.b - in.t) = in.b
      /\ in.r + (box.r - in.r) = box.r /\ in.b + (box.r - in.r) = box.b
  BY <1>1, <1>3, <1>4
<1> QED
  BY <1>1, <1>2, <1>4, <1>5

\* There are no diagonals before the first step.
LEMMA NoneBelow ==
    ASSUME NEW d \in Int, d < 0, NEW k \in Diagonals(d)
    PROVE  FALSE
BY DEF Diagonals

\* And one at the first.
LEMMA NoDiagonals == Diagonals(0 - 1) = {} /\ \A k \in Diagonals(0) : k = 0
<1>2. 0 - 1 \in Int /\ 0 - 1 < 0
  OBVIOUS
<1>3. ASSUME NEW k \in Diagonals(0) PROVE k = 0
  <2>1. k \in -0 .. 0
    BY DEF Diagonals
  <2> QED
    BY <2>1
<1> QED
  BY <1>2, <1>3, NoneBelow

\* The first task is the box over both texts.
LEMMA BeginKeeps == DiffInvariant /\ Begin => DiffInvariant'
<1> SUFFICES ASSUME DiffInvariant, Begin PROVE DiffInvariant'
  OBVIOUS
<1> DEFINE task == Task("solve", Whole)
           m == Len(before)
           n == Len(after)
<1>1. /\ stage = "begin" /\ stage' = "script" /\ todo' = <<task>>
      /\ UNCHANGED <<texts, search, script, hunking, applied>>
  BY DEF Begin
<1>2. TextsOK /\ DiffTypes /\ script = [steps |-> <<>>, open |-> NoStep]
  BY <1>1 DEF DiffInvariant, DiffTypes, Untouched
<1>3. m \in Nat /\ n \in Nat
  BY <1>2 DEF TextsOK
<1>4. TaskFits(task, 0, 0, m, n)
  <2>1. /\ task.op = "solve" /\ task.box.l = 0 /\ task.box.r = m
        /\ task.box.t = 0 /\ task.box.b = n
    BY DEF Task, Whole, Box
  <2>2. task \in Tasks
    BY <1>3 DEF Task, Whole, Box, Tasks
  <2>3. InBox(task.box)
    BY <1>3, <2>1 DEF InBox
  <2> QED
    BY <2>1, <2>2, <2>3 DEF TaskFits
<1> HIDE DEF task, m, n
<1>5. Links(todo', 0, 0, m, n)
  <2>1. Links(<<task>> \o <<>>, 0, 0, m, n)
    BY <1>3, <1>4, LinksNowhere, LinksBefore
  <2>2. <<task>> \o <<>> = <<task>>
    BY <1>4, Piles DEF TaskFits
  <2> QED
    BY <1>1, <2>1, <2>2
<1>6. Reaches(script, 0, 0)
  <2>1. Leads(script.steps, 0, 0, 0, 0)
    BY <1>2, LeadsNowhere
  <2>2. Fits(script.open, 0, 0, 0, 0)
    BY <1>2, <1>3 DEF Fits, NoStep, Same, m, n
  <2> QED
    BY <2>1, <2>2 DEF Reaches
<1>7. /\ forward' \in [-(bounds.depth + 1) .. bounds.depth + 1 -> Int]
      /\ backward' \in [-(bounds.depth + 1) .. bounds.depth + 1 -> Int]
      /\ script' \in Scripts
  BY <1>1, <1>2 DEF DiffTypes, search
<1>8. SearchInv'
  BY <1>1 DEF SearchInv
<1>9. Reaches(script', 0, 0)
  BY <1>1, <1>6
<1> QED
  BY <1>1, <1>5, <1>7, <1>8, <1>9, ScriptStays DEF Scripting, m, n

\* The next task begins where the script leads to.
LEMMA NextTask ==
    ASSUME DiffInvariant, stage \in Scripting \ {"begin"}, todo # <<>>
    PROVE  /\ Reaches(script, Current.l, Current.t)
           /\ TaskFits(Head(todo), Current.l, Current.t, Current.r, Current.b)
           /\ Links(Tail(todo), Current.r, Current.b, Len(before), Len(after))
           /\ Tail(todo) \in Seq(Tasks)
           /\ InBox(Current) /\ Head(todo) \in Tasks
           /\ Current.l \in Nat /\ Current.r \in Nat /\ Current.l <= Current.r
           /\ Current.t \in Nat /\ Current.b \in Nat /\ Current.t <= Current.b
           /\ Current.r <= Len(before) /\ Current.b <= Len(after)
           /\ script \in Scripts /\ TextsOK
           /\ Len(before) \in Nat /\ Len(after) \in Nat
           /\ bounds.depth \in Nat
           /\ forward \in [-(bounds.depth + 1) .. bounds.depth + 1 -> Int]
           /\ backward \in [-(bounds.depth + 1) .. bounds.depth + 1 -> Int]
<1>1. PICK x \in Nat, y \in Nat : Reaches(script, x, y) /\ Links(todo, x, y, Len(before), Len(after))
  BY DEF DiffInvariant, Searched
<1>2. /\ TaskFits(Head(todo), x, y, Current.r, Current.b)
      /\ Links(Tail(todo), Current.r, Current.b, Len(before), Len(after))
  BY <1>1, LinksOn DEF Current
<1>3. x = Current.l /\ y = Current.t /\ InBox(Current) /\ Head(todo) \in Tasks
  BY <1>2 DEF TaskFits, Current
<1>4. script \in Scripts /\ TextsOK /\ bounds.depth \in Nat
      /\ forward \in [-(bounds.depth + 1) .. bounds.depth + 1 -> Int]
      /\ backward \in [-(bounds.depth + 1) .. bounds.depth + 1 -> Int]
  BY DEF DiffInvariant, DiffTypes, TextsOK
<1>5. Len(before) \in Nat /\ Len(after) \in Nat
  BY <1>4 DEF TextsOK
<1>6. Tail(todo) \in Seq(Tasks)
  BY <1>2, LinksTypes
<1>7. /\ Current.l \in Nat /\ Current.r \in Nat /\ Current.l <= Current.r
      /\ Current.t \in Nat /\ Current.b \in Nat /\ Current.t <= Current.b
      /\ Current.r <= Len(before) /\ Current.b <= Len(after)
  BY <1>3, <1>5 DEF InBox
<1> QED
  BY <1>1, <1>2, <1>3, <1>4, <1>5, <1>6, <1>7

\* The lines of a snake, or at the end of a box, stay.
LEMMA KeepLinesKeeps == DiffInvariant /\ KeepLines => DiffInvariant'
<1> SUFFICES ASSUME DiffInvariant, KeepLines PROVE DiffInvariant'
  OBVIOUS
<1> DEFINE n == Current.r - Current.l
<1>1. /\ stage = "script" /\ stage' = "script" /\ todo # <<>> /\ todo' = Tail(todo)
      /\ Head(todo).op = "keep" /\ script' = Keep(script, n)
      /\ UNCHANGED <<texts, search, hunking, applied>>
  BY DEF KeepLines, Doing
<1>2. /\ Reaches(script, Current.l, Current.t)
      /\ TaskFits(Head(todo), Current.l, Current.t, Current.r, Current.b)
      /\ Links(Tail(todo), Current.r, Current.b, Len(before), Len(after))
      /\ Current.l \in Nat /\ Current.r \in Nat /\ Current.l <= Current.r
      /\ Current.t \in Nat /\ Current.b \in Nat
      /\ Current.r <= Len(before) /\ Current.b <= Len(after)
      /\ script \in Scripts
      /\ forward \in [-(bounds.depth + 1) .. bounds.depth + 1 -> Int]
      /\ backward \in [-(bounds.depth + 1) .. bounds.depth + 1 -> Int]
  BY <1>1, NextTask DEF Scripting
<1>3. n = Current.b - Current.t /\ Same(Current.l, Current.t, n)
  BY <1>1, <1>2 DEF TaskFits
<1>4. n \in Nat /\ Current.l + n = Current.r /\ Current.t + n = Current.b
  BY <1>2, <1>3
<1> HIDE DEF n
<1>5. script' \in Scripts /\ Reaches(script', Current.r, Current.b)
  <2>1. /\ Keep(script, n) \in Scripts
        /\ Reaches(Keep(script, n), Current.l + n, Current.t + n)
    BY <1>2, <1>3, <1>4, KeepLeads
  <2> QED
    BY <1>1, <1>4, <2>1
<1>6. SearchInv'
  BY <1>1 DEF SearchInv
<1>7. /\ forward' \in [-(bounds.depth + 1) .. bounds.depth + 1 -> Int]
      /\ backward' \in [-(bounds.depth + 1) .. bounds.depth + 1 -> Int]
  BY <1>1, <1>2 DEF search
<1> QED
  BY <1>1, <1>2, <1>5, <1>6, <1>7, ScriptStays DEF Scripting

\* A box with one text empty: the lines left are all removed or all added.
LEMMA SolveEdgeKeeps == DiffInvariant /\ SolveEdge => DiffInvariant'
<1> SUFFICES ASSUME DiffInvariant, SolveEdge PROVE DiffInvariant'
  OBVIOUS
<1> DEFINE in == Inner(Current)
           i == in.l - Current.l
           j == Current.r - in.r
           m == in.r - in.l
           n == in.b - in.t
           kept == Keep(script, i)
           changed == Change(kept, m, n)
<1>1. /\ stage = "script" /\ stage' = "script" /\ todo # <<>> /\ todo' = Tail(todo)
      /\ script' = Keep(changed, j)
      /\ UNCHANGED <<texts, search, hunking, applied>>
  BY DEF SolveEdge, Doing
<1>2. /\ Reaches(script, Current.l, Current.t) /\ InBox(Current)
      /\ Links(Tail(todo), Current.r, Current.b, Len(before), Len(after))
      /\ Current.l \in Nat /\ Current.r \in Nat /\ Current.l <= Current.r
      /\ Current.t \in Nat /\ Current.b \in Nat
      /\ Current.r <= Len(before) /\ Current.b <= Len(after)
      /\ Len(before) \in Nat /\ Len(after) \in Nat
      /\ script \in Scripts /\ TextsOK
      /\ forward \in [-(bounds.depth + 1) .. bounds.depth + 1 -> Int]
      /\ backward \in [-(bounds.depth + 1) .. bounds.depth + 1 -> Int]
  BY <1>1, NextTask DEF Scripting
<1>4. /\ in.l \in Nat /\ in.r \in Nat /\ in.t \in Nat /\ in.b \in Nat
      /\ in.l <= Len(before) /\ in.r <= Len(before)
      /\ in.t <= Len(after) /\ in.b <= Len(after)
      /\ i \in Nat /\ j \in Nat /\ m \in Nat /\ n \in Nat
      /\ Current.l + i = in.l /\ Current.t + i = in.t
      /\ in.l + m = in.r /\ in.t + n = in.b
      /\ in.r + j = Current.r /\ in.b + j = Current.b
      /\ Same(Current.l, Current.t, i) /\ Same(in.r, in.b, j)
  <2>1. in = Inner(Current)
    OBVIOUS
  <2> HIDE DEF in
  <2> QED
    BY <1>2, <2>1, InnerMeasures, ZenonT(60)
<1> HIDE DEF in, i, j, m, n, kept, changed
<1>7. kept \in Scripts /\ Reaches(kept, in.l, in.t)
  <2>1. /\ Keep(script, i) \in Scripts
        /\ Reaches(Keep(script, i), Current.l + i, Current.t + i)
    BY <1>2, <1>4, KeepLeads
  <2> QED
    BY <1>4, <2>1 DEF kept
<1>8. changed \in Scripts /\ Reaches(changed, in.r, in.b)
  <2>1. /\ Change(kept, m, n) \in Scripts
        /\ Reaches(Change(kept, m, n), in.l + m, in.t + n)
    BY <1>4, <1>7, ChangeLeads
  <2> QED
    BY <1>4, <2>1 DEF changed
<1>9. script' \in Scripts /\ Reaches(script', Current.r, Current.b)
  <2>1. /\ Keep(changed, j) \in Scripts
        /\ Reaches(Keep(changed, j), in.r + j, in.b + j)
    BY <1>2, <1>4, <1>8, KeepLeads
  <2> QED
    BY <1>1, <1>4, <2>1
<1>10. SearchInv'
  BY <1>1 DEF SearchInv
<1>11. /\ forward' \in [-(bounds.depth + 1) .. bounds.depth + 1 -> Int]
       /\ backward' \in [-(bounds.depth + 1) .. bounds.depth + 1 -> Int]
  BY <1>1, <1>2 DEF search
<1> QED
  BY <1>1, <1>2, <1>9, <1>10, <1>11, ScriptStays DEF Scripting

\* A box that needs a search, which begins with no position found.
LEMMA SolveSplitKeeps == DiffInvariant /\ SolveSplit => DiffInvariant'
<1> SUFFICES ASSUME DiffInvariant, SolveSplit PROVE DiffInvariant'
  OBVIOUS
<1> DEFINE in == Inner(Current)
           i == in.l - Current.l
           j == Current.r - in.r
           rest == Box(in.r, Current.r, in.b, Current.b)
           first == Task("search", in)
           last == Task("keep", rest)
<1>1. /\ stage = "script" /\ stage' = "forward" /\ todo # <<>>
      /\ todo' = <<first, last>> \o Tail(todo)
      /\ script' = Keep(script, i) /\ in.l # in.r /\ in.t # in.b
      /\ forward' = [forward EXCEPT ![1] = in.l]
      /\ backward' = [backward EXCEPT ![-1] = in.r]
      /\ level' = 0 /\ diagonal' = 0
      /\ UNCHANGED <<texts, hunking, applied>>
  BY DEF SolveSplit, Doing
<1>2. /\ Reaches(script, Current.l, Current.t) /\ InBox(Current)
      /\ Links(Tail(todo), Current.r, Current.b, Len(before), Len(after))
      /\ Tail(todo) \in Seq(Tasks)
      /\ Current.l \in Nat /\ Current.r \in Nat /\ Current.l <= Current.r
      /\ Current.t \in Nat /\ Current.b \in Nat
      /\ Current.r <= Len(before) /\ Current.b <= Len(after)
      /\ Len(before) \in Nat /\ Len(after) \in Nat
      /\ script \in Scripts /\ TextsOK /\ bounds.depth \in Nat
      /\ forward \in [-(bounds.depth + 1) .. bounds.depth + 1 -> Int]
      /\ backward \in [-(bounds.depth + 1) .. bounds.depth + 1 -> Int]
  BY <1>1, NextTask DEF Scripting
<1>3. /\ InBox(in)
      /\ in.l \in Nat /\ in.r \in Nat /\ in.t \in Nat /\ in.b \in Nat
      /\ in.l <= in.r /\ in.t <= in.b /\ in.r <= Current.r /\ in.b <= Current.b
      /\ in.l <= Len(before) /\ in.r <= Len(before)
      /\ in.t <= Len(after) /\ in.b <= Len(after)
      /\ i \in Nat /\ j \in Nat /\ j = Current.b - in.b
      /\ Current.l + i = in.l /\ Current.t + i = in.t
      /\ in.r + j = Current.r /\ in.b + j = Current.b
      /\ Same(Current.l, Current.t, i) /\ Same(in.r, in.b, j)
  <2>1. in = Inner(Current)
    OBVIOUS
  <2> HIDE DEF in
  <2> QED
    BY <1>2, <2>1, InnerMeasures, ZenonT(60)
<1>6. in.l < in.r /\ in.t < in.b
  BY <1>1, <1>3, SMTT(30)
<1>7. /\ rest.l = in.r /\ rest.r = Current.r /\ rest.t = in.b /\ rest.b = Current.b
      /\ first.op = "search" /\ first.box = in /\ last.op = "keep" /\ last.box = rest
  BY DEF Box, Task
<1>t. first \in Tasks /\ last \in Tasks
  <2>1. in \in [l : Nat, r : Nat, t : Nat, b : Nat]
    <3>1. in = Box(in.l, in.r, in.t, in.b)
      BY DEF Inner, Box
    <3> HIDE DEF in
    <3>2. Box(in.l, in.r, in.t, in.b) \in [l : Nat, r : Nat, t : Nat, b : Nat]
      BY <1>3 DEF Box
    <3> QED
      BY <3>1, <3>2
  <2>2. rest \in [l : Nat, r : Nat, t : Nat, b : Nat]
    <3> HIDE DEF in
    <3> QED
      BY <1>2, <1>3 DEF Box
  <2> HIDE DEF in, rest
  <2> QED
    BY <2>1, <2>2 DEF Task, Tasks
<1> HIDE DEF in, i, j, rest, first, last
<1>9. script' \in Scripts /\ Reaches(script', in.l, in.t)
  <2>1. /\ Keep(script, i) \in Scripts
        /\ Reaches(Keep(script, i), Current.l + i, Current.t + i)
    BY <1>2, <1>3, KeepLeads
  <2> QED
    BY <1>1, <1>3, <2>1
<1>10. TaskFits(first, in.l, in.t, in.r, in.b)
  BY <1>3, <1>7, <1>t DEF TaskFits
<1>11. TaskFits(last, in.r, in.b, Current.r, Current.b)
  <2>1. InBox(rest)
    BY <1>2, <1>3, <1>7 DEF InBox
  <2>2. Current.r - in.r = Current.b - in.b /\ Current.r - in.r = j
    BY <1>3 DEF j
  <2> QED
    BY <1>3, <1>7, <1>t, <2>1, <2>2 DEF TaskFits
<1>12. Links(todo', in.l, in.t, Len(before), Len(after))
  <2>1. Links(<<last>> \o Tail(todo), in.r, in.b, Len(before), Len(after))
    BY <1>2, <1>3, <1>11, LinksBefore
  <2>2. Links(<<first>> \o (<<last>> \o Tail(todo)), in.l, in.t, Len(before), Len(after))
    BY <1>3, <1>10, <2>1, LinksBefore
  <2>3. todo' = <<first>> \o (<<last>> \o Tail(todo))
    BY <1>1, <1>2, <1>t, Piles
  <2> QED
    BY <2>2, <2>3
<1>13. todo' # <<>> /\ Head(todo') = first
  <2>1. <<last>> \o Tail(todo) \in Seq(Tasks)
    BY <1>2, <1>t, Piles
  <2>2. todo' = <<first>> \o (<<last>> \o Tail(todo))
    BY <1>1, <1>2, <1>t, Piles
  <2> QED
    BY <1>t, <2>1, <2>2, Piles
<1>14. /\ forward' \in [-(bounds.depth + 1) .. bounds.depth + 1 -> Int]
       /\ backward' \in [-(bounds.depth + 1) .. bounds.depth + 1 -> Int]
       /\ forward'[1] = in.l /\ backward'[-1] = in.r
  <2>1. /\ 1 \in -(bounds.depth + 1) .. bounds.depth + 1
        /\ -1 \in -(bounds.depth + 1) .. bounds.depth + 1
    BY <1>2
  <2>2. in.l \in Int /\ in.r \in Int
    BY <1>3
  <2> QED
    BY <1>1, <1>2, <2>1, <2>2
<1>15. SearchInv'
  <2>1. Current' = in
    BY <1>7, <1>13 DEF Current
  <2>2. /\ FwdFull(in, forward', 0 - 1) /\ BwdFull(in, backward', 0 - 1)
        /\ FwdPart(in, forward', 0, 0)
    <3>1. \A k \in Diagonals(0) : ~(k < 0)
      BY NoDiagonals
    <3> QED
      BY <3>1, NoDiagonals DEF FwdFull, BwdFull, FwdPart
  <2>3. 0 \in Diagonals(0) /\ 0 \in 0 .. bounds.depth
    BY <1>2 DEF Diagonals
  <2>4. bounds' = bounds
    BY <1>1 DEF texts
  <2> QED
    BY <1>1, <1>6, <1>7, <1>13, <1>14, <2>1, <2>2, <2>3, <2>4 DEF SearchInv
<1> QED
  BY <1>1, <1>3, <1>9, <1>12, <1>14, <1>15, ScriptStays DEF Scripting

\* Both halves of a box and the snake in between.
LEMMA SplitKeeps ==
    ASSUME DiffInvariant, stage \in {"forward", "backward"}, todo # <<>>,
           NEW x \in Nat, NEW y \in Nat, NEW n \in Nat, NEW snake,
           snake = Box(x, x + n, y, y + n), Split(snake),
           Current.l <= x, x + n <= Current.r, Current.t <= y, y + n <= Current.b,
           Same(x, y, n),
           UNCHANGED <<texts, script, hunking, applied>>,
           forward' \in [-(bounds.depth + 1) .. bounds.depth + 1 -> Int],
           backward' \in [-(bounds.depth + 1) .. bounds.depth + 1 -> Int]
    PROVE  DiffInvariant'
<1> DEFINE u == x + n
           v == y + n
           head == Box(Current.l, x, Current.t, y)
           tail == Box(u, Current.r, v, Current.b)
           a == Task("solve", head)
           b == Task("keep", snake)
           c == Task("solve", tail)
<1>1. /\ snake.l = x /\ snake.r = u /\ snake.t = y /\ snake.b = v
      /\ head.l = Current.l /\ head.r = x /\ head.t = Current.t /\ head.b = y
      /\ tail.l = u /\ tail.r = Current.r /\ tail.t = v /\ tail.b = Current.b
      /\ a.op = "solve" /\ a.box = head /\ b.op = "keep" /\ b.box = snake
      /\ c.op = "solve" /\ c.box = tail
  BY DEF Box, Task
<1>2. /\ Reaches(script, Current.l, Current.t)
      /\ Links(Tail(todo), Current.r, Current.b, Len(before), Len(after))
      /\ Tail(todo) \in Seq(Tasks)
      /\ Current.l \in Nat /\ Current.r \in Nat /\ Current.t \in Nat /\ Current.b \in Nat
      /\ Current.r <= Len(before) /\ Current.b <= Len(after)
      /\ Len(before) \in Nat /\ Len(after) \in Nat /\ script \in Scripts
  BY NextTask DEF Scripting
<1>3. stage' = "script" /\ todo' = <<a, b, c>> \o Tail(todo)
  BY <1>1 DEF Split
<1>4. /\ u \in Nat /\ v \in Nat /\ u - x = n /\ v - y = n
      /\ x <= u /\ y <= v /\ u <= Current.r /\ v <= Current.b
  OBVIOUS
<1>5. /\ x <= Len(before) /\ u <= Len(before) /\ y <= Len(after) /\ v <= Len(after)
  BY <1>2, <1>4
<1>6. a \in Tasks /\ b \in Tasks /\ c \in Tasks
  <2>1. /\ head \in [l : Nat, r : Nat, t : Nat, b : Nat]
        /\ snake \in [l : Nat, r : Nat, t : Nat, b : Nat]
        /\ tail \in [l : Nat, r : Nat, t : Nat, b : Nat]
    <3> HIDE DEF u, v
    <3>1. snake = Box(x, u, y, v)
      BY DEF u, v
    <3> QED
      BY <1>2, <1>4, <3>1 DEF Box
  <2> HIDE DEF head, tail
  <2> QED
    BY <2>1 DEF Task, Tasks
<1> HIDE DEF u, v, head, tail, a, b, c
<1>7. TaskFits(a, Current.l, Current.t, x, y)
  <2>1. InBox(head)
    BY <1>1, <1>2, <1>5 DEF InBox
  <2> QED
    BY <1>1, <1>6, <2>1 DEF TaskFits
<1>8. TaskFits(b, x, y, u, v)
  <2>1. InBox(snake)
    BY <1>1, <1>2, <1>4, <1>5, SMTT(30) DEF InBox
  <2> QED
    BY <1>1, <1>4, <1>6, <2>1 DEF TaskFits
<1>9. TaskFits(c, u, v, Current.r, Current.b)
  <2>1. InBox(tail)
    BY <1>1, <1>2, <1>4 DEF InBox
  <2> QED
    BY <1>1, <1>6, <2>1 DEF TaskFits
<1>10. Links(todo', Current.l, Current.t, Len(before), Len(after))
  <2>1. Links(<<c>> \o Tail(todo), u, v, Len(before), Len(after))
    BY <1>2, <1>4, <1>9, LinksBefore
  <2>2. Links(<<b>> \o (<<c>> \o Tail(todo)), x, y, Len(before), Len(after))
    BY <1>8, <2>1, LinksBefore
  <2>3. Links(<<a>> \o (<<b>> \o (<<c>> \o Tail(todo))), Current.l, Current.t,
              Len(before), Len(after))
    BY <1>2, <1>7, <2>2, LinksBefore
  <2>4. todo' = <<a>> \o (<<b>> \o (<<c>> \o Tail(todo)))
    <3>1. Tail(todo) \in Seq(Tasks)
      BY <1>2
    <3>2. <<a, b, c>> \o Tail(todo) = <<a>> \o (<<b, c>> \o Tail(todo))
      BY <1>6, <3>1, ThreePiles, ZenonT(60)
    <3>3. <<b, c>> \o Tail(todo) = <<b>> \o (<<c>> \o Tail(todo))
      BY <1>6, <3>1, Piles
    <3> QED
      BY <1>3, <3>2, <3>3
  <2> QED
    BY <2>3, <2>4
<1>11. SearchInv'
  BY <1>3 DEF SearchInv
<1>12. script' \in Scripts /\ Reaches(script', Current.l, Current.t)
  BY <1>2
<1> QED
  BY <1>2, <1>3, <1>10, <1>11, <1>12, ScriptStays DEF Scripting

\* Where the search is, and what it has found.
LEMMA SearchFacts ==
    ASSUME DiffInvariant, stage \in {"forward", "backward"}
    PROVE  /\ todo # <<>> /\ Head(todo).op = "search"
           /\ Current.l \in Nat /\ Current.r \in Nat /\ Current.l < Current.r
           /\ Current.t \in Nat /\ Current.b \in Nat /\ Current.t < Current.b
           /\ level \in Nat /\ level <= bounds.depth /\ bounds.depth \in Nat
           /\ diagonal \in Diagonals(level) /\ diagonal \in Int
           /\ -level <= diagonal /\ diagonal <= level
           /\ forward \in [-(bounds.depth + 1) .. bounds.depth + 1 -> Int]
           /\ backward \in [-(bounds.depth + 1) .. bounds.depth + 1 -> Int]
           /\ Reaches(script, Current.l, Current.t)
           /\ Links(todo, Current.l, Current.t, Len(before), Len(after))
           /\ script \in Scripts
<1>1. /\ todo # <<>> /\ Head(todo).op = "search"
      /\ Current.l < Current.r /\ Current.t < Current.b
      /\ level \in 0 .. bounds.depth /\ diagonal \in Diagonals(level)
  BY DEF DiffInvariant, SearchInv
<1>2. /\ Current.l \in Nat /\ Current.r \in Nat /\ Current.t \in Nat /\ Current.b \in Nat
      /\ bounds.depth \in Nat /\ script \in Scripts
      /\ forward \in [-(bounds.depth + 1) .. bounds.depth + 1 -> Int]
      /\ backward \in [-(bounds.depth + 1) .. bounds.depth + 1 -> Int]
      /\ Reaches(script, Current.l, Current.t)
  BY <1>1, NextTask DEF Scripting
<1>3. level \in Nat /\ level <= bounds.depth
  BY <1>1, <1>2
<1>4. diagonal \in Int /\ -level <= diagonal /\ diagonal <= level
  BY <1>1, <1>3, DiagonalFacts
<1>5. Links(todo, Current.l, Current.t, Len(before), Len(after))
  <2>1. PICK x \in Nat, y \in Nat : Links(todo, x, y, Len(before), Len(after))
    BY DEF DiffInvariant, Searched, Scripting
  <2>2. x = Current.l /\ y = Current.t
    BY <1>1, <2>1, LinksOn DEF TaskFits, Current
  <2> QED
    BY <2>1, <2>2
<1> QED
  BY <1>1, <1>2, <1>3, <1>4, <1>5

\* The search goes on in the same box.
LEMMA SearchStays ==
    ASSUME DiffInvariant, stage \in {"forward", "backward"},
           stage' \in {"forward", "backward"}, SearchInv',
           UNCHANGED <<texts, todo, script, hunking, applied>>,
           forward' \in [-(bounds.depth + 1) .. bounds.depth + 1 -> Int],
           backward' \in [-(bounds.depth + 1) .. bounds.depth + 1 -> Int]
    PROVE  DiffInvariant'
<1>1. /\ Current.l \in Nat /\ Current.t \in Nat /\ script' \in Scripts
      /\ Reaches(script', Current.l, Current.t)
      /\ Links(todo', Current.l, Current.t, Len(before), Len(after))
  BY SearchFacts
<1> QED
  BY <1>1, ScriptStays DEF Scripting

\* A position found is kept in the array, and the others stay.
LEMMA ArrayFacts ==
    ASSUME NEW D \in Nat, NEW f \in [-(D + 1) .. D + 1 -> Int],
           NEW d \in Nat, d <= D, NEW k \in Diagonals(d), NEW x \in Int,
           NEW h, h = [f EXCEPT ![k] = x]
    PROVE  /\ h \in [-(D + 1) .. D + 1 -> Int] /\ h[k] = x
           /\ \A i \in Diagonals(d) \cup Diagonals(d - 1) : i # k => h[i] = f[i]
           /\ f[k - 1] \in Int /\ f[k + 1] \in Int
<1>1. k \in Int /\ -d <= k /\ k <= d
  BY DiagonalFacts
<1>2. /\ k \in -(D + 1) .. D + 1 /\ k - 1 \in -(D + 1) .. D + 1
      /\ k + 1 \in -(D + 1) .. D + 1
  BY <1>1
<1>3. \A i \in Diagonals(d) \cup Diagonals(d - 1) : i \in -(D + 1) .. D + 1
  <2>1. ASSUME NEW i \in Diagonals(d) PROVE i \in -(D + 1) .. D + 1
    <3>1. i \in Int /\ -d <= i /\ i <= d
      BY DiagonalFacts
    <3> QED
      BY <3>1
  <2>2. ASSUME NEW e \in Int, e = d - 1, NEW i \in Diagonals(e) PROVE i \in -(D + 1) .. D + 1
    <3>1. i \in Int /\ -e <= i /\ i <= e
      BY DiagonalFacts
    <3> QED
      BY <2>2, <3>1
  <2>3. d - 1 \in Int
    OBVIOUS
  <2> QED
    BY <2>1, <2>2, <2>3
<1> QED
  BY <1>2, <1>3

\* A step from the start, whether it meets the other search or not.
LEMMA StepForwardKeeps == DiffInvariant /\ StepForward => DiffInvariant'
<1> SUFFICES ASSUME DiffInvariant, StepForward PROVE DiffInvariant'
  OBVIOUS
<1> DEFINE box == Current
           d == level
           k == diagonal
           x == ForwardX
           y == Row(box, x, k)
           n == Run(box, x, y)
<1>1. /\ stage = "forward" /\ forward' = [forward EXCEPT ![k] = x + n]
      /\ UNCHANGED <<texts, level, backward, script, hunking, applied>>
      /\ IF ForwardMeets
           THEN Split(Box(x, x + n, y, y + n))
           ELSE /\ stage' = IF k = d THEN "backward" ELSE "forward"
                /\ diagonal' = IF k = d THEN -d ELSE k + 2
                /\ UNCHANGED todo
  BY DEF StepForward, ForwardRun, ForwardY
<1>2. /\ todo # <<>> /\ Head(todo).op = "search"
      /\ box.l \in Nat /\ box.r \in Nat /\ box.l < box.r
      /\ box.t \in Nat /\ box.b \in Nat /\ box.t < box.b
      /\ d \in Nat /\ d <= bounds.depth /\ bounds.depth \in Nat
      /\ k \in Diagonals(d) /\ k \in Int /\ -d <= k /\ k <= d
      /\ forward \in [-(bounds.depth + 1) .. bounds.depth + 1 -> Int]
      /\ backward \in [-(bounds.depth + 1) .. bounds.depth + 1 -> Int]
  BY <1>1, SearchFacts
<1>3. /\ d = 0 => forward[1] = box.l /\ backward[-1] = box.r
      /\ FwdFull(box, forward, d - 1) /\ BwdFull(box, backward, d - 1)
      /\ FwdPart(box, forward, d, k)
  BY <1>1 DEF DiffInvariant, SearchInv
<1>4. x = IF k = -d \/ (k # d /\ forward[k - 1] < forward[k + 1])
            THEN forward[k + 1] ELSE forward[k - 1] + 1
  BY DEF ForwardX
<1> DEFINE meets == /\ Odd(Delta(box)) /\ k - Delta(box) > -d /\ k - Delta(box) < d
                    /\ x + n >= backward[k - Delta(box)]
<1>5. ForwardMeets <=> meets
  BY DEF ForwardMeets, ForwardRun, ForwardY
<1>6. /\ box.l \in Int /\ box.r \in Int /\ box.t \in Int /\ box.b \in Int
      /\ box.l <= box.r /\ box.t <= box.b
  BY <1>2
<1> HIDE DEF box, d, k, x, y, n, meets
<1>7. x \in box.l .. box.r + d /\ y \in box.t .. box.b + d
  BY <1>2, <1>3, <1>4, <1>6, ForwardStep DEF y
<1>8. x \in Nat /\ y \in Nat /\ box.l <= x /\ box.t <= y
  BY <1>2, <1>7
<1>9. /\ n \in Nat /\ Same(x, y, n)
      /\ n > 0 => x + n <= box.r /\ y + n <= box.b
  BY <1>6, <1>8, RunFacts DEF n
<1>10. /\ forward' \in [-(bounds.depth + 1) .. bounds.depth + 1 -> Int]
       /\ forward'[k] = x + n
       /\ \A i \in Diagonals(d) \cup Diagonals(d - 1) : i # k => forward'[i] = forward[i]
  <2>1. x + n \in Int
    BY <1>8, <1>9
  <2> QED
    BY <1>1, <1>2, <2>1, ArrayFacts
<1>11. backward' \in [-(bounds.depth + 1) .. bounds.depth + 1 -> Int]
  BY <1>1, <1>2
<1>12. CASE meets
  <2>1. x <= box.r /\ y <= box.b
    BY <1>2, <1>3, <1>4, <1>6, <1>12, ForwardMeetsInside DEF y, meets
  <2>2. x + n <= box.r /\ y + n <= box.b
    <3>1. n = 0 \/ n > 0
      BY <1>9
    <3> QED
      BY <1>6, <1>8, <1>9, <2>1, <3>1
  <2>3. Split(Box(x, x + n, y, y + n))
    BY <1>1, <1>5, <1>12
  <2> QED
    BY <1>1, <1>2, <1>8, <1>9, <1>10, <1>11, <2>2, <2>3, SplitKeeps DEF box
<1>13. CASE ~meets
  <2>1. FwdFull(box, forward', d - 1) /\ FwdPart(box, forward', d, k + 2)
    <3>1. n > 0 => x + n <= box.r /\ Row(box, x, k) + n <= box.b
      BY <1>9 DEF y
    <3>2. Odd(Delta(box)) /\ k - Delta(box) > -d /\ k - Delta(box) < d
               => x + n < backward[k - Delta(box)]
      <4> SUFFICES ASSUME Odd(Delta(box)), k - Delta(box) > -d, k - Delta(box) < d
                   PROVE  x + n < backward[k - Delta(box)]
        OBVIOUS
      <4>1. k - Delta(box) \in -(bounds.depth + 1) .. bounds.depth + 1
        <5>1. Delta(box) \in Int
          BY <1>6 DEF Delta
        <5> QED
          BY <1>2, <5>1
      <4>2. backward[k - Delta(box)] \in Int
        BY <1>2, <4>1
      <4>3. x + n \in Int
        BY <1>8, <1>9
      <4>4. ~(x + n >= backward[k - Delta(box)])
        BY <1>13 DEF meets
      <4> QED
        BY <4>2, <4>3, <4>4
    <3>3. d = 0 => forward[1] = box.l
      BY <1>3
    <3> QED
      BY <1>2, <1>3, <1>4, <1>6, <1>9, <1>10, <3>1, <3>2, <3>3, ForwardPart, ZenonT(60)
  <2>2. /\ UNCHANGED todo /\ stage' = (IF k = d THEN "backward" ELSE "forward")
        /\ diagonal' = (IF k = d THEN -d ELSE k + 2)
    BY <1>1, <1>5, <1>13
  <2>3. Current' = box /\ bounds' = bounds /\ level' = d
    BY <1>1, <2>2 DEF Current, box, d, texts
  <2>4. level' \in 0 .. bounds'.depth
    BY <1>2, <2>3
  <2>5. CASE k = d
    <3>1. FwdPart(box, forward', d, d + 2)
      BY <2>1, <2>5
    <3>2. FwdFull(box, forward', d)
      BY <1>2, <1>6, <2>1, <3>1, ForwardFull
    <3>3. BwdPart(box, backward', d, -d)
      <4>1. \A c \in Diagonals(d) : ~(c < -d)
        BY <1>2, DiagonalFacts
      <4> QED
        BY <4>1 DEF BwdPart
    <3>4. -d \in Diagonals(d)
      BY <1>2, DiagonalFacts
    <3>5. SearchInv'
      BY <1>1, <1>2, <1>3, <2>2, <2>3, <2>4, <2>5, <3>2, <3>3, <3>4 DEF SearchInv
    <3> QED
      BY <1>1, <1>10, <1>11, <2>2, <2>5, <3>5, SearchStays
  <2>6. CASE k # d
    <3>1. k + 2 \in Diagonals(d)
      BY <1>2, <2>6, DiagonalFacts
    <3>2. d # 0
      BY <1>2, <2>6
    <3>3. SearchInv'
      BY <1>1, <1>2, <1>3, <2>1, <2>2, <2>3, <2>4, <2>6, <3>1, <3>2 DEF SearchInv
    <3> QED
      BY <1>1, <1>10, <1>11, <2>2, <2>6, <3>3, SearchStays
  <2> QED
    BY <2>5, <2>6
<1> QED
  BY <1>12, <1>13

\* A step from the end, whether it meets the other search, is the last one
\* the bound allows, or neither.
LEMMA StepBackwardKeeps == DiffInvariant /\ StepBackward => DiffInvariant'
<1> SUFFICES ASSUME DiffInvariant, StepBackward PROVE DiffInvariant'
  OBVIOUS
<1> DEFINE box == Current
           d == level
           k == diagonal
           x == BackwardX
           y == Row(box, x, k + Delta(box))
           n == RunBack(box, x, y)
           j == k + Delta(box)
           meets == ~Odd(Delta(box)) /\ j >= -d /\ j <= d /\ x - n <= forward[j]
<1>1. /\ stage = "backward" /\ backward' = [backward EXCEPT ![k] = x - n]
      /\ UNCHANGED <<texts, forward, script, applied>>
  BY DEF StepBackward, BackwardRun, BackwardY
<1>s. \/ meets /\ Split(Box(x - n, x, y - n, y)) /\ UNCHANGED <<level, diagonal, hunking>>
      \/ ~meets /\ k < d /\ diagonal' = k + 2 /\ UNCHANGED <<stage, todo, level, hunking>>
      \/ /\ ~meets /\ k = d /\ d < bounds.depth
         /\ stage' = "forward" /\ level' = d + 1 /\ diagonal' = -(d + 1)
         /\ UNCHANGED <<todo, hunking>>
      \/ ~meets /\ k = d /\ d = bounds.depth /\ ShowWhole
  BY DEF StepBackward, BackwardMeets, BackwardRun, BackwardY
<1>2. /\ todo # <<>> /\ Head(todo).op = "search"
      /\ box.l \in Nat /\ box.r \in Nat /\ box.l < box.r
      /\ box.t \in Nat /\ box.b \in Nat /\ box.t < box.b
      /\ d \in Nat /\ d <= bounds.depth /\ bounds.depth \in Nat
      /\ k \in Diagonals(d) /\ k \in Int /\ -d <= k /\ k <= d
      /\ forward \in [-(bounds.depth + 1) .. bounds.depth + 1 -> Int]
      /\ backward \in [-(bounds.depth + 1) .. bounds.depth + 1 -> Int]
  BY <1>1, SearchFacts
<1>3. /\ d = 0 => backward[-1] = box.r
      /\ FwdFull(box, forward, d) /\ BwdFull(box, backward, d - 1)
      /\ BwdPart(box, backward, d, k)
  BY <1>1 DEF DiffInvariant, SearchInv
<1>4. x = IF k = d \/ (k # -d /\ backward[k - 1] < backward[k + 1])
            THEN backward[k - 1] ELSE backward[k + 1] - 1
  BY DEF BackwardX
<1>6. /\ box.l \in Int /\ box.r \in Int /\ box.t \in Int /\ box.b \in Int
      /\ box.l <= box.r /\ box.t <= box.b
  BY <1>2
<1> HIDE DEF box, d, k, x, y, n, j, meets
<1>7. x \in box.l - d .. box.r /\ y \in box.t - d .. box.b
  BY <1>2, <1>3, <1>4, <1>6, BackwardStep DEF y
<1>8. x \in Int /\ y \in Int /\ x <= box.r /\ y <= box.b
  BY <1>2, <1>7
<1>9. /\ n \in Nat /\ Same(x - n, y - n, n)
      /\ n > 0 => x - n >= box.l /\ y - n >= box.t
  BY <1>6, <1>8, RunBackFacts DEF n
<1>10. /\ backward' \in [-(bounds.depth + 1) .. bounds.depth + 1 -> Int]
       /\ backward'[k] = x - n
       /\ \A i \in Diagonals(d) \cup Diagonals(d - 1) : i # k => backward'[i] = backward[i]
  <2>1. x - n \in Int
    BY <1>8, <1>9
  <2> QED
    BY <1>1, <1>2, <2>1, ArrayFacts
<1>11. forward' \in [-(bounds.depth + 1) .. bounds.depth + 1 -> Int]
  BY <1>1, <1>2
<1>12. CASE meets /\ Split(Box(x - n, x, y - n, y)) /\ UNCHANGED <<level, diagonal, hunking>>
  <2>1. x >= box.l /\ y >= box.t
    BY <1>2, <1>3, <1>4, <1>6, <1>12, BackwardMeetsInside DEF y, j, meets
  <2>2. x - n >= box.l /\ y - n >= box.t
    <3>1. n = 0 \/ n > 0
      BY <1>9
    <3> QED
      BY <1>6, <1>8, <1>9, <2>1, <3>1
  <2>3. /\ x - n \in Nat /\ y - n \in Nat /\ (x - n) + n = x /\ (y - n) + n = y
        /\ box.l <= x - n /\ box.t <= y - n
    BY <1>2, <1>8, <1>9, <2>2, SMTT(30)
  <2>4. Box(x - n, x, y - n, y) = Box(x - n, (x - n) + n, y - n, (y - n) + n)
    BY <2>3
  <2> QED
    BY <1>1, <1>2, <1>8, <1>9, <1>10, <1>11, <1>12, <2>3, <2>4, SplitKeeps DEF box
<1>13. CASE ~meets
  <2>1. BwdFull(box, backward', d - 1) /\ BwdPart(box, backward', d, k + 2)
    <3>1. n > 0 => x - n >= box.l /\ Row(box, x, k + Delta(box)) - n >= box.t
      BY <1>9 DEF y
    <3>2. ~Odd(Delta(box)) /\ k + Delta(box) >= -d /\ k + Delta(box) <= d
               => x - n > forward[k + Delta(box)]
      <4> SUFFICES ASSUME ~Odd(Delta(box)), j >= -d, j <= d
                   PROVE  x - n > forward[j]
        BY DEF j
      <4>1. j \in -(bounds.depth + 1) .. bounds.depth + 1
        <5>1. Delta(box) \in Int
          BY <1>6 DEF Delta
        <5>2. j \in Int
          BY <1>2, <5>1 DEF j
        <5> QED
          BY <1>2, <5>2
      <4>2. forward[j] \in Int
        BY <1>2, <4>1
      <4>3. x - n \in Int
        BY <1>8, <1>9
      <4>4. ~(x - n <= forward[j])
        BY <1>13 DEF meets
      <4> QED
        BY <4>2, <4>3, <4>4
    <3> QED
      BY <1>2, <1>3, <1>4, <1>6, <1>9, <1>10, <3>1, <3>2, BackwardPart, ZenonT(60)
  <2>2. bounds' = bounds
    BY <1>1 DEF texts
  <2>3. CASE k < d /\ diagonal' = k + 2 /\ UNCHANGED <<stage, todo, level, hunking>>
    <3>1. Current' = box /\ level' = d /\ level' \in 0 .. bounds'.depth
      BY <1>2, <2>2, <2>3 DEF Current, box, d
    <3>2. k + 2 \in Diagonals(d) /\ d # 0
      BY <1>2, <2>3, DiagonalFacts
    <3>3. SearchInv'
      BY <1>1, <1>2, <1>3, <2>1, <2>3, <3>1, <3>2 DEF SearchInv
    <3> QED
      BY <1>1, <1>10, <1>11, <2>3, <3>3, SearchStays
  <2>4. CASE /\ k = d /\ d < bounds.depth
             /\ stage' = "forward" /\ level' = d + 1 /\ diagonal' = -(d + 1)
             /\ UNCHANGED <<todo, hunking>>
    <3>1. BwdPart(box, backward', d, d + 2)
      BY <2>1, <2>4
    <3>2. BwdFull(box, backward', d)
      BY <1>2, <1>6, <2>1, <3>1, BackwardFull
    <3> DEFINE e == d + 1
    <3>3. e \in Nat /\ e - 1 = d /\ e # 0 /\ e \in 0 .. bounds'.depth
      BY <1>2, <2>2, <2>4
    <3> HIDE DEF e
    <3>4. -e \in Diagonals(e) /\ \A i \in Diagonals(e) : ~(i < -e)
      BY <3>3, DiagonalFacts
    <3>5. FwdPart(box, forward', e, -e)
      BY <3>4 DEF FwdPart
    <3>6. Current' = box /\ level' = e /\ diagonal' = -e /\ forward' = forward
      BY <1>1, <2>4 DEF Current, box, e
    <3>7. SearchInv'
      BY <1>2, <1>3, <2>4, <3>2, <3>3, <3>4, <3>5, <3>6 DEF SearchInv
    <3> QED
      BY <1>1, <1>10, <1>11, <2>4, <3>7, SearchStays
  <2>5. CASE ShowWhole
    <3>1. DiffTypes /\ Untouched /\ stage \in Scripting
      BY <1>1 DEF DiffInvariant, Scripting
    <3>2. /\ shown' \in [hunks : Seq(DiffHunk), replaced : BOOLEAN]
          /\ AtHunk(shown'.hunks, applied')
      BY <1>1, <2>5, <3>1, ShowWholeFits
    <3>3. applied' \in Applied /\ stage' = "apply"
      BY <1>1, <2>5, <3>1 DEF DiffTypes, ShowWhole
    <3> QED
      BY <1>1, <1>10, <1>11, <3>2, <3>3, ShownStays
  <2> QED
    BY <1>s, <1>13, <2>3, <2>4, <2>5
<1> QED
  BY <1>s, <1>12, <1>13

\* The script is whole: it leads from the beginning of both texts to their end.
LEMMA ScriptedKeeps == DiffInvariant /\ Scripted => DiffInvariant'
<1> SUFFICES ASSUME DiffInvariant, Scripted PROVE DiffInvariant'
  OBVIOUS
<1>1. /\ stage = "script" /\ todo = <<>> /\ stage' = "hunks"
      /\ script' = [script EXCEPT !.steps = Append(script.steps, script.open)]
      /\ UNCHANGED <<texts, todo, search, hunking, applied>>
  BY DEF Scripted
<1>2. PICK x \in Nat, y \in Nat : Reaches(script, x, y) /\ Links(todo, x, y, Len(before), Len(after))
  BY <1>1 DEF DiffInvariant, Searched, Scripting
<1>3. DiffTypes /\ Untouched /\ TextsOK /\ script \in Scripts
  BY DEF DiffInvariant, DiffTypes
<1>4. x = Len(before) /\ y = Len(after)
  BY <1>1, <1>2, LinksTypes
<1>5. PICK u \in Nat, v \in Nat : Leads(script.steps, 0, 0, u, v) /\ Fits(script.open, u, v, x, y)
  BY <1>2 DEF Reaches
<1>6. script.steps \in Seq(EditStep) /\ script.open \in EditStep
  BY <1>3 DEF Scripts
<1>7. Leads(Append(script.steps, script.open), 0, 0, x, y)
  BY <1>5, <1>6, LeadsFurther
<1>8. /\ script'.steps = Append(script.steps, script.open) /\ script' \in Scripts
  <2>1. Append(script.steps, script.open) \in Seq(EditStep)
    BY <1>6
  <2> QED
    BY <1>1, <1>3, <2>1 DEF Scripts
<1>9. TextsOK' /\ bounds' = bounds /\ Len(before)' = Len(before) /\ Len(after)' = Len(after)
  BY <1>1, <1>3, TextsStay
<1>10. oldAt = 0 /\ newAt = 0 /\ draft = Nil /\ shown.hunks = <<>> /\ applied = NoneApplied
  BY <1>1, <1>3 DEF Untouched, Scripting
<1>11. DiffTypes'
  BY <1>1, <1>3, <1>8, <1>9 DEF DiffTypes, search, hunking
<1>12. Untouched' /\ Searched' /\ SearchInv' /\ Applying'
  BY <1>1, <1>10 DEF Untouched, Searched, SearchInv, Applying, Scripting
<1>13. Hunked'
  <2>1. Leads(script.steps, oldAt, newAt, Len(before), Len(after))'
    BY <1>1, <1>4, <1>7, <1>8, <1>9, <1>10, PlacesStay DEF hunking
  <2>2. Drafted(oldAt, newAt)'
    BY <1>1, <1>3, <1>10, NoHunks, HunksStay DEF Drafted, hunking
  <2> QED
    BY <2>1, <2>2 DEF Hunked
<1> QED
  BY <1>11, <1>12, <1>13 DEF DiffInvariant

-----------------------------------------------------------------------------
(* The steps of hunksOf.                                                   *)

\* A part of equal lines is equal.
LEMMA SamePart ==
    ASSUME NEW x \in Nat, NEW y \in Nat, NEW n \in Nat, Same(x, y, n),
           NEW i \in Nat, NEW m \in Nat, i + m <= n
    PROVE  Same(x + i, y + i, m)
<1> SUFFICES ASSUME NEW j \in 1 .. m PROVE before[(x + i) + j] = after[(y + i) + j]
  BY DEF Same
<1>1. i + j \in 1 .. n /\ (x + i) + j = x + (i + j) /\ (y + i) + j = y + (i + j)
  OBVIOUS
<1> QED
  BY <1>1 DEF Same

\* Part of the lines a step keeps.
LEMMA KeptGap ==
    ASSUME NEW x \in Nat, NEW y \in Nat, NEW n \in Nat, Same(x, y, n),
           NEW i \in Nat, NEW j \in Nat, i <= j, j <= n,
           x + j <= Len(before), y + j <= Len(after)
    PROVE  Gap(x + i, y + i, x + j, y + j)
<1>1. PICK m \in Nat : i + m = j
  <2>1. j - i \in Nat /\ i + (j - i) = j
    OBVIOUS
  <2> QED
    BY <2>1
<1>2. Same(x + i, y + i, m)
  BY <1>1, SamePart
<1>3. /\ x + i \in Nat /\ y + i \in Nat /\ x + j \in Nat /\ y + j \in Nat
      /\ x + i <= x + j /\ (x + j) - (x + i) = m /\ (y + j) - (y + i) = m
  BY <1>1
<1> QED
  BY <1>2, <1>3 DEF Gap

\* The step of the script that is next, and the place it leads to.
LEMMA FirstFacts ==
    ASSUME DiffInvariant, stage = "hunks", script.steps # <<>>
    PROVE  /\ First \in EditStep
           /\ First.equal \in Nat /\ First.removed \in Nat /\ First.added \in Nat
           /\ oldAt \in Nat /\ newAt \in Nat /\ OldTo \in Nat /\ NewTo \in Nat
           /\ OldTo + First.removed <= Len(before) /\ NewTo + First.added <= Len(after)
           /\ OldTo <= Len(before) /\ NewTo <= Len(after)
           /\ Same(oldAt, newAt, First.equal)
           /\ Leads(Tail(script.steps), OldTo + First.removed, NewTo + First.added,
                    Len(before), Len(after))
           /\ ~Changes => First.removed = 0 /\ First.added = 0
           /\ Lead \in Nat /\ Lead <= First.equal
           /\ First.equal > 2 * Context => 2 * Lead <= First.equal
<1>1. /\ script.steps \in Seq(EditStep) /\ TextsOK
      /\ Leads(script.steps, oldAt, newAt, Len(before), Len(after))
  BY DEF DiffInvariant, DiffTypes, Hunked, Scripts
<1>2. First \in EditStep /\ oldAt \in Nat /\ newAt \in Nat
  BY <1>1, LeadsTypes DEF First
<1>3. First.equal \in Nat /\ First.removed \in Nat /\ First.added \in Nat
  BY <1>2 DEF EditStep
<1>4. OldTo = oldAt + First.equal /\ NewTo = newAt + First.equal
  BY DEF OldTo, NewTo
<1>5. OldTo \in Nat /\ NewTo \in Nat
  BY <1>2, <1>3, <1>4
<1>6. /\ Fits(First, oldAt, newAt, OldTo + First.removed, NewTo + First.added)
      /\ Leads(Tail(script.steps), OldTo + First.removed, NewTo + First.added,
               Len(before), Len(after))
  BY <1>1, <1>2, <1>4, LeadsOn DEF First
<1>7. /\ OldTo + First.removed <= Len(before) /\ NewTo + First.added <= Len(after)
      /\ Same(oldAt, newAt, First.equal)
  BY <1>6 DEF Fits
<1>8. OldTo <= Len(before) /\ NewTo <= Len(after)
  <2>1. PICK p \in Nat, q \in Nat : p = Len(before) /\ q = Len(after)
    BY <1>1 DEF TextsOK
  <2> QED
    BY <1>3, <1>5, <1>7, <2>1
<1>9. ~Changes => First.removed = 0 /\ First.added = 0
  BY <1>3 DEF Changes
<1>10. Lead \in {First.equal, Context} /\ Lead <= First.equal /\ Lead <= Context
  <2>1. First.equal \in Nat /\ Context \in Nat
    BY <1>3, DiffAssumption
  <2> DEFINE S == {First.equal, Context}
             m == IF First.equal <= Context THEN First.equal ELSE Context
  <2>2. m \in S /\ \A s \in S : m <= s
    BY <2>1
  <2> HIDE DEF m
  <2>3. Min(S) \in S /\ \A s \in S : Min(S) <= s
    <3> HIDE DEF S
    <3> QED
      BY <2>2 DEF Min
  <2> QED
    BY <2>3 DEF Lead
<1>11. Lead \in Nat /\ Lead <= First.equal /\ (First.equal > 2 * Context => 2 * Lead <= First.equal)
  <2>1. PICK c \in Nat : c = Context
    BY DiffAssumption
  <2>2. PICK l \in Nat : l = Lead
    BY <1>3, <1>10, <2>1
  <2> QED
    BY <1>3, <1>10, <2>1, <2>2
<1> QED
  BY <1>2, <1>3, <1>5, <1>6, <1>7, <1>8, <1>9, <1>11

\* A step of the script is in the hunks.
LEMMA HunkStepKeeps ==
    ASSUME DiffInvariant, NEW open, HunkStep(open),
           shown' \in [hunks : Seq(DiffHunk), replaced : BOOLEAN],
           NEW x \in Nat, NEW y \in Nat, HunksFit(shown'.hunks, x, y),
           Changes => HunkFits(open, x, y, OldTo, NewTo),
           ~Changes => x = OldTo /\ y = NewTo
    PROVE  DiffInvariant'
<1> DEFINE u == OldTo + First.removed
           v == NewTo + First.added
<1>1. /\ stage = "hunks" /\ script.steps # <<>>
      /\ draft' = (IF Changes THEN WithChange(open) ELSE Nil)
      /\ oldAt' = u /\ newAt' = v
      /\ script' = [script EXCEPT !.steps = Tail(script.steps)]
      /\ UNCHANGED <<texts, stage, todo, search, applied>>
  BY DEF HunkStep
<1>2. /\ First.removed \in Nat /\ First.added \in Nat /\ OldTo \in Nat /\ NewTo \in Nat
      /\ u <= Len(before) /\ v <= Len(after)
      /\ Leads(Tail(script.steps), u, v, Len(before), Len(after))
      /\ ~Changes => First.removed = 0 /\ First.added = 0
  BY <1>1, FirstFacts
<1>3. DiffTypes /\ TextsOK /\ script \in Scripts /\ applied = NoneApplied
  BY <1>1 DEF DiffInvariant, DiffTypes, Untouched
<1> HIDE DEF u, v
<1>4. script'.steps = Tail(script.steps) /\ script' \in Scripts
  <2>1. Tail(script.steps) \in Seq(EditStep)
    BY <1>1, <1>3 DEF Scripts
  <2> QED
    BY <1>1, <1>3, <2>1 DEF Scripts
<1>5. TextsOK' /\ bounds' = bounds /\ Len(before)' = Len(before) /\ Len(after)' = Len(after)
  BY <1>1, <1>3, TextsStay
<1>6. DiffTypes'
  BY <1>1, <1>3, <1>4, <1>5 DEF DiffTypes, search
<1>7. Untouched' /\ Searched' /\ SearchInv' /\ Applying'
  BY <1>1, <1>3 DEF Untouched, Searched, SearchInv, Applying, Scripting
<1>8. Leads(script.steps, oldAt, newAt, Len(before), Len(after))'
  BY <1>1, <1>2, <1>4, <1>5, PlacesStay
<1>9. CASE Changes
  <2>1. HunkFits(WithChange(open), x, y, u, v)
    BY <1>2, <1>3, <1>9, ChangedFits DEF WithChange, u, v
  <2>2. draft' = WithChange(open) /\ draft' # Nil
    BY <1>1, <1>9, <2>1, DiffAssumption DEF HunkFits
  <2>3. HunksFit(shown.hunks, x, y)' /\ HunkFits(draft, x, y, oldAt, newAt)'
    BY <1>1, <2>1, <2>2, HunksStay
  <2>4. Drafted(oldAt, newAt)'
    BY <2>2, <2>3 DEF Drafted
  <2> QED
    BY <1>6, <1>7, <1>8, <2>4 DEF DiffInvariant, Hunked
<1>10. CASE ~Changes
  <2>1. draft' = Nil /\ u = x /\ v = y
    BY <1>1, <1>2, <1>10 DEF u, v
  <2>2. HunksFit(shown.hunks, oldAt, newAt)'
    BY <1>1, <2>1, HunksStay
  <2>3. Drafted(oldAt, newAt)'
    BY <2>1, <2>2 DEF Drafted
  <2> QED
    BY <1>6, <1>7, <1>8, <2>3 DEF DiffInvariant, Hunked
<1> QED
  BY <1>9, <1>10

\* A hunk that begins with its context begins where the one before it ends,
\* or after lines that stay.
LEMMA OpenedFits ==
    ASSUME DiffInvariant, stage = "hunks", script.steps # <<>>
    PROVE  /\ OldTo - Lead \in Nat /\ NewTo - Lead \in Nat
           /\ HunkFits(Opened, OldTo - Lead, NewTo - Lead, OldTo, NewTo)
<1> DEFINE x == OldTo - Lead
           y == NewTo - Lead
<1>1. /\ First.equal \in Nat /\ oldAt \in Nat /\ newAt \in Nat
      /\ OldTo \in Nat /\ NewTo \in Nat
      /\ OldTo <= Len(before) /\ NewTo <= Len(after)
      /\ Same(oldAt, newAt, First.equal) /\ Lead \in Nat /\ Lead <= First.equal
  BY FirstFacts
<1>2. OldTo = oldAt + First.equal /\ NewTo = newAt + First.equal /\ TextsOK
  BY DEF OldTo, NewTo, DiffInvariant, DiffTypes
<1>3. PICK i \in Nat : i + Lead = First.equal
  <2>1. First.equal - Lead \in Nat /\ (First.equal - Lead) + Lead = First.equal
    BY <1>1
  <2> QED
    BY <2>1
<1>4. /\ x = oldAt + i /\ y = newAt + i /\ x \in Nat /\ y \in Nat
      /\ x + Lead = OldTo /\ y + Lead = NewTo
  <2>1. oldAt \in Nat /\ newAt \in Nat /\ Lead \in Nat
    BY <1>1
  <2>2. OldTo = (oldAt + i) + Lead /\ NewTo = (newAt + i) + Lead
    BY <1>2, <1>3, <2>1
  <2> QED
    BY <2>1, <2>2
<1>5. Same(x, y, Lead)
  <2>1. i + Lead <= First.equal
    BY <1>1, <1>3
  <2> HIDE DEF x, y
  <2> QED
    BY <1>1, <1>4, <2>1, SamePart
<1> HIDE DEF x, y
<1>6. x <= Len(before) /\ y <= Len(after)
  <2>1. PICK p \in Nat, q \in Nat : p = Len(before) /\ q = Len(after)
    BY <1>2 DEF TextsOK
  <2>2. x <= p /\ y <= q
    BY <1>1, <1>4, <2>1
  <2> QED
    BY <2>1, <2>2
<1>7. HunkFits(DraftAt(x + 1, y + 1), x, y, x, y)
  BY <1>4, <1>6, DraftFits
<1>8. HunkFits(Grown(DraftAt(x + 1, y + 1), "context", before, x, Lead), x, y, OldTo, NewTo)
  BY <1>1, <1>2, <1>4, <1>5, <1>7, GrownFits, ZenonT(60)
<1> QED
  BY <1>4, <1>8 DEF Opened, x, y

\* A part of lines within both texts is within them too.
LEMMA PartWithin ==
  ASSUME NEW a \in Nat, NEW b \in Nat, NEW e \in Nat, NEW i \in Nat,
         NEW m \in Nat, NEW n \in Nat, i <= e, a + e <= m, b + e <= n
  PROVE a + i <= m /\ b + i <= n
  OBVIOUS

\* A hunk opens.
LEMMA HunkOpensKeeps == DiffInvariant /\ HunkOpens => DiffInvariant'
<1> SUFFICES ASSUME DiffInvariant, HunkOpens PROVE DiffInvariant'
  OBVIOUS
<1>1. draft = Nil /\ HunkStep(Opened) /\ shown' = shown
      /\ stage = "hunks" /\ script.steps # <<>>
  BY DEF HunkOpens, HunkStep
<1>2. /\ First.equal \in Nat /\ oldAt \in Nat /\ newAt \in Nat
      /\ OldTo \in Nat /\ NewTo \in Nat
      /\ OldTo <= Len(before) /\ NewTo <= Len(after)
      /\ Same(oldAt, newAt, First.equal) /\ Lead \in Nat /\ Lead <= First.equal
  BY <1>1, FirstFacts
<1>3. OldTo = oldAt + First.equal /\ NewTo = newAt + First.equal /\ TextsOK
      /\ shown \in [hunks : Seq(DiffHunk), replaced : BOOLEAN]
  BY DEF OldTo, NewTo, DiffInvariant, DiffTypes
<1>4. HunksFit(shown.hunks, oldAt, newAt)
  BY <1>1 DEF DiffInvariant, Hunked, Drafted
<1>5. CASE Changes
  <2> DEFINE x == OldTo - Lead
             y == NewTo - Lead
  <2>1. x \in Nat /\ y \in Nat /\ HunkFits(Opened, x, y, OldTo, NewTo)
    BY <1>1, OpenedFits
  <2>2. PICK i \in Nat : i + Lead = First.equal /\ i <= First.equal
    <3>1. /\ First.equal - Lead \in Nat /\ (First.equal - Lead) + Lead = First.equal
          /\ First.equal - Lead <= First.equal
      BY <1>2
    <3> QED
      BY <3>1
  <2>3. x = oldAt + i /\ y = newAt + i
    <3>1. oldAt \in Nat /\ newAt \in Nat /\ Lead \in Nat
      BY <1>2
    <3>2. OldTo = (oldAt + i) + Lead /\ NewTo = (newAt + i) + Lead
      BY <1>3, <2>2, <3>1
    <3>3. PICK m \in Nat, n \in Nat : m = oldAt + i /\ n = newAt + i
      BY <3>1
    <3>4. (m + Lead) - Lead = m /\ (n + Lead) - Lead = n
      BY <3>1
    <3>5. OldTo - Lead = m /\ NewTo - Lead = n
      BY <3>2, <3>3, <3>4
    <3> QED
      BY <3>3, <3>5
  <2>4. x <= Len(before) /\ y <= Len(after)
    BY <2>1 DEF HunkFits, DiffHunk
  <2> HIDE DEF x, y
  <2>5. Gap(oldAt + 0, newAt + 0, oldAt + i, newAt + i)
    <3>1. oldAt + i <= Len(before) /\ newAt + i <= Len(after)
      <4>1. PICK p \in Nat, q \in Nat : p = Len(before) /\ q = Len(after)
        BY <1>3 DEF TextsOK
      <4>2. oldAt \in Nat /\ newAt \in Nat /\ First.equal \in Nat
        BY <1>2
      <4>3. oldAt + First.equal <= p /\ newAt + First.equal <= q
        BY <1>2, <1>3, <4>1
      <4>4. oldAt + i <= p /\ newAt + i <= q
        BY <2>2, <4>1, <4>2, <4>3, PartWithin
      <4> QED
        BY <4>1, <4>4
    <3>2. 0 \in Nat /\ 0 <= i
      OBVIOUS
    <3> QED
      BY <1>2, <2>2, <3>1, <3>2, KeptGap
  <2>6. Gap(oldAt, newAt, x, y)
    BY <1>2, <2>3, <2>5
  <2>7. HunksFit(shown'.hunks, x, y)
    BY <1>1, <1>4, <2>6, HunksGoOn
  <2> QED
    BY <1>1, <1>3, <1>5, <2>1, <2>7, HunkStepKeeps
<1>6. CASE ~Changes
  <2>1. Gap(oldAt + 0, newAt + 0, oldAt + First.equal, newAt + First.equal)
    <3>1. First.equal <= First.equal /\ 0 \in Nat /\ 0 <= First.equal
      BY <1>2
    <3>2. oldAt + First.equal <= Len(before) /\ newAt + First.equal <= Len(after)
      BY <1>2, <1>3
    <3>3. /\ oldAt \in Nat /\ newAt \in Nat /\ First.equal \in Nat
          /\ Same(oldAt, newAt, First.equal) /\ Lead \in Nat /\ Lead <= First.equal
      BY <1>2
    <3> QED
      BY <3>1, <3>2, <3>3, KeptGap
  <2>2. Gap(oldAt, newAt, OldTo, NewTo)
    BY <1>2, <1>3, <2>1
  <2>3. HunksFit(shown'.hunks, OldTo, NewTo)
    BY <1>1, <1>4, <2>2, HunksGoOn
  <2> QED
    BY <1>1, <1>2, <1>3, <1>6, <2>3, HunkStepKeeps
<1> QED
  BY <1>5, <1>6

\* A change close to the one before it goes into its hunk.
LEMMA HunkGoesOnKeeps == DiffInvariant /\ HunkGoesOn => DiffInvariant'
<1> SUFFICES ASSUME DiffInvariant, HunkGoesOn PROVE DiffInvariant'
  OBVIOUS
<1> DEFINE open == Grown(draft, "context", before, oldAt, First.equal)
<1>1. /\ draft # Nil /\ Changes /\ HunkStep(open) /\ shown' = shown
      /\ stage = "hunks" /\ script.steps # <<>>
  BY DEF HunkGoesOn, HunkStep, Joins
<1> HIDE DEF open
<1>2. /\ First.equal \in Nat /\ oldAt \in Nat /\ newAt \in Nat
      /\ OldTo <= Len(before) /\ NewTo <= Len(after)
      /\ Same(oldAt, newAt, First.equal)
  BY <1>1, FirstFacts
<1>3. OldTo = oldAt + First.equal /\ NewTo = newAt + First.equal /\ TextsOK
      /\ shown \in [hunks : Seq(DiffHunk), replaced : BOOLEAN]
  BY DEF OldTo, NewTo, DiffInvariant, DiffTypes
<1>4. PICK x \in Nat, y \in Nat : HunksFit(shown.hunks, x, y) /\ HunkFits(draft, x, y, oldAt, newAt)
  BY <1>1 DEF DiffInvariant, Hunked, Drafted
<1>5. HunkFits(open, x, y, OldTo, NewTo)
  BY <1>2, <1>3, <1>4, GrownFits DEF open
<1> QED
  BY <1>1, <1>3, <1>4, <1>5, HunkStepKeeps

\* A hunk ends with its context, and the next one opens.
LEMMA HunkEndsKeeps == DiffInvariant /\ HunkEnds => DiffInvariant'
<1> SUFFICES ASSUME DiffInvariant, HunkEnds PROVE DiffInvariant'
  OBVIOUS
<1> DEFINE closed == Grown(draft, "context", before, oldAt, Lead)
<1>1. /\ draft # Nil /\ ~Joins /\ HunkStep(Opened)
      /\ shown' = [shown EXCEPT !.hunks = Append(shown.hunks, closed)]
      /\ stage = "hunks" /\ script.steps # <<>>
  BY DEF HunkEnds, HunkStep
<1> HIDE DEF closed
<1>2. /\ First.equal \in Nat /\ oldAt \in Nat /\ newAt \in Nat
      /\ OldTo \in Nat /\ NewTo \in Nat
      /\ OldTo <= Len(before) /\ NewTo <= Len(after)
      /\ Same(oldAt, newAt, First.equal) /\ Lead \in Nat /\ Lead <= First.equal
      /\ First.equal > 2 * Context => 2 * Lead <= First.equal
  BY <1>1, FirstFacts
<1>3. OldTo = oldAt + First.equal /\ NewTo = newAt + First.equal /\ TextsOK
      /\ shown \in [hunks : Seq(DiffHunk), replaced : BOOLEAN]
  BY DEF OldTo, NewTo, DiffInvariant, DiffTypes
<1>4. PICK x \in Nat, y \in Nat : HunksFit(shown.hunks, x, y) /\ HunkFits(draft, x, y, oldAt, newAt)
  BY <1>1 DEF DiffInvariant, Hunked, Drafted
<1> DEFINE u == oldAt + Lead
           v == newAt + Lead
<1>5. PICK p \in Nat, q \in Nat : p = Len(before) /\ q = Len(after)
  BY <1>3 DEF TextsOK
<1>6. u \in Nat /\ v \in Nat /\ u <= Len(before) /\ v <= Len(after)
  <2>1. u \in Nat /\ v \in Nat /\ u <= p /\ v <= q
    BY <1>2, <1>3, <1>5
  <2> QED
    BY <1>5, <2>1
<1>7. HunkFits(closed, x, y, u, v)
  <2>1. Same(oldAt, newAt, Lead)
    <3>1. 0 + Lead <= First.equal /\ oldAt + 0 = oldAt /\ newAt + 0 = newAt
      BY <1>2
    <3>2. Same(oldAt + 0, newAt + 0, Lead)
      BY <1>2, <3>1, SamePart
    <3> QED
      BY <3>1, <3>2
  <2> HIDE DEF u, v
  <2>2. u = oldAt + Lead /\ v = newAt + Lead
    BY DEF u, v
  <2> QED
    BY <1>2, <1>3, <1>4, <1>6, <2>1, <2>2, GrownFits DEF closed
<1> HIDE DEF u, v
<1>8. HunksFit(Append(shown.hunks, closed), u, v)
  BY <1>3, <1>4, <1>7, HunkAdded
<1>9. /\ shown'.hunks = Append(shown.hunks, closed)
      /\ shown' \in [hunks : Seq(DiffHunk), replaced : BOOLEAN]
  <2>1. Append(shown.hunks, closed) \in Seq(DiffHunk)
    BY <1>8 DEF HunksFit
  <2> QED
    BY <1>1, <1>3, <2>1
<1>10. CASE Changes
  <2> DEFINE a == OldTo - Lead
             b == NewTo - Lead
  <2>1. a \in Nat /\ b \in Nat /\ HunkFits(Opened, a, b, OldTo, NewTo)
    BY <1>1, OpenedFits
  <2>2. 2 * Lead <= First.equal
    <3>1. ~(First.equal <= 2 * Context)
      BY <1>1, <1>10 DEF Joins
    <3>2. PICK c \in Nat : c = Context
      BY DiffAssumption
    <3>3. First.equal > 2 * c
      BY <1>2, <3>1, <3>2
    <3> QED
      BY <1>2, <3>2, <3>3
  <2>3. PICK i \in Nat : i + Lead = First.equal /\ Lead <= i /\ i <= First.equal
    <3>1. /\ First.equal - Lead \in Nat /\ (First.equal - Lead) + Lead = First.equal
          /\ Lead <= First.equal - Lead /\ First.equal - Lead <= First.equal
      BY <1>2, <2>2
    <3> QED
      BY <3>1
  <2>4. a = oldAt + i /\ b = newAt + i
    <3>1. oldAt \in Nat /\ newAt \in Nat /\ Lead \in Nat
      BY <1>2
    <3>2. OldTo = (oldAt + i) + Lead /\ NewTo = (newAt + i) + Lead
      BY <1>3, <2>3, <3>1
    <3>3. PICK m \in Nat, n \in Nat : m = oldAt + i /\ n = newAt + i
      BY <3>1
    <3>4. (m + Lead) - Lead = m /\ (n + Lead) - Lead = n
      BY <3>1
    <3>5. OldTo - Lead = m /\ NewTo - Lead = n
      BY <3>2, <3>3, <3>4
    <3> QED
      BY <3>3, <3>5
  <2> HIDE DEF a, b
  <2>5. oldAt + i <= Len(before) /\ newAt + i <= Len(after)
    <3>1. oldAt \in Nat /\ newAt \in Nat /\ First.equal \in Nat
      BY <1>2
    <3>2. oldAt + First.equal <= p /\ newAt + First.equal <= q
      BY <1>2, <1>3, <1>5
    <3>3. oldAt + i <= p /\ newAt + i <= q
      BY <1>5, <2>3, <3>1, <3>2, PartWithin
    <3> QED
      BY <1>5, <3>3
  <2>6. Gap(oldAt + Lead, newAt + Lead, oldAt + i, newAt + i)
    BY <1>2, <2>3, <2>5, KeptGap
  <2>7. HunksFit(shown'.hunks, a, b)
    BY <1>8, <1>9, <2>4, <2>6, HunksGoOn DEF u, v
  <2> QED
    BY <1>1, <1>9, <1>10, <2>1, <2>7, HunkStepKeeps
<1>11. CASE ~Changes
  <2>1. Gap(oldAt + Lead, newAt + Lead, oldAt + First.equal, newAt + First.equal)
    <3>1. First.equal <= First.equal /\ 0 \in Nat /\ 0 <= First.equal
      BY <1>2
    <3>2. oldAt + First.equal <= Len(before) /\ newAt + First.equal <= Len(after)
      BY <1>2, <1>3
    <3>3. /\ oldAt \in Nat /\ newAt \in Nat /\ First.equal \in Nat
          /\ Same(oldAt, newAt, First.equal) /\ Lead \in Nat /\ Lead <= First.equal
      BY <1>2
    <3> QED
      BY <3>1, <3>2, <3>3, KeptGap
  <2>2. HunksFit(shown'.hunks, OldTo, NewTo)
    BY <1>3, <1>8, <1>9, <2>1, HunksGoOn DEF u, v
  <2> QED
    BY <1>1, <1>2, <1>9, <1>11, <2>2, HunkStepKeeps
<1> QED
  BY <1>10, <1>11

\* The last hunk ends with what is left of its context.
LEMMA ShowKeeps == DiffInvariant /\ Show => DiffInvariant'
<1> SUFFICES ASSUME DiffInvariant, Show PROVE DiffInvariant'
  OBVIOUS
<1>1. /\ stage = "hunks" /\ script.steps = <<>> /\ stage' = "apply"
      /\ shown' = (IF draft = Nil THEN shown
                   ELSE [shown EXCEPT !.hunks = Append(shown.hunks, draft)])
      /\ UNCHANGED <<texts, todo, search, script, oldAt, newAt, draft, applied>>
  BY DEF Show
<1>2. /\ script.steps \in Seq(EditStep) /\ TextsOK /\ applied = NoneApplied
      /\ Leads(script.steps, oldAt, newAt, Len(before), Len(after)) /\ Drafted(oldAt, newAt)
      /\ shown \in [hunks : Seq(DiffHunk), replaced : BOOLEAN] /\ applied \in Applied
      /\ forward \in [-(bounds.depth + 1) .. bounds.depth + 1 -> Int]
      /\ backward \in [-(bounds.depth + 1) .. bounds.depth + 1 -> Int]
  BY <1>1 DEF DiffInvariant, DiffTypes, Hunked, Untouched, Scripts
<1>3. oldAt = Len(before) /\ newAt = Len(after)
  <2>1. /\ script.steps \in Seq(EditStep) /\ script.steps = <<>>
        /\ Leads(script.steps, oldAt, newAt, Len(before), Len(after))
    BY <1>1, <1>2
  <2>3. /\ oldAt \in Nat /\ newAt \in Nat /\ Len(before) \in Nat /\ Len(after) \in Nat
    BY <2>1, LeadsTypes
  <2>4. PICK u \in Nat, v \in Nat, x \in Nat, y \in Nat :
            u = oldAt /\ v = newAt /\ x = Len(before) /\ y = Len(after)
    BY <2>3
  <2>5. Leads(script.steps, u, v, x, y)
    BY <2>1, <2>4
  <2>6. u = x /\ v = y
    BY <2>1, <2>5, LeadsNowhereElse
  <2> QED
    BY <2>4, <2>6
<1>4. /\ shown' \in [hunks : Seq(DiffHunk), replaced : BOOLEAN]
      /\ HunksFit(shown'.hunks, Len(before), Len(after))
  <2>1. CASE draft = Nil
    BY <1>1, <1>2, <1>3, <2>1 DEF Drafted
  <2>2. CASE draft # Nil
    <3>1. PICK x \in Nat, y \in Nat : HunksFit(shown.hunks, x, y) /\ HunkFits(draft, x, y, oldAt, newAt)
      BY <1>2, <2>2 DEF Drafted
    <3>2. HunksFit(Append(shown.hunks, draft), Len(before), Len(after))
      BY <1>2, <1>3, <3>1, HunkAdded
    <3>3. Append(shown.hunks, draft) \in Seq(DiffHunk)
      BY <3>2 DEF HunksFit
    <3> QED
      BY <1>1, <1>2, <2>2, <3>2, <3>3
  <2> QED
    BY <2>1, <2>2
<1>5. AtHunk(shown'.hunks, NoneApplied)
  <2>1. Len(after) \in Nat
    BY <1>2 DEF TextsOK
  <2>2. Prefix(<<>>, 0)
    BY <2>1 DEF Prefix
  <2>3. Len(shown'.hunks) \in Nat
    BY <1>4
  <2> QED
    BY <1>4, <2>2, <2>3 DEF AtHunk, OldEnd, NewEnd, NoneApplied
<1>6. /\ forward' \in [-(bounds.depth + 1) .. bounds.depth + 1 -> Int]
      /\ backward' \in [-(bounds.depth + 1) .. bounds.depth + 1 -> Int]
      /\ applied' \in Applied /\ applied' = NoneApplied
  BY <1>1, <1>2 DEF search
<1> QED
  BY <1>1, <1>4, <1>5, <1>6, ShownStays

-----------------------------------------------------------------------------
(* The steps of applyDiff.                                                 *)

\* Lines of a gap are copied from the old text.
LEMMA PrefixGrows ==
    ASSUME TextsOK, NEW text, NEW x, NEW y, NEW u, NEW v, Prefix(text, y), Gap(x, y, u, v)
    PROVE  Prefix(text \o SubSeq(before, x + 1, u), v)
<1>1. /\ x \in Nat /\ y \in Nat /\ u \in Nat /\ v \in Nat /\ x <= u /\ u - x = v - y
      /\ u <= Len(before) /\ v <= Len(after) /\ Same(x, y, u - x)
  BY DEF Gap
<1>2. /\ text \in Seq(Line) /\ Len(text) = y /\ \A j \in 1 .. y : text[j] = after[j]
      /\ before \in Seq(Line)
  BY DEF Prefix, TextsOK
<1>3. PICK n \in Nat : n = u - x
  BY <1>1
<1> DEFINE s == SubSeq(before, x + 1, u)
           t == text \o s
<1>4. /\ s \in Seq(Line) /\ Len(s) = n
      /\ \A i \in 1 .. n : s[i] = before[x + i]
  <2>1. \A i \in x + 1 .. u : i \in 1 .. Len(before)
    <3>1. PICK p \in Nat : p = Len(before)
      BY <1>2
    <3> QED
      BY <1>1, <3>1
  <2>2. s \in Seq(Line)
    BY <1>1, <1>2, <2>1, SubSeqProperties
  <2>3. Len(s) = n
    BY <1>1, <1>2, <1>3, <2>1, SubSeqProperties
  <2>4. ASSUME NEW i \in 1 .. n PROVE s[i] = before[x + i]
    <3>1. (x + 1) + i - 1 = x + i
      BY <1>1
    <3> QED
      BY <1>1, <1>2, <1>3, <2>1, <3>1, SubSeqProperties
  <2> QED
    BY <2>2, <2>3, <2>4
<1> HIDE DEF s
<1>5. /\ t \in Seq(Line) /\ Len(t) = y + n
      /\ \A i \in 1 .. y : t[i] = text[i]
      /\ \A i \in y + 1 .. y + n : t[i] = s[i - y]
  <2>1. /\ t \in Seq(Line) /\ Len(t) = Len(text) + Len(s)
        /\ \A i \in 1 .. Len(text) + Len(s) :
              t[i] = IF i <= Len(text) THEN text[i] ELSE s[i - Len(text)]
    BY <1>2, <1>4, ConcatProperties
  <2> HIDE DEF t
  <2>2. t \in Seq(Line) /\ Len(t) = y + n
    BY <1>2, <1>4, <2>1
  <2>3. \A i \in 1 .. y + n : t[i] = IF i <= y THEN text[i] ELSE s[i - y]
    BY <1>2, <1>4, <2>1
  <2>4. y \in Nat /\ n \in Nat
    BY <1>1
  <2>5. ASSUME NEW i \in 1 .. y PROVE t[i] = text[i]
    <3>1. i \in 1 .. y + n /\ i <= y
      BY <2>4
    <3> QED
      BY <2>3, <3>1
  <2>6. ASSUME NEW i \in y + 1 .. y + n PROVE t[i] = s[i - y]
    <3>1. i \in 1 .. y + n /\ ~(i <= y)
      BY <2>4
    <3> QED
      BY <2>3, <3>1
  <2> QED
    BY <2>2, <2>5, <2>6
<1> HIDE DEF t
<1>6. y + n = v
  BY <1>1, <1>3
<1>7. ASSUME NEW j \in 1 .. v PROVE t[j] = after[j]
  <2>1. CASE j <= y
    <3>1. j \in 1 .. y
      BY <1>1, <2>1
    <3> QED
      BY <1>2, <1>5, <3>1
  <2>2. CASE ~(j <= y)
    <3>1. j \in y + 1 .. y + n /\ j - y \in 1 .. n /\ y + (j - y) = j
      BY <1>1, <1>6, <2>2
    <3>2. t[j] = before[x + (j - y)]
      BY <1>4, <1>5, <3>1
    <3>3. before[x + (j - y)] = after[y + (j - y)]
      BY <1>1, <1>3, <3>1 DEF Same
    <3> QED
      BY <3>1, <3>2, <3>3
  <2> QED
    BY <2>1, <2>2
<1> QED
  BY <1>1, <1>5, <1>6, <1>7 DEF Prefix, s, t

\* One more line of the new text.
LEMMA PrefixNext ==
    ASSUME NEW text, NEW y \in Nat, NEW line \in Line, Prefix(text, y),
           y + 1 <= Len(after), after[y + 1] = line
    PROVE  Prefix(Append(text, line), y + 1)
<1>1. text \in Seq(Line) /\ Len(text) = y /\ \A j \in 1 .. y : text[j] = after[j]
  BY DEF Prefix
<1> DEFINE t == Append(text, line)
<1>2. t \in Seq(Line) /\ Len(t) = y + 1 /\ t[y + 1] = line /\ \A j \in 1 .. y : t[j] = text[j]
  BY <1>1
<1> HIDE DEF t
<1>3. ASSUME NEW j \in 1 .. y + 1 PROVE t[j] = after[j]
  <2>1. j = y + 1 \/ j \in 1 .. y
    OBVIOUS
  <2> QED
    BY <1>1, <1>2, <2>1
<1> QED
  BY <1>2, <1>3 DEF Prefix, t

\* The place of a hunk fits, and the lines before it are copied.
LEMMA ApplyHunkKeeps == DiffInvariant /\ ApplyHunk => DiffInvariant'
<1> SUFFICES ASSUME DiffInvariant, ApplyHunk PROVE DiffInvariant'
  OBVIOUS
<1> DEFINE hs == shown.hunks
           i == applied.hunk
           h == Hunk
           start == h.oldStart - 1
           from == h.newStart - 1
           x == OldEnd(hs, i - 1)
           y == NewEnd(hs, i - 1)
           fits == /\ start >= applied.at /\ start <= Len(before)
                   /\ from = Len(applied.text) + start - applied.at
           made == [hunk |-> i, line |-> 1, at |-> start,
                    text |-> applied.text \o SubSeq(before, applied.at + 1, start),
                    oldCount |-> 0, newCount |-> 0]
<1>1. /\ stage = "apply" /\ i <= Len(hs)
      /\ fits => stage' = "line" /\ applied' = made
      /\ UNCHANGED <<texts, todo, search, script, hunking>>
  BY DEF ApplyHunk
<1>2. AtHunk(hs, applied) /\ TextsOK /\ hs \in Seq(DiffHunk)
      /\ shown \in [hunks : Seq(DiffHunk), replaced : BOOLEAN] /\ applied \in Applied
      /\ forward \in [-(bounds.depth + 1) .. bounds.depth + 1 -> Int]
      /\ backward \in [-(bounds.depth + 1) .. bounds.depth + 1 -> Int]
  BY <1>1 DEF DiffInvariant, DiffTypes, Applying
<1>3. /\ HunksFit(hs, Len(before), Len(after)) /\ i \in 1 .. Len(hs) + 1
      /\ applied.at = x /\ Prefix(applied.text, y)
  BY <1>2 DEF AtHunk
<1>4. i \in 1 .. Len(hs)
  <2>1. Len(hs) \in Nat
    BY <1>2
  <2> QED
    BY <1>1, <1>3, <2>1
<1>5. h = hs[i]
  BY DEF Hunk
<1>6. /\ Gap(x, y, start, from)
      /\ HunkFits(h, start, from, OldEnd(hs, i), NewEnd(hs, i))
  BY <1>3, <1>4, <1>5 DEF HunksFit
<1> HIDE DEF hs, i, h, x, y, start, from, made, fits
<1>7. fits
  <2>1. /\ x \in Nat /\ y \in Nat /\ start \in Nat /\ from \in Nat
        /\ x <= start /\ start - x = from - y /\ start <= Len(before)
    BY <1>6 DEF Gap
  <2>2. Len(applied.text) = y
    BY <1>3 DEF Prefix
  <2>3. from = y + start - x /\ start >= x
    BY <2>1
  <2> QED
    BY <1>3, <2>1, <2>2, <2>3 DEF fits
<1>8. Prefix(made.text, from) /\ made.at = start /\ made.hunk = i /\ made.line = 1
      /\ made.oldCount = 0 /\ made.newCount = 0
  <2>1. Prefix(applied.text \o SubSeq(before, x + 1, start), from)
    BY <1>2, <1>3, <1>6, PrefixGrows
  <2> QED
    BY <1>3, <2>1 DEF made
<1>9. PICK at \in [0 .. Len(h.lines) -> Nat], to \in [0 .. Len(h.lines) -> Nat] :
        /\ Passes(h.lines, at, to)
        /\ at[0] = start /\ to[0] = from
        /\ at[Len(h.lines)] = OldEnd(hs, i) /\ to[Len(h.lines)] = NewEnd(hs, i)
  BY <1>6 DEF HunkFits, Spells
<1>10. AtLine(hs, made)
  <2>1. h.lines \in Seq(DiffLine) /\ Len(h.lines) \in Nat
    BY <1>6 DEF HunkFits, DiffHunk
  <2>2. 1 \in 1 .. Len(h.lines) + 1 /\ 1 - 1 = 0
    BY <2>1
  <2>3. at[0] \in Nat /\ to[0] \in Nat
    BY <2>1
  <2>4. at[0] - at[0] = 0 /\ to[0] - to[0] = 0
    BY <2>3
  <2> QED
    BY <1>3, <1>4, <1>5, <1>8, <1>9, <2>2, <2>4 DEF AtLine, start, from
<1>11. made \in Applied
  <2>1. start \in Nat /\ i \in Nat /\ made.text \in Seq(Line)
    BY <1>4, <1>6, <1>8 DEF Gap, Prefix
  <2> QED
    BY <2>1 DEF made, Applied
<1>12. stage' = "line" /\ applied' = made /\ shown' = shown
  BY <1>1, <1>7 DEF hunking
<1> QED
  BY <1>1, <1>2, <1>10, <1>11, <1>12, ShownStays DEF search, hs

\* What a line of a hunk makes of the text.
LEMMA ApplyLineKeeps == DiffInvariant /\ ApplyLine => DiffInvariant'
<1> SUFFICES ASSUME DiffInvariant, ApplyLine PROVE DiffInvariant'
  OBVIOUS
<1> DEFINE hs == shown.hunks
           i == applied.hunk
           h == Hunk
           j == applied.line
           line == h.lines[j]
           added == line.kind = "added"
           removed == line.kind = "removed"
           fits == added \/ (applied.at < Len(before) /\ before[applied.at + 1] = line.text)
           made == [hunk |-> i, line |-> j + 1,
                    at |-> IF added THEN applied.at ELSE applied.at + 1,
                    text |-> IF removed THEN applied.text
                             ELSE Append(applied.text, line.text),
                    oldCount |-> IF added THEN applied.oldCount ELSE applied.oldCount + 1,
                    newCount |-> IF removed THEN applied.newCount ELSE applied.newCount + 1]
<1>1. /\ stage = "line" /\ j <= Len(h.lines)
      /\ fits => stage' = "line" /\ applied' = made
      /\ UNCHANGED <<texts, todo, search, script, hunking>>
  BY DEF ApplyLine
<1>2. AtLine(hs, applied) /\ TextsOK /\ hs \in Seq(DiffHunk)
      /\ shown \in [hunks : Seq(DiffHunk), replaced : BOOLEAN] /\ applied \in Applied
      /\ forward \in [-(bounds.depth + 1) .. bounds.depth + 1 -> Int]
      /\ backward \in [-(bounds.depth + 1) .. bounds.depth + 1 -> Int]
  BY <1>1 DEF DiffInvariant, DiffTypes, Applying
<1>3. h = hs[i] /\ i \in 1 .. Len(hs) /\ HunksFit(hs, Len(before), Len(after))
  BY <1>2 DEF Hunk, AtLine
<1>4. PICK at \in [0 .. Len(h.lines) -> Nat], to \in [0 .. Len(h.lines) -> Nat] :
        /\ Passes(h.lines, at, to)
        /\ at[0] = h.oldStart - 1 /\ at[Len(h.lines)] = OldEnd(hs, i)
        /\ to[0] = h.newStart - 1 /\ to[Len(h.lines)] = NewEnd(hs, i)
        /\ j \in 1 .. Len(h.lines) + 1
        /\ applied.at = at[j - 1] /\ applied.oldCount = at[j - 1] - at[0]
        /\ Prefix(applied.text, to[j - 1]) /\ applied.newCount = to[j - 1] - to[0]
  BY <1>2 DEF AtLine, Hunk
<1>5. h \in DiffHunk /\ h.lines \in Seq(DiffLine) /\ Len(h.lines) \in Nat
  <2> HIDE DEF hs, i, h, j, line, added, removed, fits, made
  <2>1. hs[i] \in DiffHunk
    BY <1>2, <1>3, ElementOfSeq
  <2>2. h.lines \in Seq(DiffLine)
    BY <1>3, <2>1 DEF DiffHunk
  <2> QED
    BY <1>3, <2>1, <2>2
<1>6. /\ j \in 1 .. Len(h.lines) /\ j \in Nat /\ j + 1 \in 1 .. Len(h.lines) + 1
      /\ (j + 1) - 1 = j /\ j - 1 \in 0 .. Len(h.lines) /\ j \in 0 .. Len(h.lines)
      /\ 0 \in 0 .. Len(h.lines)
  <2> HIDE DEF hs, i, h, j, line, added, removed, fits, made
  <2>1. PICK m \in Nat : m = Len(h.lines)
    BY <1>5
  <2>2. j \in 1 .. m + 1 /\ j <= m
    BY <1>1, <1>4, <2>1
  <2>3. /\ j \in 1 .. m /\ j \in Nat /\ j + 1 \in 1 .. m + 1
        /\ (j + 1) - 1 = j /\ j - 1 \in 0 .. m /\ j \in 0 .. m /\ 0 \in 0 .. m
    BY <2>2
  <2> QED
    BY <2>1, <2>3
<1>7. line \in DiffLine /\ line.text \in Line /\ line.kind \in {"context", "removed", "added"}
  <2> HIDE DEF hs, i, h, j, added, removed, fits, made
  <2>1. h.lines[j] \in DiffLine
    BY <1>5, <1>6, ElementOfSeq
  <2> QED
    BY <2>1 DEF DiffLine
<1>8. LineFits(line, at[j - 1], to[j - 1], at[j], to[j])
  BY <1>4, <1>6 DEF Passes
<1>9. /\ at[j - 1] \in Nat /\ at[j] \in Nat /\ at[0] \in Nat
      /\ to[j - 1] \in Nat /\ to[j] \in Nat /\ to[0] \in Nat
  BY <1>6
<1> HIDE DEF hs, i, h, j, line, added, removed, fits, made
<1>10. /\ at[j] = (IF added THEN at[j - 1] ELSE at[j - 1] + 1)
       /\ to[j] = (IF removed THEN to[j - 1] ELSE to[j - 1] + 1)
       /\ at[j] <= Len(before) /\ to[j] <= Len(after)
       /\ ~added => before[at[j]] = line.text
       /\ ~removed => after[to[j]] = line.text
  BY <1>8 DEF LineFits, added, removed
<1>11. fits
  <2>1. CASE added
    BY <2>1 DEF fits
  <2>2. CASE ~added
    <3>1. PICK p \in Nat : p = Len(before)
      BY <1>2 DEF TextsOK
    <3>2. at[j - 1] < p
      BY <1>9, <1>10, <2>2, <3>1
    <3> QED
      BY <1>4, <1>10, <2>2, <3>1, <3>2 DEF fits
  <2> QED
    BY <2>1, <2>2
<1>12. made.hunk = i /\ made.line = j + 1 /\ made.at = at[j]
  BY <1>4, <1>10 DEF made
<1>13. Prefix(made.text, to[j])
  <2>1. CASE removed
    BY <1>4, <1>10, <2>1 DEF made
  <2>2. CASE ~removed
    <3>1. Prefix(Append(applied.text, line.text), to[j - 1] + 1)
      BY <1>4, <1>7, <1>9, <1>10, <2>2, PrefixNext
    <3> QED
      BY <1>10, <2>2, <3>1 DEF made
  <2> QED
    BY <2>1, <2>2
<1>14. made.oldCount = at[j] - at[0] /\ made.newCount = to[j] - to[0]
  <2>1. made.oldCount = (IF added THEN at[j - 1] - at[0] ELSE (at[j - 1] - at[0]) + 1)
    BY <1>4 DEF made
  <2>2. made.newCount = (IF removed THEN to[j - 1] - to[0] ELSE (to[j - 1] - to[0]) + 1)
    BY <1>4 DEF made
  <2>3. /\ (at[j - 1] - at[0]) + 1 = (at[j - 1] + 1) - at[0]
        /\ (to[j - 1] - to[0]) + 1 = (to[j - 1] + 1) - to[0]
    BY <1>9
  <2> QED
    BY <1>10, <2>1, <2>2, <2>3
<1>15. AtLine(hs, made)
  BY <1>3, <1>4, <1>6, <1>12, <1>13, <1>14 DEF AtLine
<1>16. made \in Applied
  <2>1. /\ i \in Nat /\ applied.oldCount \in Nat /\ applied.newCount \in Nat
    BY <1>2 DEF Applied, i
  <2>2. /\ j + 1 \in Nat /\ made.at \in Nat /\ made.text \in Seq(Line)
    BY <1>6, <1>9, <1>12, <1>13 DEF Prefix
  <2>3. made.oldCount \in Nat /\ made.newCount \in Nat
    <3>1. PICK m \in Nat, n \in Nat : m = applied.oldCount /\ n = applied.newCount
      BY <2>1
    <3>2. m + 1 \in Nat /\ n + 1 \in Nat
      OBVIOUS
    <3> QED
      BY <3>1, <3>2 DEF made
  <2>4. made = [hunk |-> i, line |-> j + 1, at |-> made.at, text |-> made.text,
                oldCount |-> made.oldCount, newCount |-> made.newCount]
    BY DEF made
  <2> QED
    BY <2>1, <2>2, <2>3, <2>4 DEF Applied
<1>17. stage' = "line" /\ applied' = made /\ shown' = shown
  BY <1>1, <1>11 DEF hunking
<1> QED
  BY <1>1, <1>2, <1>15, <1>16, <1>17, ShownStays DEF search, hs

\* The counts a hunk names are those of its lines.
LEMMA ApplyCountsKeeps == DiffInvariant /\ ApplyCounts => DiffInvariant'
<1> SUFFICES ASSUME DiffInvariant, ApplyCounts PROVE DiffInvariant'
  OBVIOUS
<1> DEFINE hs == shown.hunks
           i == applied.hunk
           h == Hunk
           j == applied.line
           fits == applied.oldCount = h.oldCount /\ applied.newCount = h.newCount
           made == [applied EXCEPT !.hunk = i + 1]
<1>1. /\ stage = "line" /\ j > Len(h.lines)
      /\ fits => stage' = "apply" /\ applied' = made
      /\ UNCHANGED <<texts, todo, search, script, hunking>>
  BY DEF ApplyCounts
<1>2. AtLine(hs, applied) /\ TextsOK /\ hs \in Seq(DiffHunk)
      /\ shown \in [hunks : Seq(DiffHunk), replaced : BOOLEAN] /\ applied \in Applied
      /\ forward \in [-(bounds.depth + 1) .. bounds.depth + 1 -> Int]
      /\ backward \in [-(bounds.depth + 1) .. bounds.depth + 1 -> Int]
  BY <1>1 DEF DiffInvariant, DiffTypes, Applying
<1>3. h = hs[i] /\ i \in 1 .. Len(hs) /\ HunksFit(hs, Len(before), Len(after))
  BY <1>2 DEF Hunk, AtLine
<1>4. PICK at \in [0 .. Len(h.lines) -> Nat], to \in [0 .. Len(h.lines) -> Nat] :
        /\ at[0] = h.oldStart - 1 /\ at[Len(h.lines)] = OldEnd(hs, i)
        /\ to[0] = h.newStart - 1 /\ to[Len(h.lines)] = NewEnd(hs, i)
        /\ j \in 1 .. Len(h.lines) + 1
        /\ applied.at = at[j - 1] /\ applied.oldCount = at[j - 1] - at[0]
        /\ Prefix(applied.text, to[j - 1]) /\ applied.newCount = to[j - 1] - to[0]
  BY <1>2 DEF AtLine, Hunk
<1>5. h \in DiffHunk /\ h.lines \in Seq(DiffLine) /\ Len(h.lines) \in Nat
      /\ h.oldStart \in Nat /\ h.newStart \in Nat /\ h.oldCount \in Nat /\ h.newCount \in Nat
  <2> HIDE DEF hs, i, h, j, fits, made
  <2>1. hs[i] \in DiffHunk
    BY <1>2, <1>3, ElementOfSeq
  <2>2. h \in DiffHunk
    BY <1>3, <2>1
  <2>3. h.lines \in Seq(DiffLine)
    BY <2>2 DEF DiffHunk
  <2>4. h.oldStart \in Nat /\ h.newStart \in Nat /\ h.oldCount \in Nat /\ h.newCount \in Nat
    BY <2>2 DEF DiffHunk
  <2> QED
    BY <2>2, <2>3, <2>4
<1>6. j - 1 = Len(h.lines)
  BY <1>1, <1>4, <1>5
<1>7. Len(hs) \in Nat /\ i \in Nat /\ i + 1 \in 1 .. Len(hs) + 1 /\ (i + 1) - 1 = i /\ i # 0
  <2>1. Len(hs) \in Nat
    BY <1>2
  <2> QED
    BY <1>3, <2>1
<1> HIDE DEF hs, i, h, j, fits, made
<1>8. fits
  <2>1. /\ OldEnd(hs, i) = h.oldStart - 1 + h.oldCount
        /\ NewEnd(hs, i) = h.newStart - 1 + h.newCount
    BY <1>3, <1>7 DEF OldEnd, NewEnd
  <2>2. /\ applied.oldCount = (h.oldStart - 1 + h.oldCount) - (h.oldStart - 1)
        /\ applied.newCount = (h.newStart - 1 + h.newCount) - (h.newStart - 1)
    BY <1>4, <1>6, <2>1
  <2>3. PICK p \in Nat, q \in Nat, r \in Nat, s \in Nat :
            p = h.oldStart /\ q = h.oldCount /\ r = h.newStart /\ s = h.newCount
    BY <1>5
  <2>4. (p - 1 + q) - (p - 1) = q /\ (r - 1 + s) - (r - 1) = s
    OBVIOUS
  <2> QED
    BY <2>2, <2>3, <2>4 DEF fits
<1>9. /\ made.hunk = i + 1 /\ made.at = applied.at /\ made.text = applied.text
      /\ made \in Applied
  <2>1. i + 1 \in Nat
    BY <1>7
  <2> QED
    BY <1>2, <2>1 DEF made, Applied
<1>10. AtHunk(hs, made)
  BY <1>3, <1>4, <1>6, <1>7, <1>9 DEF AtHunk
<1>11. stage' = "apply" /\ applied' = made /\ shown' = shown
  BY <1>1, <1>8 DEF hunking
<1> QED
  BY <1>1, <1>2, <1>9, <1>10, <1>11, ShownStays DEF search, hs

\* After the last hunk both texts end with the same lines.
LEMMA ApplyRestKeeps == DiffInvariant /\ ApplyRest => DiffInvariant'
<1> SUFFICES ASSUME DiffInvariant, ApplyRest PROVE DiffInvariant'
  OBVIOUS
<1> DEFINE hs == shown.hunks
           i == applied.hunk
           made == [applied EXCEPT !.text = applied.text
                        \o SubSeq(before, applied.at + 1, Len(before))]
<1>1. /\ stage = "apply" /\ i > Len(hs) /\ stage' = "done" /\ applied' = made
      /\ UNCHANGED <<texts, todo, search, script, hunking>>
  BY DEF ApplyRest
<1>2. AtHunk(hs, applied) /\ TextsOK /\ hs \in Seq(DiffHunk)
      /\ shown \in [hunks : Seq(DiffHunk), replaced : BOOLEAN] /\ applied \in Applied
      /\ forward \in [-(bounds.depth + 1) .. bounds.depth + 1 -> Int]
      /\ backward \in [-(bounds.depth + 1) .. bounds.depth + 1 -> Int]
  BY <1>1 DEF DiffInvariant, DiffTypes, Applying
<1>3. /\ HunksFit(hs, Len(before), Len(after)) /\ i \in 1 .. Len(hs) + 1
      /\ applied.at = OldEnd(hs, i - 1) /\ Prefix(applied.text, NewEnd(hs, i - 1))
  BY <1>2 DEF AtHunk
<1>4. i - 1 = Len(hs)
  <2>1. Len(hs) \in Nat
    BY <1>2
  <2> QED
    BY <1>1, <1>3, <2>1
<1> HIDE DEF hs, i
<1>5. Gap(applied.at, NewEnd(hs, i - 1), Len(before), Len(after))
  BY <1>3, <1>4 DEF HunksFit
<1>6. Prefix(applied.text \o SubSeq(before, applied.at + 1, Len(before)), Len(after))
  BY <1>2, <1>3, <1>5, PrefixGrows
<1>7. made \in Applied /\ made.text = applied.text \o SubSeq(before, applied.at + 1, Len(before))
  <2>1. applied.text \o SubSeq(before, applied.at + 1, Len(before)) \in Seq(Line)
    BY <1>6 DEF Prefix
  <2> QED
    BY <1>2, <2>1 DEF Applied
<1> HIDE DEF made
<1>8. shown' = shown
  BY <1>1 DEF hunking
<1> QED
  BY <1>1, <1>2, <1>6, <1>7, <1>8, ShownStays DEF search

\* A step that changes nothing.
LEMMA DiffStays == DiffInvariant /\ UNCHANGED diffVars => DiffInvariant'
<1> SUFFICES ASSUME DiffInvariant, UNCHANGED diffVars PROVE DiffInvariant'
  OBVIOUS
<1>1. UNCHANGED <<texts, stage, todo, level, diagonal, forward, backward, script, oldAt,
                  newAt, draft, shown, applied>>
  BY DEF diffVars, search, hunking
<1>2. TextsOK
  BY DEF DiffInvariant, DiffTypes
<1>3. TextsOK' /\ bounds' = bounds /\ before' = before /\ after' = after
  BY <1>1, <1>2, TextsStay
<1>4. DiffTypes'
  BY <1>1, <1>3 DEF DiffInvariant, DiffTypes
<1>5. Untouched'
  BY <1>1 DEF DiffInvariant, Untouched
<1>6. Searched'
  <2>1. ASSUME stage \in Scripting \ {"begin"} PROVE Searched'
    <3>1. PICK x \in Nat, y \in Nat :
             Reaches(script, x, y) /\ Links(todo, x, y, Len(before), Len(after))
      BY <2>1 DEF DiffInvariant, Searched
    <3>2. /\ \A s, u, v : Reaches(s, u, v)' <=> Reaches(s, u, v)
          /\ \A q, u, v, m, n : Links(q, u, v, m, n)' <=> Links(q, u, v, m, n)
      BY <1>1, PlacesStay
    <3>3. Reaches(script, x, y)' /\ Links(todo, x, y, Len(before), Len(after))'
      BY <1>1, <1>3, <3>1, <3>2
    <3> QED
      BY <3>3 DEF Searched
  <2> QED
    BY <1>1, <2>1 DEF Searched
<1>7. SearchInv'
  BY <1>1, <1>3 DEF DiffInvariant, SearchInv, Current
<1>8. Hunked'
  BY <1>1, <1>3, PlacesStay, HunksStay DEF DiffInvariant, Hunked, Drafted
<1>9. Applying'
  BY <1>1, <1>3, HunksStay DEF DiffInvariant, Applying
<1> QED
  BY <1>4, <1>5, <1>6, <1>7, <1>8, <1>9 DEF DiffInvariant

-----------------------------------------------------------------------------
(* What holds of every diff.                                               *)

\* Every step of the diff keeps the invariant.
LEMMA DiffSteps == DiffInvariant /\ [DiffNext]_diffVars => DiffInvariant'
<1> SUFFICES ASSUME DiffInvariant, [DiffNext]_diffVars PROVE DiffInvariant'
  OBVIOUS
<1>1. CASE Refrain
  BY <1>1, RefrainKeeps
<1>2. CASE Begin
  BY <1>2, BeginKeeps
<1>3. CASE SolveEdge
  BY <1>3, SolveEdgeKeeps
<1>4. CASE SolveSplit
  BY <1>4, SolveSplitKeeps
<1>5. CASE KeepLines
  BY <1>5, KeepLinesKeeps
<1>6. CASE StepForward
  BY <1>6, StepForwardKeeps
<1>7. CASE StepBackward
  BY <1>7, StepBackwardKeeps
<1>8. CASE Scripted
  BY <1>8, ScriptedKeeps
<1>9. CASE HunkOpens
  BY <1>9, HunkOpensKeeps
<1>10. CASE HunkGoesOn
  BY <1>10, HunkGoesOnKeeps
<1>11. CASE HunkEnds
  BY <1>11, HunkEndsKeeps
<1>12. CASE Show
  BY <1>12, ShowKeeps
<1>13. CASE ApplyHunk
  BY <1>13, ApplyHunkKeeps
<1>14. CASE ApplyLine
  BY <1>14, ApplyLineKeeps
<1>15. CASE ApplyCounts
  BY <1>15, ApplyCountsKeeps
<1>16. CASE ApplyRest
  BY <1>16, ApplyRestKeeps
<1>17. CASE UNCHANGED diffVars
  BY <1>17, DiffStays
<1> QED
  BY <1>1, <1>2, <1>3, <1>4, <1>5, <1>6, <1>7, <1>8, <1>9, <1>10, <1>11, <1>12,
     <1>13, <1>14, <1>15, <1>16, <1>17 DEF DiffNext

\* For any two texts, any bounds and any width of the context, the invariant
\* holds in every state of their diff.
THEOREM DiffInvariantHolds == DiffSpec => []DiffInvariant
<1> QED
  BY DiffBegins, DiffSteps, PTL DEF DiffSpec

\* For any two texts, bounds and context: the diff the operator is shown is
\* never refused by applyDiff, and leads from the old text to exactly the new
\* one (ShownLeadsThere).
THEOREM ShownIsRight == DiffSpec => []ShownLeadsThere
<1>1. DiffInvariant => ShownLeadsThere
  <2> SUFFICES ASSUME DiffInvariant PROVE ShownLeadsThere
    OBVIOUS
  <2>1. stage # "misfit"
    BY DEF DiffInvariant, DiffTypes, Scripting
  <2>2. ASSUME stage = "done" PROVE applied.text = after
    <3>1. Prefix(applied.text, Len(after)) /\ after \in Seq(Line)
      BY <2>2 DEF DiffInvariant, DiffTypes, TextsOK, Applying
    <3> QED
      BY <3>1, SeqEqual DEF Prefix
  <2> QED
    BY <2>1, <2>2 DEF ShownLeadsThere
<1> QED
  BY <1>1, DiffInvariantHolds, PTL

-----------------------------------------------------------------------------
(* That the search comes to an end.                                        *)

\* How much a box has left to compare.
Size(box) == box.r - box.l + (box.b - box.t)

\* A search that ends leaves two boxes to solve, each smaller than its own.
Halved == stage \in {"forward", "backward"} /\ stage' = "script" =>
    Size(todo'[1].box) < Size(Current) /\ Size(todo'[3].box) < Size(Current)

\* The search begins where the texts differ at once: it does not leave the
\* corner of its box without a step.
FirstDiffers ==
    stage \in {"forward", "backward"} =>
        /\ before[Current.l + 1] # after[Current.t + 1]
        /\ \/ stage = "backward" /\ level = 0
           \/ stage = "forward" /\ level = 1
           => forward[0] = Current.l

\* The lines both texts begin with are taken off before a box is searched.
LEMMA SplitDiffers == DiffInvariant /\ SolveSplit => FirstDiffers'
<1> SUFFICES ASSUME DiffInvariant, SolveSplit PROVE FirstDiffers'
  OBVIOUS
<1> DEFINE box == Current
           in == Inner(box)
           rest == Task("keep", Box(in.r, box.r, in.b, box.b))
<1>1. /\ stage = "script" /\ todo # <<>> /\ in.l # in.r /\ in.t # in.b
      /\ todo' = <<Task("search", in), rest>> \o Tail(todo)
      /\ stage' = "forward" /\ level' = 0 /\ UNCHANGED texts
  BY DEF SolveSplit, Doing
<1>2. /\ InBox(box) /\ TextsOK /\ Tail(todo) \in Seq(Tasks)
      /\ box.l \in Nat /\ box.r \in Nat /\ box.t \in Nat /\ box.b \in Nat
  BY <1>1, NextTask DEF Scripting
<1>4. before[in.l + 1] # after[in.t + 1]
  <2>1. in = Inner(box)
    OBVIOUS
  <2> HIDE DEF in, box
  <2>2. /\ in.l \in Nat /\ in.r \in Nat /\ in.t \in Nat /\ in.b \in Nat
        /\ in.l <= in.r /\ in.t <= in.b
    BY <1>2, <2>1, InnerMeasures
  <2>3. in.l < in.r /\ in.t < in.b
    BY <1>1, <2>2
  <2> QED
    BY <1>2, <2>1, <2>3, InnerFacts
<1>5. Current' = in
  <2>1. Head(todo') = Task("search", in)
    <3>1. Len(<<Task("search", in), rest>>) = 2
      OBVIOUS
    <3> HIDE DEF in, rest
    <3>2. (<<Task("search", in), rest>> \o Tail(todo))[1] = Task("search", in)
      BY <1>2
    <3> QED
      BY <1>1, <1>2, <3>2
  <2> QED
    BY <2>1 DEF Current, Task
<1> HIDE DEF in, box, rest
<1> QED
  BY <1>1, <1>4, <1>5 DEF FirstDiffers, texts

\* A step from the start stays in the corner only at the first step.
LEMMA ForwardDiffers == DiffInvariant /\ FirstDiffers /\ StepForward => FirstDiffers'
<1> SUFFICES ASSUME DiffInvariant, FirstDiffers, StepForward PROVE FirstDiffers'
  OBVIOUS
<1> DEFINE box == Current
           d == level
           k == diagonal
           x == ForwardX
           y == Row(box, x, k)
           n == Run(box, x, y)
<1>1. /\ stage = "forward" /\ forward' = [forward EXCEPT ![k] = x + n]
      /\ UNCHANGED <<texts, level>>
  BY DEF StepForward, ForwardRun, ForwardY
<1>2. CASE ForwardMeets
  BY <1>2 DEF StepForward, Split, FirstDiffers
<1>3. CASE ~ForwardMeets
  <2>1. /\ stage' = IF k = d THEN "backward" ELSE "forward"
        /\ UNCHANGED todo
    BY <1>3 DEF StepForward
  <2>2. /\ box.l \in Nat /\ box.r \in Nat /\ box.t \in Nat /\ box.b \in Nat
        /\ box.l < box.r /\ box.t < box.b
        /\ d \in Nat /\ d <= bounds.depth /\ bounds.depth \in Nat
        /\ k \in Diagonals(d) /\ k \in Int /\ -d <= k /\ k <= d
        /\ forward \in [-(bounds.depth + 1) .. bounds.depth + 1 -> Int]
    BY <1>1, SearchFacts
  <2>3. /\ before[box.l + 1] # after[box.t + 1]
        /\ d = 1 => forward[0] = box.l
        /\ d = 0 => forward[1] = box.l
    BY <1>1 DEF FirstDiffers, DiffInvariant, SearchInv
  <2>4. Current' = box /\ before' = before /\ after' = after /\ level' = d
    BY <1>1, <2>1 DEF Current, texts
  <2>5. x = IF k = -d \/ (k # d /\ forward[k - 1] < forward[k + 1])
              THEN forward[k + 1] ELSE forward[k - 1] + 1
    BY DEF ForwardX
  <2> HIDE DEF box, d, k, x, y, n
  <2>6. ASSUME k = d, d = 0 PROVE forward'[0] = box.l
    <3>1. k = 0
      BY <2>6
    <3>2. x = box.l
      <4>1. k + 1 = 1
        BY <3>1
      <4>2. ~(k # -d)
        <5>1. d \in Int /\ k \in Int /\ -d <= k /\ k <= d /\ d = 0
          BY <2>2, <2>6
        <5> QED
          BY <5>1
      <4> QED
        BY <2>3, <2>5, <2>6, <4>1, <4>2
    <3>3. y = box.t
      BY <2>2, <3>1, <3>2 DEF y, Row
    <3>4. /\ n \in Nat /\ Same(box.l, box.t, n)
      BY <2>2, <3>2, <3>3, RunFacts DEF n
    <3>5. n = 0
      <4> SUFFICES ASSUME n # 0 PROVE FALSE
        OBVIOUS
      <4>1. 1 \in 1 .. n
        BY <3>4
      <4> QED
        BY <2>3, <3>4, <4>1 DEF Same
    <3>6. x + n = box.l
      BY <2>2, <3>2, <3>5
    <3>7. 0 \in -(bounds.depth + 1) .. bounds.depth + 1
      BY <2>2
    <3> QED
      BY <1>1, <2>2, <3>1, <3>6, <3>7
  <2>7. ASSUME d = 1 PROVE forward'[0] = box.l
    <3>1. k # 0
      BY <2>2, <2>7 DEF Diagonals
    <3>2. 0 \in -(bounds.depth + 1) .. bounds.depth + 1
      BY <2>2
    <3> QED
      BY <1>1, <2>2, <2>3, <2>7, <3>1, <3>2
  <2> QED
    BY <2>1, <2>3, <2>4, <2>6, <2>7 DEF FirstDiffers
<1> QED
  BY <1>2, <1>3

\* A step from the end leaves the positions of the other search alone.
LEMMA BackwardDiffers == DiffInvariant /\ FirstDiffers /\ StepBackward => FirstDiffers'
<1> SUFFICES ASSUME DiffInvariant, FirstDiffers, StepBackward PROVE FirstDiffers'
  OBVIOUS
<1>1. stage = "backward" /\ UNCHANGED <<texts, forward>>
  BY DEF StepBackward
<1>2. level \in Nat
  BY <1>1, SearchFacts
<1>3. before[Current.l + 1] # after[Current.t + 1] /\ (level = 0 => forward[0] = Current.l)
  BY <1>1 DEF FirstDiffers
<1>4. CASE stage' \in {"script", "apply"}
  BY <1>4 DEF FirstDiffers
<1>5. CASE UNCHANGED <<stage, todo, level>>
  <2>1. Current' = Current
    BY <1>5 DEF Current
  <2> QED
    BY <1>1, <1>3, <1>5, <2>1 DEF FirstDiffers, texts
<1>6. CASE stage' = "forward" /\ level' = level + 1 /\ UNCHANGED todo
  <2>1. Current' = Current
    BY <1>6 DEF Current
  <2>2. level' = 1 => level = 0
    BY <1>2, <1>6
  <2> QED
    BY <1>1, <1>3, <1>6, <2>1, <2>2 DEF FirstDiffers, texts
<1> QED
  BY <1>4, <1>5, <1>6 DEF StepBackward, Split, ShowWhole

\* The search stays where the texts differ at once.
LEMMA DiffersStays == DiffInvariant /\ FirstDiffers /\ [DiffNext]_diffVars => FirstDiffers'
<1> SUFFICES ASSUME DiffInvariant, FirstDiffers, [DiffNext]_diffVars PROVE FirstDiffers'
  OBVIOUS
<1>1. CASE SolveSplit
  BY <1>1, SplitDiffers
<1>2. CASE StepForward
  BY <1>2, ForwardDiffers
<1>3. CASE StepBackward
  BY <1>3, BackwardDiffers
<1>4. CASE Refrain \/ Begin \/ Scripted \/ Show
  BY <1>4 DEF Refrain, ShowWhole, Begin, Scripted, Show, FirstDiffers
<1>5. CASE SolveEdge \/ KeepLines
  BY <1>5 DEF SolveEdge, KeepLines, Doing, FirstDiffers
<1>6. CASE HunkOpens \/ HunkGoesOn \/ HunkEnds
  BY <1>6 DEF HunkOpens, HunkGoesOn, HunkEnds, HunkStep, FirstDiffers
<1>7. CASE ApplyHunk \/ ApplyLine \/ ApplyCounts \/ ApplyRest
  <2>1. stage' \in {"line", "misfit", "apply", "done"}
    BY <1>7 DEF ApplyHunk, ApplyLine, ApplyCounts, ApplyRest
  <2> QED
    BY <2>1 DEF FirstDiffers
<1>8. CASE UNCHANGED diffVars
  BY <1>8 DEF diffVars, texts, search, Current, FirstDiffers
<1> QED
  BY <1>1, <1>2, <1>3, <1>4, <1>5, <1>6, <1>7, <1>8 DEF DiffNext

\* Where the search meets, the rest of its box is smaller on either side:
\* it does not meet in a corner.
LEMMA MeetsShorter ==
    ASSUME NEW box, box.l \in Nat, box.r \in Nat, box.t \in Nat, box.b \in Nat,
           box.l < box.r, box.t < box.b, NEW x \in Nat, NEW y \in Nat, NEW n \in Nat,
           box.l <= x, box.t <= y, x + n <= box.r, y + n <= box.b,
           ~(x = box.r /\ y = box.b), ~(x + n = box.l /\ y + n = box.t)
    PROVE  /\ Size(Box(box.l, x, box.t, y)) < Size(box)
           /\ Size(Box(x + n, box.r, y + n, box.b)) < Size(box)
<1>1. /\ Size(Box(box.l, x, box.t, y)) = x - box.l + (y - box.t)
      /\ Size(Box(x + n, box.r, y + n, box.b)) = box.r - (x + n) + (box.b - (y + n))
  BY DEF Size, Box
<1>2. x - box.l + (y - box.t) < Size(box)
  BY DEF Size
<1>3. box.r - (x + n) + (box.b - (y + n)) < Size(box)
  <2>1. x + n > box.l \/ y + n > box.t
    OBVIOUS
  <2> QED
    BY <2>1 DEF Size
<1> QED
  BY <1>1, <1>2, <1>3

\* A step from the start that meets the other search is not at a corner.
LEMMA ForwardCorners ==
    ASSUME NEW box, box.l \in Int, box.r \in Int, box.t \in Int, box.b \in Int,
           box.l < box.r, box.t < box.b,
           NEW d \in Nat, NEW k \in Diagonals(d), NEW f, NEW x, NEW n \in Nat,
           d = 0 => f[1] = box.l, d = 1 => f[0] = box.l,
           FwdFull(box, f, d - 1),
           x = IF k = -d \/ (k # d /\ f[k - 1] < f[k + 1])
                 THEN f[k + 1] ELSE f[k - 1] + 1,
           Odd(Delta(box)), k - Delta(box) > -d, k - Delta(box) < d
    PROVE  /\ ~(x = box.r /\ Row(box, x, k) = box.b)
           /\ ~(x + n = box.l /\ Row(box, x, k) + n = box.t)
<1>1. /\ x \in box.l .. box.r + d
      /\ Row(box, x, k) \in box.t .. box.b + d
      /\ k # -d => x >= f[k - 1] + 1
  BY ForwardStep
<1>2. /\ k \in Int /\ -d <= k /\ k <= d
      /\ k # d => k + 1 \in Diagonals(d - 1)
      /\ k # -d => k - 1 \in Diagonals(d - 1)
  BY DiagonalFacts
<1> DEFINE e == Delta(box)
<1>3. e = box.r - box.l - (box.b - box.t) /\ e \in Int /\ e % 2 = 1
  BY DEF Delta, Odd
<1>4. \A i \in Diagonals(d - 1) :
         /\ f[i] \in Int /\ box.l <= f[i]
         /\ i - e \in -(d - 2) .. d - 2 =>
              f[i] < box.r /\ box.t + (f[i] - box.l) - i < box.b
  BY DEF FwdFull, InF, RowF, Row, ApartF
<1>5. k - e > -d /\ k - e < d
  OBVIOUS
<1> HIDE DEF e
<1>6. d # 0
  BY <1>2, <1>3, <1>5
<1>7. (k + d) % 2 = 0
  BY DEF Diagonals
<1>8. ASSUME x = box.r, Row(box, x, k) = box.b PROVE FALSE
  <2>1. k = e
    BY <1>2, <1>3, <1>8 DEF Row
  <2>2. d % 2 = 1
    BY <1>3, <1>7, <2>1
  <2>3. CASE d = 1
    <3>1. k = 1 \/ k = -1
      BY <1>2, <1>3, <2>1, <2>3
    <3>2. x = box.l \/ (x = box.l + 1 /\ k = 1)
      BY <1>2, <2>3, <3>1
    <3> QED
      BY <1>8, <3>1, <3>2 DEF Row
  <2>4. CASE d # 1
    <3>1. d >= 3
      BY <2>2, <2>4, <1>6
    <3>2. (k + 1) - e \in -(d - 2) .. d - 2 /\ (k - 1) - e \in -(d - 2) .. d - 2
      BY <1>3, <2>1, <3>1
    <3>3. CASE k # d /\ x = f[k + 1]
      BY <1>2, <1>4, <1>8, <3>2, <3>3
    <3>4. CASE k # -d /\ x = f[k - 1] + 1
      <4>1. f[k - 1] \in Int /\ box.t + (f[k - 1] - box.l) - (k - 1) < box.b
        BY <1>2, <1>4, <3>2, <3>4
      <4> QED
        BY <1>2, <1>8, <3>4, <4>1 DEF Row
    <3>5. k = -d => k # d
      BY <1>2, <1>6
    <3> QED
      BY <3>3, <3>4, <3>5
  <2> QED
    BY <2>3, <2>4
<1>9. ASSUME x + n = box.l, Row(box, x, k) + n = box.t PROVE FALSE
  <2>1. n = 0 /\ x = box.l
    BY <1>1, <1>9
  <2>2. k = 0
    BY <1>2, <1>9, <2>1 DEF Row
  <2>3. k # -d
    BY <1>6, <2>2
  <2>4. f[k - 1] \in Int /\ box.l <= f[k - 1]
    BY <1>2, <1>4, <2>3
  <2> QED
    BY <1>1, <2>1, <2>3, <2>4
<1> QED
  BY <1>8, <1>9

\* Nor is a step from the end.
LEMMA BackwardCorners ==
    ASSUME NEW box, box.l \in Int, box.r \in Int, box.t \in Int, box.b \in Int,
           box.l < box.r, box.t < box.b,
           NEW d \in Nat, NEW k \in Diagonals(d), NEW f, NEW g, NEW x, NEW n \in Nat,
           d = 0 => g[-1] = box.r, d = 0 => f[0] = box.l,
           BwdFull(box, g, d - 1),
           x = IF k = d \/ (k # -d /\ g[k - 1] < g[k + 1])
                 THEN g[k - 1] ELSE g[k + 1] - 1,
           ~Odd(Delta(box)), k + Delta(box) >= -d, k + Delta(box) <= d,
           x - n <= f[k + Delta(box)]
    PROVE  /\ ~(x - n = box.r /\ Row(box, x, k + Delta(box)) - n = box.b)
           /\ ~(x = box.l /\ Row(box, x, k + Delta(box)) = box.t)
<1>1. /\ x \in box.l - d .. box.r
      /\ Row(box, x, k + Delta(box)) \in box.t - d .. box.b
      /\ k # d => x <= g[k + 1] - 1
  BY BackwardStep
<1>2. /\ k \in Int /\ -d <= k /\ k <= d
      /\ k # d => k + 1 \in Diagonals(d - 1)
      /\ k # -d => k - 1 \in Diagonals(d - 1)
  BY DiagonalFacts
<1> DEFINE e == Delta(box)
<1>3. e = box.r - box.l - (box.b - box.t) /\ e \in Int
  BY DEF Delta
<1>4. \A i \in Diagonals(d - 1) :
         /\ g[i] \in Int /\ g[i] <= box.r
         /\ i + e \in -(d - 1) .. d - 1 =>
              g[i] > box.l /\ box.t + (g[i] - box.l) - (i + e) > box.t
  BY DEF BwdFull, InB, RowB, Row, ApartB
<1>5. Row(box, x, k + e) = box.t + (x - box.l) - (k + e)
  BY DEF Row
<1>6. k + e <= d /\ k + e >= -d /\ x - n <= f[k + e]
  OBVIOUS
<1> HIDE DEF e
<1>7. ASSUME d = 0 PROVE k = 0 /\ k + e = 0 /\ x = box.r /\ x - n <= box.l
  <2>1. k = 0 /\ k + e = 0 /\ k = d /\ k - 1 = -1
    BY <1>2, <1>3, <1>6, <1>7
  <2>2. x = g[k - 1]
    BY <2>1
  <2> QED
    BY <1>6, <1>7, <2>1, <2>2
<1>8. ASSUME x - n = box.r, Row(box, x, k + e) - n = box.b PROVE FALSE
  <2>1. x = box.r /\ n = 0
    BY <1>1, <1>8
  <2>2. k = 0
    BY <1>2, <1>3, <1>5, <1>8, <2>1
  <2>3. CASE d = 0
    BY <1>7, <2>1, <2>3
  <2>4. CASE d # 0
    <3>1. k # d /\ g[k + 1] \in Int /\ g[k + 1] <= box.r
      BY <1>2, <1>4, <2>2, <2>4
    <3> QED
      BY <1>1, <2>1, <3>1
  <2> QED
    BY <2>3, <2>4
<1>9. ASSUME x = box.l, Row(box, x, k + e) = box.t PROVE FALSE
  <2>1. k + e = 0
    BY <1>2, <1>3, <1>5, <1>9
  <2>2. CASE d = 0
    BY <1>7, <1>9, <2>2
  <2>3. CASE d # 0
    <3>0. k \in Int /\ e \in Int
      BY <1>2, <1>3
    <3>1. (k + 1) + e = 1 /\ (k - 1) + e = -1
      BY <2>1, <3>0
    <3>2. d # 1
      BY <1>2, <1>3, <2>1 DEF Diagonals, Odd, e
    <3>3. (k + 1) + e \in -(d - 1) .. d - 1 /\ (k - 1) + e \in -(d - 1) .. d - 1
      BY <2>3, <3>1, <3>2
    <3>4. CASE k # -d /\ x = g[k - 1]
      BY <1>2, <1>4, <1>9, <3>3, <3>4
    <3>5. CASE k # d /\ x = g[k + 1] - 1
      <4>1. g[k + 1] \in Int /\ box.t + (g[k + 1] - box.l) - ((k + 1) + e) > box.t
        BY <1>2, <1>4, <3>3, <3>5
      <4> QED
        BY <1>2, <1>3, <1>9, <2>1, <3>1, <3>5, <4>1
    <3>6. k = d => k # -d
      BY <1>2, <2>3
    <3> QED
      BY <3>4, <3>5, <3>6
  <2> QED
    BY <2>2, <2>3
<1> QED
  BY <1>8, <1>9 DEF e

\* The two boxes a split leaves to solve.
LEMMA SplitBoxes ==
    ASSUME NEW x, NEW y, NEW u, NEW v, Tail(todo) \in Seq(Tasks), Split(Box(x, u, y, v))
    PROVE  /\ todo'[1].box = Box(Current.l, x, Current.t, y)
           /\ todo'[3].box = Box(u, Current.r, v, Current.b)
<1> DEFINE a == Task("solve", Box(Current.l, x, Current.t, y))
           b == Task("keep", Box(x, u, y, v))
           c == Task("solve", Box(u, Current.r, v, Current.b))
           s == Tail(todo)
<1>1. todo' = <<a, b, c>> \o s
  BY DEF Split, Box
<1>2. a.box = Box(Current.l, x, Current.t, y) /\ c.box = Box(u, Current.r, v, Current.b)
  BY DEF Task
<1> HIDE DEF a, b, c, s
<1>3. s \in Seq(Tasks)
  BY DEF s
<1>4. Len(<<a, b, c>>) = 3
  OBVIOUS
<1>5. (<<a, b, c>> \o s)[1] = a /\ (<<a, b, c>> \o s)[3] = c
  BY <1>3, <1>4
<1> QED
  BY <1>1, <1>2, <1>5

\* A step from the start leaves smaller boxes where it meets the other search.
LEMMA ForwardHalves == DiffInvariant /\ FirstDiffers /\ StepForward => Halved
<1> SUFFICES ASSUME DiffInvariant, FirstDiffers, StepForward, stage' = "script" PROVE Halved
  BY DEF Halved
<1> DEFINE box == Current
           d == level
           k == diagonal
           x == ForwardX
           y == Row(box, x, k)
           n == Run(box, x, y)
<1>1. /\ stage = "forward" /\ ForwardMeets
      /\ Split(Box(x, x + n, y, y + n))
  BY DEF StepForward, ForwardRun, ForwardY
<1>2. /\ todo # <<>> /\ Tail(todo) \in Seq(Tasks)
      /\ box.l \in Nat /\ box.r \in Nat /\ box.l < box.r
      /\ box.t \in Nat /\ box.b \in Nat /\ box.t < box.b
      /\ d \in Nat /\ k \in Diagonals(d)
  BY <1>1, SearchFacts, NextTask DEF Scripting
<1>3. /\ d = 0 => forward[1] = box.l
      /\ d = 1 => forward[0] = box.l
      /\ FwdFull(box, forward, d - 1)
  BY <1>1 DEF DiffInvariant, SearchInv, FirstDiffers
<1>4. x = IF k = -d \/ (k # d /\ forward[k - 1] < forward[k + 1])
            THEN forward[k + 1] ELSE forward[k - 1] + 1
  BY DEF ForwardX
<1>5. Odd(Delta(box)) /\ k - Delta(box) > -d /\ k - Delta(box) < d
  BY <1>1 DEF ForwardMeets
<1>6. /\ box.l \in Int /\ box.r \in Int /\ box.t \in Int /\ box.b \in Int
      /\ box.l <= box.r /\ box.t <= box.b
  BY <1>2
<1>7. /\ todo'[1].box = Box(box.l, x, box.t, y)
      /\ todo'[3].box = Box(x + n, box.r, y + n, box.b)
  BY <1>1, <1>2, SplitBoxes
<1>b. box = Current
  OBVIOUS
<1> HIDE DEF box, d, k, x, y, n
<1>8. x \in box.l .. box.r + d /\ y \in box.t .. box.b + d
  BY <1>2, <1>3, <1>4, <1>6, ForwardStep DEF y
<1>9. x \in Nat /\ y \in Nat /\ box.l <= x /\ box.t <= y
  BY <1>2, <1>8
<1>10. n \in Nat /\ (n > 0 => x + n <= box.r /\ y + n <= box.b)
  BY <1>6, <1>9, RunFacts DEF n
<1>11. x <= box.r /\ y <= box.b
  BY <1>2, <1>3, <1>4, <1>5, <1>6, ForwardMeetsInside DEF y
<1>12. x + n <= box.r /\ y + n <= box.b
  <2>1. n = 0 \/ n > 0
    BY <1>10
  <2> QED
    BY <1>9, <1>10, <1>11, <2>1
<1>13. ~(x = box.r /\ y = box.b) /\ ~(x + n = box.l /\ y + n = box.t)
  BY <1>2, <1>3, <1>4, <1>5, <1>6, <1>10, ForwardCorners DEF y
<1>14. /\ Size(Box(box.l, x, box.t, y)) < Size(box)
       /\ Size(Box(x + n, box.r, y + n, box.b)) < Size(box)
  BY <1>2, <1>9, <1>10, <1>12, <1>13, MeetsShorter
<1> QED
  BY <1>7, <1>14, <1>b DEF Halved

\* So does a step from the end.
LEMMA BackwardHalves == DiffInvariant /\ FirstDiffers /\ StepBackward => Halved
<1> SUFFICES ASSUME DiffInvariant, FirstDiffers, StepBackward, stage' = "script" PROVE Halved
  BY DEF Halved
<1> DEFINE box == Current
           d == level
           k == diagonal
           x == BackwardX
           y == Row(box, x, k + Delta(box))
           n == RunBack(box, x, y)
<1>1. stage = "backward"
  BY DEF StepBackward
<1>2. BackwardMeets /\ Split(Box(x - n, x, y - n, y))
  BY DEF StepBackward, ShowWhole, BackwardRun, BackwardY
<1>3. /\ todo # <<>> /\ Tail(todo) \in Seq(Tasks)
      /\ box.l \in Nat /\ box.r \in Nat /\ box.l < box.r
      /\ box.t \in Nat /\ box.b \in Nat /\ box.t < box.b
      /\ d \in Nat /\ k \in Diagonals(d)
  BY <1>1, SearchFacts, NextTask DEF Scripting
<1>4. /\ d = 0 => backward[-1] = box.r
      /\ d = 0 => forward[0] = box.l
      /\ BwdFull(box, backward, d - 1)
  BY <1>1 DEF DiffInvariant, SearchInv, FirstDiffers
<1>5. x = IF k = d \/ (k # -d /\ backward[k - 1] < backward[k + 1])
            THEN backward[k - 1] ELSE backward[k + 1] - 1
  BY DEF BackwardX
<1>6. /\ ~Odd(Delta(box)) /\ k + Delta(box) >= -d /\ k + Delta(box) <= d
      /\ x - n <= forward[k + Delta(box)]
  BY <1>2 DEF BackwardMeets, BackwardRun, BackwardY
<1>7. /\ box.l \in Int /\ box.r \in Int /\ box.t \in Int /\ box.b \in Int
      /\ box.l <= box.r /\ box.t <= box.b
  BY <1>3
<1>8. /\ todo'[1].box = Box(box.l, x - n, box.t, y - n)
      /\ todo'[3].box = Box(x, box.r, y, box.b)
  BY <1>2, <1>3, SplitBoxes
<1>b. box = Current
  OBVIOUS
<1> HIDE DEF box, d, k, x, y, n
<1>9. x \in box.l - d .. box.r /\ y \in box.t - d .. box.b
  BY <1>3, <1>4, <1>5, <1>7, BackwardStep DEF y
<1>10. x \in Int /\ y \in Int /\ x <= box.r /\ y <= box.b
  BY <1>3, <1>9
<1>11. n \in Nat /\ (n > 0 => x - n >= box.l /\ y - n >= box.t)
  BY <1>7, <1>10, RunBackFacts DEF n
<1>12. x >= box.l /\ y >= box.t
  BY <1>3, <1>4, <1>5, <1>6, <1>7, BackwardMeetsInside DEF y
<1>13. x - n >= box.l /\ y - n >= box.t
  <2>1. n = 0 \/ n > 0
    BY <1>11
  <2> QED
    BY <1>7, <1>10, <1>11, <1>12, <2>1
<1>14. /\ x - n \in Nat /\ y - n \in Nat /\ (x - n) + n = x /\ (y - n) + n = y
  BY <1>3, <1>10, <1>11, <1>13, SMTT(30)
<1>15. ~(x - n = box.r /\ y - n = box.b) /\ ~(x = box.l /\ y = box.t)
  BY <1>3, <1>4, <1>5, <1>6, <1>7, <1>11, BackwardCorners, SMTT(30) DEF y
<1>16. /\ Size(Box(box.l, x - n, box.t, y - n)) < Size(box)
       /\ Size(Box((x - n) + n, box.r, (y - n) + n, box.b)) < Size(box)
  BY <1>3, <1>10, <1>11, <1>13, <1>14, <1>15, MeetsShorter
<1> QED
  BY <1>8, <1>14, <1>16, <1>b DEF Halved

\* Every split is one of the two.
LEMMA StepsHalve == DiffInvariant /\ FirstDiffers /\ [DiffNext]_diffVars => [Halved]_diffVars
<1> SUFFICES ASSUME DiffInvariant, FirstDiffers, DiffNext PROVE Halved
  OBVIOUS
<1>1. CASE StepForward
  BY <1>1, ForwardHalves
<1>2. CASE StepBackward
  BY <1>2, BackwardHalves
<1>3. CASE ~StepForward /\ ~StepBackward
  <2>1. stage \notin {"forward", "backward"}
    BY <1>3 DEF DiffNext, Refrain, Begin, SolveEdge, SolveSplit, KeepLines, Doing,
       Scripted, HunkOpens, HunkGoesOn, HunkEnds, HunkStep, Show,
       ApplyHunk, ApplyLine, ApplyCounts, ApplyRest
  <2> QED
    BY <2>1 DEF Halved
<1> QED
  BY <1>1, <1>2, <1>3

\* For any two texts, bounds and context: a middle snake leaves two boxes that
\* are each smaller than the one it splits, so that solve comes to an end. It
\* does because the lines both texts share are taken off a box first.
THEOREM HalvesAreSmaller == DiffSpec => [][Halved]_diffVars
<1>1. DiffInit => FirstDiffers
  BY DEF DiffInit, FirstDiffers
<1> QED
  BY <1>1, DiffInvariantHolds, DiffersStays, StepsHalve, PTL DEF DiffSpec
=============================================================================
