--------------------------- MODULE WriteGuardProofs ---------------------------
(***************************************************************************)
(* Proofs about WriteGuard, for any number of commits of the server and of *)
(* the operator, any limit, and worlds with any number of edits, switches, *)
(* midnights and restarts.                                                 *)
(***************************************************************************)
EXTENDS WriteGuard, FiniteSetTheorems, TLAPS

-----------------------------------------------------------------------------
(* Types.                                                                  *)

Results == {"none", "skipped", "denied", "failed", "conflict", "verified"}

\* A step leads a commit on, or ends it.
Moves(c) ==
    \/ \E step \in Steps : Goto(c, step) /\ UNCHANGED <<result, sent>>
    \/ \E state \in Results, maybe \in BOOLEAN : Ended(c, state, maybe)

LEMMA TypeInit == Init => TypeOK
<1> SUFFICES ASSUME Init PROVE TypeOK
  OBVIOUS
<1>1. /\ world \in Worlds /\ world.flips \in Nat /\ world.restarts \in Nat
      /\ flips \in 0 .. world.flips /\ restarts \in 0 .. world.restarts
      /\ day \in Days
  BY GuardAssumption DEF Init, Days
<1>2. page \in [version : Nat, text : Texts]
  BY DEF Init, Texts
<1>3. /\ kind \in [Commits -> {"change", "create"}]
      /\ by \in [Commits -> {"tool", "undo", "approve"}]
  BY DEF Init
<1> QED
  BY <1>1, <1>2, <1>3 DEF Init, TypeOK, Steps

LEMMA MoveTypes ==
    ASSUME TypeOK, NEW c \in Commits, Moves(c)
    PROVE  /\ pc' \in [Commits -> Steps]
           /\ result' \in [Commits -> Results]
           /\ sent' \in [Commits -> BOOLEAN]
<1>1. "audit" \in Steps
  BY DEF Steps
<1>2. ASSUME NEW state \in Results, NEW maybe \in BOOLEAN, Ended(c, state, maybe)
      PROVE  /\ pc' \in [Commits -> Steps]
             /\ result' \in [Commits -> Results]
             /\ sent' \in [Commits -> BOOLEAN]
  BY <1>1, <1>2 DEF TypeOK, Ended, Goto, Results
<1>3. ASSUME NEW step \in Steps, Goto(c, step), UNCHANGED <<result, sent>>
      PROVE  /\ pc' \in [Commits -> Steps]
             /\ result' \in [Commits -> Results]
             /\ sent' \in [Commits -> BOOLEAN]
  BY <1>3 DEF TypeOK, Goto, Results
<1> QED
  BY <1>2, <1>3 DEF Moves

LEMMA TypeNext == TypeOK /\ [Next]_vars => TypeOK'
<1> SUFFICES ASSUME TypeOK, [Next]_vars PROVE TypeOK'
  OBVIOUS
<1> USE GuardAssumption DEF remote, given, plan, outcome, quota, stops, lives
<1>0. world' = world => Days' = Days
  BY DEF Days
<1> USE <1>0
<1>1. ASSUME NEW c \in Commits, Step(c) PROVE TypeOK'
  <2>1. CASE PlanOnce(c)
    <3>1. Moves(c)
      BY <2>1 DEF PlanOnce, Moves, Results, Steps, Denied
    <3> QED
      <4>1. base' \in [Commits -> Nat]
        BY <2>1 DEF PlanOnce, TypeOK
      <4> QED
        BY <2>1, <3>1, <4>1, MoveTypes DEF PlanOnce, TypeOK, Results
  <2>2. CASE Confirm(c)
    <3>1. Moves(c)
      BY <2>2 DEF Confirm, Moves, Results, Steps, Denied
    <3> QED
      BY <2>2, <3>1, MoveTypes DEF Confirm, TypeOK, Results
  <2>3. CASE Start(c)
    <3>1. Moves(c)
      BY <2>3 DEF Start, Moves, Results, Steps, Denied
    <3> QED
      BY <2>3, <3>1, MoveTypes DEF Start, TypeOK, Results
  <2>4. CASE ReadTarget(c)
    <3>1. Moves(c)
      BY <2>4 DEF ReadTarget, Moves, Results, Steps
    <3> QED
      BY <2>4, <3>1, MoveTypes DEF ReadTarget, TypeOK, Results
  <2>5. CASE ReadRefused(c)
    <3>1. Moves(c)
      BY <2>5 DEF ReadRefused, Moves, Results, Steps, Denied
    <3> QED
      BY <2>5, <3>1, MoveTypes DEF ReadRefused, TypeOK, Results, Use
  <2>6. CASE CheckProof(c)
    <3>1. Moves(c)
      BY <2>6 DEF CheckProof, Moves, Results, Steps, Denied
    <3> QED
      BY <2>6, <3>1, MoveTypes DEF CheckProof, TypeOK, Results, Use
  <2>7. CASE CheckPolicy(c)
    <3>1. Moves(c)
      BY <2>7 DEF CheckPolicy, Moves, Results, Steps, Denied
    <3> QED
      BY <2>7, <3>1, MoveTypes DEF CheckPolicy, TypeOK, Results
  <2>8. CASE PolicyRefuses(c)
    <3>1. Moves(c)
      BY <2>8 DEF PolicyRefuses, Moves, Results, Steps, Denied
    <3> QED
      BY <2>8, <3>1, MoveTypes DEF PolicyRefuses, TypeOK, Results
  <2>9. CASE CheckAgain(c)
    <3>1. Moves(c)
      BY <2>9 DEF CheckAgain, Moves, Results, Steps, Denied
    <3> QED
      BY <2>9, <3>1, MoveTypes DEF CheckAgain, TypeOK, Results
  <2>10. CASE SaveBefore(c)
    <3>1. Moves(c)
      BY <2>10 DEF SaveBefore, Moves, Results, Steps
    <3> QED
      <4>1. before' \in [Commits -> Nat \cup {None}]
        <5>1. base[c] \in Nat /\ before \in [Commits -> Nat \cup {None}]
          BY DEF TypeOK
        <5>2. before' = before \/ before' = [before EXCEPT ![c] = base[c]]
          BY <2>10 DEF SaveBefore
        <5> QED
          BY <5>1, <5>2
      <4> QED
        BY <2>10, <3>1, <4>1, MoveTypes DEF SaveBefore, TypeOK, Results
  <2>11. CASE Send(c)
    <3>1. Moves(c)
      BY <2>11 DEF Send, Moves, Results, Steps
    <3> QED
      BY <2>11, <3>1, MoveTypes DEF Send, TypeOK, Results
  <2>12. CASE NotSent(c)
    <3>1. Moves(c)
      BY <2>12 DEF NotSent, Moves, Results, Steps
    <3> QED
      BY <2>12, <3>1, MoveTypes DEF NotSent, TypeOK, Results
  <2>13. CASE Answered(c)
    <3>1. Moves(c)
      BY <2>13 DEF Answered, Moves, Results, Steps
    <3> QED
      BY <2>13, <3>1, MoveTypes DEF Answered, TypeOK, Results
  <2>14. CASE Refused(c)
    <3>1. Moves(c)
      BY <2>14 DEF Refused, Moves, Results, Steps
    <3> QED
      BY <2>14, <3>1, MoveTypes DEF Refused, TypeOK, Results
  <2>15. CASE Unanswered(c)
    <3>1. Moves(c)
      BY <2>15 DEF Unanswered, Moves, Results, Steps
    <3> QED
      BY <2>15, <3>1, MoveTypes DEF Unanswered, TypeOK, Results
  <2>16. CASE CompleteCreate(c)
    <3>1. Moves(c)
      BY <2>16 DEF CompleteCreate, Moves, Results, Steps
    <3> QED
      BY <2>16, <3>1, MoveTypes DEF CompleteCreate, TypeOK, Results
  <2>17. CASE ReadBackFails(c)
    <3>1. Moves(c)
      BY <2>17 DEF ReadBackFails, Moves, Results, Steps
    <3> QED
      BY <2>17, <3>1, MoveTypes DEF ReadBackFails, TypeOK, Results
  <2>18. CASE ReadBackNew(c)
    <3>1. Moves(c)
      BY <2>18 DEF ReadBackNew, Moves, Results, Steps
    <3> QED
      BY <2>18, <3>1, MoveTypes DEF ReadBackNew, TypeOK, Results
  <2>19. CASE ReadBackChange(c)
    <3>1. Moves(c)
      BY <2>19 DEF ReadBackChange, Moves, Results, Steps
    <3> QED
      BY <2>19, <3>1, MoveTypes DEF ReadBackChange, TypeOK, Results
  <2>20. CASE Audit(c)
    <3>1. Moves(c)
      BY <2>20 DEF Audit, Moves, Results, Steps
    <3> QED
      BY <2>20, <3>1, MoveTypes DEF Audit, TypeOK, Results
  <2>21. CASE AskCount(c)
    <3>1. Moves(c)
      BY <2>21 DEF AskCount, Moves, Results, Steps
    <3> QED
      BY <2>21, <3>1, MoveTypes DEF AskCount, TypeOK, Results, Days
  <2> QED
    BY <1>1, <2>1, <2>2, <2>3, <2>4, <2>5, <2>6, <2>7, <2>8, <2>9, <2>10, <2>11, <2>12,
       <2>13, <2>14, <2>15, <2>16, <2>17, <2>18, <2>19, <2>20, <2>21 DEF Step
<1>2. ASSUME NEW c \in Commits, ProofExpires(c) PROVE TypeOK'
  BY <1>2 DEF ProofExpires, TypeOK
<1>3. ASSUME NEW c \in Commits, Land(c) PROVE TypeOK'
  <2>1. TextOf(c) \in Texts
    BY DEF TextOf, Texts
  <2> QED
    BY <1>3, <2>1 DEF Land, TypeOK
<1>4. ASSUME NEW c \in Commits, Refuse(c) PROVE TypeOK'
  BY <1>4 DEF Refuse, TypeOK
<1>5. ASSUME NEW c \in Commits, PersonEditsNew(c) PROVE TypeOK'
  BY <1>5 DEF PersonEditsNew, TypeOK
<1>6. CASE PersonEdits
  BY <1>6 DEF PersonEdits, TypeOK, Texts
<1>7. CASE FlipSwitch
  BY <1>7 DEF FlipSwitch, TypeOK
<1>8. CASE Midnight
  BY <1>8 DEF Midnight, TypeOK, Days
<1>9. CASE Restart
  <2>1. /\ pc' \in [Commits -> Steps]
        /\ askedOn' \in [Commits -> Days \cup {None}]
        /\ gone' \subseteq Commits
    BY <1>9 DEF Restart, TypeOK, Steps
  <2>2. restarts' \in 0 .. world.restarts
    BY <1>9 DEF Restart, TypeOK
  <2>3. /\ world' = world /\ page' = page /\ made' = made /\ flight' = flight
        /\ kind' = kind /\ by' = by /\ base' = base /\ proof' = proof
        /\ before' = before /\ failure' = failure /\ result' = result
        /\ sent' = sent /\ recorded' = recorded /\ lost' = lost
        /\ switchOff' = switchOff /\ blocked' = FALSE /\ flips' = flips
    BY <1>9 DEF Restart
  <2>4. /\ counts' = counts /\ day' = day /\ swept' = swept /\ answer' = answer
        /\ afresh' = afresh /\ Days' = Days
    BY <1>9 DEF Restart
  <2> HIDE <1>9
  <2> QED
    BY <2>1, <2>2, <2>3, <2>4, ZenonT(60) DEF TypeOK
<1>10. ASSUME NEW c \in Commits, StoreCounts(c) PROVE TypeOK'
  <2>1. PICK n \in 1 .. counts[askedOn[c]] + 1 :
            /\ Counted(askedOn[c], n) /\ answer' = [answer EXCEPT ![c] = n]
    BY <1>10 DEF StoreCounts
  <2>2. askedOn[c] \in Days /\ Days \subseteq Nat /\ n \in Nat /\ Days' = Days
        /\ counts[askedOn[c]] \in Nat
    BY <1>10 DEF StoreCounts, TypeOK, Days
  <2>3. PICK removed \in {{}, 0 .. askedOn[c] - 1} :
            /\ counts' = [e \in Days |-> IF e = askedOn[c] THEN n
                                        ELSE IF e \in removed THEN 0 ELSE counts[e]]
            /\ swept' = swept \cup removed
    BY <2>1 DEF Counted
  <2>4. counts' \in [Days -> Nat]
    BY <2>2, <2>3 DEF TypeOK
  <2>5. removed \subseteq Days
    <3>1. askedOn[c] \in Nat /\ world.days \in Nat /\ askedOn[c] <= world.days
      BY <2>2, GuardAssumption DEF TypeOK, Days
    <3>2. 0 .. askedOn[c] - 1 \subseteq 0 .. world.days
      BY ONLY <3>1
    <3> QED
      BY <2>3, <3>2 DEF Days
  <2>6. swept' \subseteq Days
    BY <2>3, <2>5 DEF TypeOK
  <2>7. answer' \in [Commits -> Nat \cup {None}] /\ afresh' \subseteq Commits
    BY <1>10, <2>1, <2>2 DEF StoreCounts, TypeOK
  <2> QED
    BY <1>10, <2>2, <2>4, <2>6, <2>7 DEF StoreCounts, TypeOK
<1>11. CASE CleanUp
  <2>1. Days' = Days /\ counts' \in [Days -> Nat] /\ swept' \subseteq Days
    BY <1>11 DEF CleanUp, TypeOK, Days
  <2> QED
    BY <1>11, <2>1 DEF CleanUp, TypeOK
<1>12. CASE UNCHANGED vars
  BY <1>12 DEF vars, TypeOK, Days
<1> QED
  BY <1>1, <1>2, <1>3, <1>4, <1>5, <1>6, <1>7, <1>8, <1>9, <1>10, <1>11, <1>12 DEF Next

\* Every variable keeps its type.
THEOREM TypeCorrect == Spec => []TypeOK
BY TypeInit, TypeNext, PTL DEF Spec

-----------------------------------------------------------------------------
(* The invariant of one commit.                                            *)

AfterSend == {"wait", "complete", "readback", "audit", "done"}

\* A request leaves once, after its snapshot; a refusal is told only where
\* ChurchTools refused; a commit whose request may land says so when it ends;
\* and what it says has its line, or the guard is blocked.
MayLand(c) == flight[c] \in {"open", "landed"}

Sound(c) ==
    /\ flight[c] # "none" => pc[c] \in AfterSend
    /\ world.snapshots /\ (pc[c] = "send" \/ flight[c] # "none") => before[c] = base[c]
    /\ failure[c] = "definite" => flight[c] = "refused"
    /\ by[c] = "tool" /\ c \notin gone /\ MayLand(c) /\ pc[c] \in {"audit", "done"}
           => sent[c]
    /\ by[c] = "tool" /\ c \notin gone /\ sent[c] /\ pc[c] = "done" /\ c \notin recorded
           => blocked

SoundInv == TypeOK /\ \A c \in Commits : Sound(c)

\* A step of a commit leaves the others alone.
LEMMA OthersStay ==
    ASSUME TypeOK, NEW c \in Commits, Step(c), NEW d \in Commits \ {c}
    PROVE  /\ pc'[d] = pc[d] /\ base'[d] = base[d] /\ before'[d] = before[d]
           /\ flight'[d] = flight[d] /\ result'[d] = result[d] /\ sent'[d] = sent[d]
           /\ failure'[d] = failure[d] /\ askedOn'[d] = askedOn[d]
           /\ (d \in recorded' <=> d \in recorded)
<1> USE DEF remote, given, plan, outcome, quota, stops, lives
<1>0. /\ pc \in [Commits -> Steps] /\ base \in [Commits -> Nat]
      /\ before \in [Commits -> Nat \cup {None}]
      /\ flight \in [Commits -> {"none", "open", "landed", "refused"}]
      /\ result \in [Commits -> Results] /\ sent \in [Commits -> BOOLEAN]
      /\ askedOn \in [Commits -> Days \cup {None}]
      /\ failure \in [Commits -> {"none", "definite", "unknown"}]
  BY DEF TypeOK, Results
<1>1. ASSUME Moves(c)
      PROVE  pc'[d] = pc[d] /\ result'[d] = result[d] /\ sent'[d] = sent[d]
  BY <1>0, <1>1 DEF Moves, Goto, Ended
<1> DEFINE Rest == /\ base'[d] = base[d] /\ before'[d] = before[d]
                   /\ flight'[d] = flight[d] /\ askedOn'[d] = askedOn[d]
                   /\ failure'[d] = failure[d] /\ (d \in recorded' <=> d \in recorded)
<1>2. Moves(c)
  BY DEF Step, PlanOnce, Confirm, Start, ReadTarget, ReadRefused, CheckProof, AskCount,
         CheckPolicy, PolicyRefuses, CheckAgain, SaveBefore, Send, NotSent, Answered,
         Refused, Unanswered, CompleteCreate, ReadBackFails, ReadBackNew, ReadBackChange,
         Audit, Moves, Results, Steps, Denied
<1>3. ASSUME PlanOnce(c) PROVE Rest
  BY <1>0, <1>3 DEF PlanOnce
<1>4. ASSUME AskCount(c) PROVE Rest
  BY <1>0, <1>4 DEF AskCount
<1>5. ASSUME SaveBefore(c) PROVE Rest
  BY <1>0, <1>5 DEF SaveBefore
<1>6. ASSUME Send(c) PROVE Rest
  BY <1>0, <1>6 DEF Send
<1>7. ASSUME Refused(c) \/ Unanswered(c) PROVE Rest
  BY <1>0, <1>7 DEF Refused, Unanswered
<1>8. ASSUME Audit(c) PROVE Rest
  BY <1>0, <1>8 DEF Audit
<1>9. ASSUME ~(PlanOnce(c) \/ AskCount(c) \/ SaveBefore(c) \/ Send(c) \/ Refused(c)
               \/ Unanswered(c) \/ Audit(c))
      PROVE  Rest
  <2>1. UNCHANGED <<base, before, flight, failure, askedOn, recorded>>
    BY <1>9 DEF Step, Confirm, Start, ReadTarget, ReadRefused, CheckProof, CheckPolicy,
           PolicyRefuses, CheckAgain, NotSent, Answered, CompleteCreate, ReadBackFails,
           ReadBackNew, ReadBackChange
  <2> QED
    BY <2>1
<1> HIDE DEF Rest
<1>10. Rest
  BY <1>3, <1>4, <1>5, <1>6, <1>7, <1>8, <1>9
<1> QED
  BY <1>1, <1>2, <1>10 DEF Rest

\* What no step of a commit changes.
LEMMA StepFrame ==
    ASSUME NEW c \in Commits, Step(c)
    PROVE  /\ UNCHANGED <<world, kind, by, page, made, lost, switchOff>>
           /\ UNCHANGED <<counts, day, swept, answer, afresh, lives>>
           /\ blocked => blocked'
<1> USE DEF remote, given, plan, outcome, quota, stops, lives
<1>1. /\ UNCHANGED <<world, kind, by, page, made, lost, switchOff>>
      /\ UNCHANGED <<counts, day, swept, answer, afresh, lives>>
  <2>1. CASE PlanOnce(c)
    BY <2>1 DEF PlanOnce
  <2>2. CASE Confirm(c)
    BY <2>2 DEF Confirm
  <2>3. CASE Start(c)
    BY <2>3 DEF Start
  <2>4. CASE ReadTarget(c)
    BY <2>4 DEF ReadTarget
  <2>5. CASE ReadRefused(c)
    BY <2>5 DEF ReadRefused
  <2>6. CASE CheckProof(c)
    BY <2>6 DEF CheckProof
  <2>7. CASE CheckPolicy(c)
    BY <2>7 DEF CheckPolicy
  <2>8. CASE PolicyRefuses(c)
    BY <2>8 DEF PolicyRefuses
  <2>9. CASE CheckAgain(c)
    BY <2>9 DEF CheckAgain
  <2>10. CASE SaveBefore(c)
    BY <2>10 DEF SaveBefore
  <2>11. CASE Send(c)
    BY <2>11 DEF Send
  <2>12. CASE NotSent(c)
    BY <2>12 DEF NotSent
  <2>13. CASE Answered(c)
    BY <2>13 DEF Answered
  <2>14. CASE Refused(c)
    BY <2>14 DEF Refused
  <2>15. CASE Unanswered(c)
    BY <2>15 DEF Unanswered
  <2>16. CASE CompleteCreate(c)
    BY <2>16 DEF CompleteCreate
  <2>17. CASE ReadBackFails(c)
    BY <2>17 DEF ReadBackFails
  <2>18. CASE ReadBackNew(c)
    BY <2>18 DEF ReadBackNew
  <2>19. CASE ReadBackChange(c)
    BY <2>19 DEF ReadBackChange
  <2>20. CASE Audit(c)
    BY <2>20 DEF Audit
  <2>21. CASE AskCount(c)
    BY <2>21 DEF AskCount
  <2> QED
    BY <2>1, <2>2, <2>3, <2>4, <2>5, <2>6, <2>7, <2>8, <2>9, <2>10, <2>11, <2>12,
       <2>13, <2>14, <2>15, <2>16, <2>17, <2>18, <2>19, <2>20, <2>21 DEF Step
<1>2. blocked => blocked'
  <2>1. CASE Audit(c)
    BY <2>1 DEF Audit
  <2>2. CASE UNCHANGED blocked
    BY <2>2
  <2>3. Audit(c) \/ UNCHANGED blocked
    BY DEF Step, PlanOnce, Confirm, Start, ReadTarget, ReadRefused, CheckProof,
           AskCount, CheckPolicy, PolicyRefuses, CheckAgain, SaveBefore, Send, NotSent,
           Answered, Refused, Unanswered, CompleteCreate, ReadBackFails, ReadBackNew,
           ReadBackChange
  <2> QED
    BY <2>1, <2>2, <2>3
<1> QED
  BY <1>1, <1>2

LEMMA SoundInit == Init => SoundInv
BY TypeInit DEF Init, SoundInv, Sound, MayLand

LEMMA SoundStep ==
    ASSUME TypeOK, NEW c \in Commits, Sound(c), Step(c)
    PROVE  Sound(c)'
<1> USE DEF remote, given, plan, outcome, quota, stops, lives, Sound, AfterSend, MayLand
<1>1. UNCHANGED <<world, by, gone>>
  BY StepFrame
<1>2. /\ pc \in [Commits -> Steps] /\ base \in [Commits -> Nat]
      /\ before \in [Commits -> Nat \cup {None}] /\ sent \in [Commits -> BOOLEAN]
      /\ flight \in [Commits -> {"none", "open", "landed", "refused"}]
      /\ failure \in [Commits -> {"none", "definite", "unknown"}]
  BY DEF TypeOK
<1>3. Sound(c)'
  <2>1. CASE PlanOnce(c)
    BY <1>1, <1>2, <2>1 DEF PlanOnce, Goto, Ended, Denied
  <2>2. CASE Confirm(c)
    BY <1>1, <1>2, <2>2 DEF Confirm, Goto, Ended, Denied
  <2>3. CASE Start(c)
    BY <1>1, <1>2, <2>3 DEF Start, Goto, Ended, Denied
  <2>4. CASE ReadTarget(c)
    BY <1>1, <1>2, <2>4 DEF ReadTarget, Goto
  <2>5. CASE ReadRefused(c)
    BY <1>1, <1>2, <2>5 DEF ReadRefused, Goto, Ended, Denied
  <2>6. CASE CheckProof(c)
    BY <1>1, <1>2, <2>6 DEF CheckProof, Goto, Ended, Denied
  <2>7. CASE CheckPolicy(c)
    BY <1>1, <1>2, <2>7 DEF CheckPolicy, Goto, Ended, Denied
  <2>8. CASE PolicyRefuses(c)
    BY <1>1, <1>2, <2>8 DEF PolicyRefuses, Goto, Ended, Denied
  <2>9. CASE CheckAgain(c)
    BY <1>1, <1>2, <2>9 DEF CheckAgain, Goto, Ended, Denied
  <2>10. CASE SaveBefore(c)
    BY <1>1, <1>2, <2>10 DEF SaveBefore, Goto, Ended
  <2>11. CASE Send(c)
    BY <1>1, <1>2, <2>11 DEF Send, Goto
  <2>12. CASE NotSent(c)
    BY <1>1, <1>2, <2>12 DEF NotSent, Goto, Ended
  <2>13. CASE Answered(c)
    BY <1>1, <1>2, <2>13 DEF Answered, Goto
  <2>14. CASE Refused(c)
    BY <1>1, <1>2, <2>14 DEF Refused, Goto, Ended
  <2>15. CASE Unanswered(c)
    BY <1>1, <1>2, <2>15 DEF Unanswered, Goto, Ended
  <2>16. CASE CompleteCreate(c)
    BY <1>1, <1>2, <2>16 DEF CompleteCreate, Goto, Ended
  <2>17. CASE ReadBackFails(c)
    BY <1>1, <1>2, <2>17 DEF ReadBackFails, Goto, Ended
  <2>18. CASE ReadBackNew(c)
    BY <1>1, <1>2, <2>18 DEF ReadBackNew, Goto, Ended
  <2>19. CASE ReadBackChange(c)
    BY <1>1, <1>2, <2>19 DEF ReadBackChange, Goto, Ended
  <2>20. CASE Audit(c)
    BY <1>1, <1>2, <2>20 DEF Audit, Goto
  <2>21. CASE AskCount(c)
    BY <1>1, <1>2, <2>21 DEF AskCount, Goto
  <2> QED
    BY <2>1, <2>2, <2>3, <2>4, <2>5, <2>6, <2>7, <2>8, <2>9, <2>10, <2>11, <2>12,
       <2>13, <2>14, <2>15, <2>16, <2>17, <2>18, <2>19, <2>20, <2>21 DEF Step
<1> QED
  BY <1>3

LEMMA SoundNext == SoundInv /\ [Next]_vars => SoundInv'
<1> SUFFICES ASSUME SoundInv, [Next]_vars PROVE SoundInv'
  OBVIOUS
<1> USE DEF remote, given, plan, outcome, quota, stops, lives
<1>0. TypeOK /\ TypeOK' /\ \A d \in Commits : Sound(d)
  BY TypeNext DEF SoundInv
<1>1. ASSUME NEW c \in Commits, Step(c), NEW d \in Commits PROVE Sound(d)'
  <2>1. CASE d = c
    BY <1>0, <1>1, <2>1, SoundStep
  <2>2. CASE d # c
    <3>1. /\ pc'[d] = pc[d] /\ base'[d] = base[d] /\ before'[d] = before[d]
          /\ flight'[d] = flight[d] /\ sent'[d] = sent[d]
          /\ failure'[d] = failure[d] /\ (d \in recorded' <=> d \in recorded)
      BY <1>0, <1>1, <2>2, OthersStay
    <3>2. UNCHANGED <<world, by, gone>> /\ (blocked => blocked')
      BY <1>1, StepFrame
    <3> QED
      BY <1>0, <3>1, <3>2 DEF Sound, MayLand
  <2> QED
    BY <2>1, <2>2
<1>2. ASSUME NEW c \in Commits, Land(c) \/ Refuse(c), NEW d \in Commits
      PROVE  Sound(d)'
  BY <1>0, <1>2 DEF Land, Refuse, Sound, MayLand, TypeOK
<1>3. ASSUME NEW c \in Commits, StoreCounts(c) \/ ProofExpires(c) \/ PersonEditsNew(c),
             NEW d \in Commits
      PROVE  Sound(d)'
  BY <1>0, <1>3 DEF StoreCounts, ProofExpires, PersonEditsNew, Sound, MayLand
<1>4. ASSUME PersonEdits \/ FlipSwitch \/ Midnight \/ CleanUp \/ UNCHANGED vars,
             NEW d \in Commits
      PROVE  Sound(d)'
  BY <1>0, <1>4 DEF PersonEdits, FlipSwitch, Midnight, CleanUp, vars, Sound, MayLand
<1>5. ASSUME Restart, NEW d \in Commits PROVE Sound(d)'
  <2>1. /\ UNCHANGED <<world, base, before, failure, flight, by, sent, recorded>>
        /\ gone' = gone \cup {c \in Commits : by[c] = "tool" /\ pc[c] # "plan"}
        /\ pc'[d] = IF by[d] = "tool" /\ pc[d] # "plan" THEN "done" ELSE pc[d]
    BY <1>0, <1>5 DEF Restart
  <2>2. CASE by[d] = "tool" /\ pc[d] # "plan"
    BY <1>0, <2>1, <2>2 DEF Sound, AfterSend, MayLand
  <2>3. CASE ~(by[d] = "tool" /\ pc[d] # "plan")
    BY <1>0, <2>1, <2>3 DEF Sound, AfterSend, MayLand
  <2> QED
    BY <2>2, <2>3
<1> QED
  BY <1>0, <1>1, <1>2, <1>3, <1>4, <1>5 DEF Next, SoundInv

THEOREM Soundness == Spec => []SoundInv
BY SoundInit, SoundNext, PTL DEF Spec

\* With snapshots on, no write lands before the version it was planned on is
\* kept, for any number of commits and of people.
THEOREM KeptFirst == Spec => []KeptBeforeItLands
<1>1. SoundInv => KeptBeforeItLands
  BY DEF SoundInv, Sound, KeptBeforeItLands
<1> QED
  BY <1>1, Soundness, PTL

-----------------------------------------------------------------------------
(* Stops.                                                                  *)

\* No step leads a stopped commit past its last look.
LEMMA StoppedStep ==
    ASSUME TypeOK, [Next]_vars, NEW c \in Commits, stopped(c), ~PastLastLook(c)
    PROVE  ~PastLastLook(c)'
<1> USE DEF PastLastLook
<1>0. pc \in [Commits -> Steps] /\ by \in [Commits -> {"tool", "undo", "approve"}]
  BY DEF TypeOK
<1>1. ASSUME Step(c) PROVE ~PastLastLook(c)'
  <2>1. CASE PlanOnce(c) \/ Confirm(c) \/ Start(c)
    BY <1>0, <2>1 DEF PlanOnce, Confirm, Start, Goto, Ended, Denied
  <2>2. CASE ReadTarget(c) \/ ReadRefused(c) \/ CheckProof(c)
    BY <1>0, <2>2 DEF ReadTarget, ReadRefused, CheckProof, Goto, Ended, Denied
  <2>3. CASE CheckPolicy(c)
    BY <1>0, <2>3 DEF CheckPolicy, Goto, Ended, Denied
  <2>8. CASE AskCount(c)
    BY <1>0, <2>8 DEF AskCount, Goto
  <2>4. CASE PolicyRefuses(c)
    BY <1>0, <2>4 DEF PolicyRefuses, Goto, Ended, Denied
  <2>5. CASE CheckAgain(c)
    BY <1>0, <2>5 DEF CheckAgain, Goto, Ended, Denied
  <2>6. CASE Audit(c)
    BY <1>0, <2>6 DEF Audit, Goto
  <2>7. CASE \/ SaveBefore(c) \/ Send(c) \/ NotSent(c) \/ Answered(c) \/ Refused(c)
             \/ Unanswered(c) \/ CompleteCreate(c) \/ ReadBackFails(c)
             \/ ReadBackNew(c) \/ ReadBackChange(c)
    BY <2>7 DEF SaveBefore, Send, NotSent, Answered, Refused, Unanswered,
                CompleteCreate, ReadBackFails, ReadBackNew, ReadBackChange
  <2> QED
    BY <1>1, <2>1, <2>2, <2>3, <2>4, <2>5, <2>6, <2>7, <2>8 DEF Step
<1>2. ASSUME NEW d \in Commits \ {c}, Step(d) PROVE ~PastLastLook(c)'
  BY <1>2, OthersStay
<1>3. CASE Restart
  BY <1>0, <1>3 DEF Restart
<1>4. CASE \/ \E d \in Commits : StoreCounts(d) \/ ProofExpires(d) \/ Land(d) \/ Refuse(d)
                                 \/ PersonEditsNew(d)
           \/ PersonEdits \/ FlipSwitch \/ Midnight \/ CleanUp \/ UNCHANGED vars
  BY <1>4 DEF StoreCounts, ProofExpires, Land, Refuse, PersonEditsNew, PersonEdits,
              FlipSwitch, Midnight, CleanUp, vars
<1> QED
  BY <1>1, <1>2, <1>3, <1>4 DEF Next

\* Once writing is stopped, no commit comes past its last look.
THEOREM StoppedStays == Spec => StopsHold
<1> DEFINE Stays == \A c \in Commits : stopped(c) /\ ~PastLastLook(c) => ~PastLastLook(c)'
<1>1. TypeOK /\ [Next]_vars => [Stays]_vars
  BY StoppedStep
<1> QED
  BY <1>1, TypeCorrect, PTL DEF Spec, StopsHold

\* Once a write that may land has no line in the audit, whatever its answer or
\* its read back said, no other call of this server comes past its last look.
THEOREM UnrecordedStaysLast == Spec => UnrecordedStops
<1> DEFINE Stays == \A c, d \in Commits :
                        Untold(c) /\ by[d] = "tool" /\ ~PastLastLook(d)
                            => ~PastLastLook(d)'
<1>1. SoundInv /\ [Next]_vars => [Stays]_vars
  <2> SUFFICES ASSUME SoundInv, [Next]_vars, NEW c \in Commits, NEW d \in Commits,
                      Untold(c), by[d] = "tool", ~PastLastLook(d)
               PROVE  ~PastLastLook(d)'
    OBVIOUS
  <2>1. TypeOK /\ Sound(c)
    BY DEF SoundInv
  <2>2. blocked
    BY <2>1 DEF Untold, Sound, MayLand
  <2> QED
    BY <2>1, <2>2, StoppedStep DEF stopped
<1> QED
  BY <1>1, Soundness, PTL DEF Spec, UnrecordedStops

-----------------------------------------------------------------------------
(* The limit of a day.                                                     *)

\* What a commit was counted with: nothing before it is asked for, and a call
\* of the server goes on, and sends, only with a count within the limit.
Within(c) == answer[c] # None /\ answer[c] <= Limit

Placed(c) ==
    /\ pc[c] \in {"plan", "ask", "start", "read", "check", "policy"} => askedOn[c] = None
    /\ askedOn[c] = None => answer[c] = None
    /\ by[c] = "tool" /\ (pc[c] \in {"again", "save", "send"} \/ flight[c] # "none")
           => Within(c)

\* The calls of the server that hold a place of a day, in the counter as it was
\* before any count of a later day removed it.
Taken(d) ==
    {c \in Commits : by[c] = "tool" /\ askedOn[c] = d /\ Within(c) /\ c \notin afresh}

LimitInv ==
    /\ SoundInv /\ \A c \in Commits : Placed(c)
    /\ \A d \in Days : /\ Cardinality(Taken(d)) <= Limit
                       /\ d \notin swept => Cardinality(Taken(d)) <= counts[d]

LEMMA PlacedStep ==
    ASSUME TypeOK, NEW c \in Commits, Sound(c), Placed(c), Step(c)
    PROVE  Placed(c)'
<1> USE DEF remote, given, plan, outcome, quota, stops, lives, Placed, Within
<1>1. UNCHANGED <<by, answer>>
  BY StepFrame
<1>2. /\ pc \in [Commits -> Steps] /\ by \in [Commits -> {"tool", "undo", "approve"}]
      /\ flight \in [Commits -> {"none", "open", "landed", "refused"}]
      /\ askedOn \in [Commits -> Days \cup {None}]
  BY DEF TypeOK
<1>3. flight[c] # "none" => pc[c] \in AfterSend
  BY DEF Sound
<1> USE DEF Goto, Ended, Denied, AfterSend
<1>4. QED
  <2>1. CASE PlanOnce(c)
    BY <1>1, <1>2, <1>3, <2>1 DEF PlanOnce
  <2>2. CASE Confirm(c)
    BY <1>1, <1>2, <1>3, <2>2 DEF Confirm
  <2>3. CASE Start(c)
    BY <1>1, <1>2, <1>3, <2>3 DEF Start
  <2>4. CASE ReadTarget(c)
    BY <1>1, <1>2, <1>3, <2>4 DEF ReadTarget
  <2>5. CASE ReadRefused(c)
    BY <1>1, <1>2, <1>3, <2>5 DEF ReadRefused
  <2>6. CASE CheckProof(c)
    BY <1>1, <1>2, <1>3, <2>6 DEF CheckProof
  <2>7. CASE CheckPolicy(c)
    BY <1>1, <1>2, <1>3, <2>7 DEF CheckPolicy
  <2>8. CASE PolicyRefuses(c)
    BY <1>1, <1>2, <1>3, <2>8 DEF PolicyRefuses
  <2>9. CASE CheckAgain(c)
    BY <1>1, <1>2, <1>3, <2>9 DEF CheckAgain
  <2>10. CASE SaveBefore(c)
    BY <1>1, <1>2, <1>3, <2>10 DEF SaveBefore
  <2>11. CASE Send(c)
    BY <1>1, <1>2, <1>3, <2>11 DEF Send
  <2>12. CASE NotSent(c)
    BY <1>1, <1>2, <1>3, <2>12 DEF NotSent
  <2>13. CASE Answered(c)
    BY <1>1, <1>2, <1>3, <2>13 DEF Answered
  <2>14. CASE Refused(c)
    BY <1>1, <1>2, <1>3, <2>14 DEF Refused
  <2>15. CASE Unanswered(c)
    BY <1>1, <1>2, <1>3, <2>15 DEF Unanswered
  <2>16. CASE CompleteCreate(c)
    BY <1>1, <1>2, <1>3, <2>16 DEF CompleteCreate
  <2>17. CASE ReadBackFails(c)
    BY <1>1, <1>2, <1>3, <2>17 DEF ReadBackFails
  <2>18. CASE ReadBackNew(c)
    BY <1>1, <1>2, <1>3, <2>18 DEF ReadBackNew
  <2>19. CASE ReadBackChange(c)
    BY <1>1, <1>2, <1>3, <2>19 DEF ReadBackChange
  <2>20. CASE Audit(c)
    BY <1>1, <1>2, <1>3, <2>20 DEF Audit
  <2>21. CASE AskCount(c)
    BY <1>1, <1>2, <1>3, <2>21 DEF AskCount
  <2> QED
    BY <2>1, <2>2, <2>3, <2>4, <2>5, <2>6, <2>7, <2>8, <2>9, <2>10, <2>11, <2>12,
       <2>13, <2>14, <2>15, <2>16, <2>17, <2>18, <2>19, <2>20, <2>21 DEF Step

LEMMA PlacedNext ==
    ASSUME SoundInv, \A c \in Commits : Placed(c), [Next]_vars, NEW c \in Commits
    PROVE  Placed(c)'
<1> USE DEF remote, given, plan, outcome, quota, stops, lives
<1>0. TypeOK /\ Placed(c) /\ Sound(c)
  BY DEF SoundInv
<1>1. ASSUME Step(c) PROVE Placed(c)'
  BY <1>0, <1>1, PlacedStep
<1>2. ASSUME NEW d \in Commits \ {c}, Step(d) PROVE Placed(c)'
  <2>1. UNCHANGED <<by, answer>>
    BY <1>2, StepFrame
  <2>2. pc'[c] = pc[c] /\ askedOn'[c] = askedOn[c] /\ flight'[c] = flight[c]
    BY <1>0, <1>2, OthersStay
  <2> QED
    BY <1>0, <2>1, <2>2 DEF Placed, Within
<1>3. ASSUME NEW d \in Commits, StoreCounts(d) PROVE Placed(c)'
  <2>1. /\ UNCHANGED <<pc, askedOn, flight, by>> /\ askedOn[d] # None /\ answer[d] = None
    BY <1>3 DEF StoreCounts
  <2>2. PICK n \in 1 .. counts[askedOn[d]] + 1 : answer' = [answer EXCEPT ![d] = n]
    BY <1>3 DEF StoreCounts
  <2>3. CASE c = d
    BY <1>0, <2>1, <2>3 DEF Placed, Within
  <2>4. CASE c # d
    <3>1. answer'[c] = answer[c]
      BY <1>0, <2>2, <2>4 DEF TypeOK
    <3> QED
      BY <1>0, <2>1, <3>1 DEF Placed, Within
  <2> QED
    BY <2>3, <2>4
<1>4. ASSUME NEW d \in Commits, Land(d) \/ Refuse(d) PROVE Placed(c)'
  <2>1. /\ UNCHANGED <<pc, askedOn, answer, by>> /\ flight[d] = "open"
        /\ \E f \in {"landed", "refused"} : flight' = [flight EXCEPT ![d] = f]
    BY <1>4 DEF Land, Refuse
  <2> QED
    BY <1>0, <2>1 DEF Placed, Within, TypeOK
<1>5. CASE Restart
  <2>1. /\ UNCHANGED <<flight, answer, by>>
        /\ pc'[c] = pc[c] \/ pc'[c] = "done"
        /\ askedOn'[c] = IF by[c] = "tool" /\ pc[c] # "plan" /\ answer[c] = None
                           THEN None ELSE askedOn[c]
    BY <1>0, <1>5 DEF Restart, TypeOK
  <2> QED
    BY <1>0, <2>1 DEF Placed, Within
<1>6. CASE \/ \E d \in Commits : ProofExpires(d) \/ PersonEditsNew(d)
           \/ PersonEdits \/ FlipSwitch \/ Midnight \/ CleanUp \/ UNCHANGED vars
  BY <1>0, <1>6 DEF ProofExpires, PersonEditsNew, PersonEdits, FlipSwitch, Midnight,
                    CleanUp, vars, Placed, Within
<1> QED
  BY <1>1, <1>2, <1>3, <1>4, <1>5, <1>6 DEF Next

\* A place of a day is taken only as the store counts on it, within the limit
\* and before any count of a later day.
LEMMA TakenMoves ==
    ASSUME LimitInv, [Next]_vars, NEW d \in Days
    PROVE  /\ counts[d] \in Nat /\ counts'[d] \in Nat
           /\ \/ /\ Taken(d)' \subseteq Taken(d)
                 /\ d \notin swept' => d \notin swept /\ counts[d] <= counts'[d]
              \/ \E c \in Commits : /\ Taken(d)' \subseteq Taken(d) \cup {c}
                                    /\ d \notin swept
                                    /\ counts'[d] = counts[d] + 1 /\ counts'[d] <= Limit
<1> USE DEF remote, given, plan, outcome, quota, stops, lives
<1> DEFINE Kept == /\ Taken(d)' \subseteq Taken(d)
                   /\ d \notin swept' => d \notin swept /\ counts[d] <= counts'[d]
           Took(c) == /\ Taken(d)' \subseteq Taken(d) \cup {c}
                      /\ d \notin swept
                      /\ counts'[d] = counts[d] + 1 /\ counts'[d] <= Limit
<1>0. /\ TypeOK /\ counts[d] \in Nat /\ counts'[d] \in Nat /\ d \in Nat
      /\ \A c \in Commits : Placed(c)
  <2>1. TypeOK /\ TypeOK' /\ \A c \in Commits : Placed(c)
    BY TypeNext DEF LimitInv, SoundInv
  <2>2. world' = world
    BY StepFrame DEF Next, StoreCounts, ProofExpires, Land, Refuse, PersonEditsNew,
       PersonEdits, FlipSwitch, Midnight, CleanUp, Restart, vars
  <2>3. Days' = Days
    BY <2>2 DEF Days
  <2>4. counts \in [Days -> Nat] /\ counts' \in [Days -> Nat]
    BY <2>1, <2>3 DEF TypeOK
  <2>5. d \in Nat
    BY DEF Days
  <2> QED
    BY <2>1, <2>4, <2>5
<1>1. ASSUME UNCHANGED <<by, askedOn, answer, afresh, counts, swept>> PROVE Kept
  BY <1>0, <1>1 DEF Taken, Within
<1>2. ASSUME NEW c \in Commits, Step(c) PROVE Kept
  <2>1. UNCHANGED <<by, answer, afresh, counts, swept>>
    BY <1>2, StepFrame
  <2>2. \A b \in Commits \ {c} : askedOn'[b] = askedOn[b]
    BY <1>0, <1>2, OthersStay
  <2>3. CASE AskCount(c)
    <3>1. answer[c] = None
      BY <1>0, <2>3 DEF AskCount, Placed
    <3> QED
      BY <1>0, <2>1, <2>2, <3>1 DEF Taken, Within
  <2>4. CASE ~AskCount(c)
    <3>1. askedOn' = askedOn
      BY <1>2, <2>4 DEF Step, PlanOnce, Confirm, Start, ReadTarget, ReadRefused, CheckProof,
           CheckPolicy, PolicyRefuses, CheckAgain, SaveBefore, Send, NotSent, Answered,
           Refused, Unanswered, CompleteCreate, ReadBackFails, ReadBackNew,
           ReadBackChange, Audit
    <3> QED
      BY <1>1, <2>1, <3>1
  <2> QED
    BY <2>3, <2>4
<1>3. ASSUME NEW c \in Commits, StoreCounts(c) PROVE Kept \/ Took(c)
  <2>1. /\ UNCHANGED <<by, askedOn>> /\ askedOn[c] \in Days
        /\ afresh' = IF askedOn[c] \in swept THEN afresh \cup {c} ELSE afresh
    BY <1>0, <1>3 DEF StoreCounts, TypeOK
  <2>2. PICK n \in 1 .. counts[askedOn[c]] + 1 :
            /\ askedOn[c] \in swept \/ n = counts[askedOn[c]] + 1
            /\ Counted(askedOn[c], n) /\ answer' = [answer EXCEPT ![c] = n]
    BY <1>3 DEF StoreCounts
  <2>3. PICK removed \in {{}, 0 .. askedOn[c] - 1} :
            /\ counts' = [e \in Days |-> IF e = askedOn[c] THEN n
                                        ELSE IF e \in removed THEN 0 ELSE counts[e]]
            /\ swept' = swept \cup removed
    BY <2>2 DEF Counted
  <2>4. askedOn[c] \notin removed /\ askedOn[c] \in Nat
    BY <2>1, <2>3 DEF Days
  <2>5. Taken(d)' \subseteq Taken(d) \cup {c}
    BY <1>0, <2>1, <2>2 DEF Taken, Within, TypeOK
  <2>6. CASE askedOn[c] # d
    <3>1. Taken(d)' \subseteq Taken(d)
      BY <2>1, <2>5, <2>6 DEF Taken
    <3>2. d \notin swept' => d \notin swept /\ counts'[d] = counts[d]
      BY <2>3, <2>6
    <3> QED
      BY <1>0, <3>1, <3>2
  <2>7. CASE askedOn[c] = d /\ d \in swept
    <3>1. c \in afresh'
      BY <2>1, <2>7
    <3>2. Taken(d)' \subseteq Taken(d)
      BY <2>5, <3>1 DEF Taken
    <3> QED
      BY <2>3, <2>7, <3>2
  <2>8. CASE askedOn[c] = d /\ d \notin swept
    <3>1. counts'[d] = n /\ n = counts[d] + 1 /\ answer'[c] = n /\ d \notin swept'
      BY <1>0, <2>2, <2>3, <2>4, <2>8 DEF TypeOK
    <3>2. CASE n <= Limit
      BY <2>5, <2>8, <3>1, <3>2
    <3>3. CASE ~(n <= Limit)
      <4>1. c \notin Taken(d)'
        BY <3>1, <3>3 DEF Taken, Within
      <4> QED
        BY <1>0, <2>5, <2>8, <3>1, <4>1
    <3> QED
      BY <3>2, <3>3
  <2> QED
    BY <2>6, <2>7, <2>8
<1>4. ASSUME CleanUp PROVE Kept
  <2>1. /\ UNCHANGED <<by, askedOn, answer, afresh>>
        /\ d \notin swept' => d \notin swept /\ counts'[d] = counts[d]
    BY <1>0, <1>4 DEF CleanUp
  <2> QED
    BY <1>0, <2>1 DEF Taken, Within
<1>5. ASSUME Restart PROVE Kept
  <2>1. /\ UNCHANGED <<by, answer, afresh, counts, swept>>
        /\ \A c \in Commits : askedOn'[c] = askedOn[c] \/ answer[c] = None
    BY <1>5 DEF Restart
  <2> QED
    BY <1>0, <2>1 DEF Taken, Within
<1>6. ASSUME \/ \E c \in Commits : \/ ProofExpires(c) \/ Land(c) \/ Refuse(c)
                                   \/ PersonEditsNew(c)
             \/ PersonEdits \/ FlipSwitch \/ Midnight \/ UNCHANGED vars
      PROVE  Kept
  BY <1>1, <1>6 DEF ProofExpires, Land, Refuse, PersonEditsNew, PersonEdits, FlipSwitch,
                    Midnight, vars
<1> HIDE DEF Kept, Took
<1>7. Kept \/ \E c \in Commits : Took(c)
  BY <1>2, <1>3, <1>4, <1>5, <1>6 DEF Next
<1> QED
  BY <1>0, <1>7 DEF Kept, Took

LEMMA LimitInit == Init => LimitInv
<1> SUFFICES ASSUME Init PROVE LimitInv
  OBVIOUS
<1>1. \A d \in Days : Taken(d) = {} /\ counts[d] = 0
  BY DEF Init, Taken, Within
<1>2. Cardinality({}) = 0 /\ Limit \in Nat
  BY GuardAssumption, FS_EmptySet
<1>3. \A c \in Commits : Placed(c)
  BY DEF Init, Placed
<1> QED
  BY <1>1, <1>2, <1>3, SoundInit DEF LimitInv

LEMMA LimitNext == LimitInv /\ [Next]_vars => LimitInv'
<1> SUFFICES ASSUME LimitInv, [Next]_vars PROVE LimitInv'
  OBVIOUS
<1>1. SoundInv' /\ \A c \in Commits : Placed(c)'
  BY SoundNext, PlacedNext DEF LimitInv
<1>2. Days' = Days
  BY StepFrame DEF Next, StoreCounts, ProofExpires, Land, Refuse, PersonEditsNew,
     PersonEdits, FlipSwitch, Midnight, CleanUp, Restart, vars, plan, given, Days
<1>3. ASSUME NEW d \in Days
      PROVE  /\ Cardinality(Taken(d)') <= Limit
             /\ d \notin swept' => Cardinality(Taken(d)') <= counts'[d]
  <2>1. /\ IsFiniteSet(Taken(d)) /\ Cardinality(Taken(d)) \in Nat
        /\ Cardinality(Taken(d)) <= Limit /\ Limit \in Nat
        /\ d \notin swept => Cardinality(Taken(d)) <= counts[d]
    <3>1. Taken(d) \in SUBSET Commits
      BY DEF Taken
    <3> QED
      BY <3>1, GuardAssumption, FS_Subset, FS_CardinalityType DEF LimitInv
  <2>2. counts[d] \in Nat /\ counts'[d] \in Nat
    BY TakenMoves
  <2> DEFINE New == Taken(d)'
  <2>3. ASSUME New \subseteq Taken(d),
               d \notin swept' => d \notin swept /\ counts[d] <= counts'[d]
        PROVE  /\ Cardinality(New) <= Limit
               /\ d \notin swept' => Cardinality(New) <= counts'[d]
    <3> HIDE DEF New
    <3>1. Cardinality(New) <= Cardinality(Taken(d)) /\ Cardinality(New) \in Nat
      BY <2>1, <2>3, FS_Subset, FS_CardinalityType
    <3> QED
      BY <2>1, <2>2, <2>3, <3>1
  <2>4. ASSUME NEW c \in Commits, New \subseteq Taken(d) \cup {c}, d \notin swept,
               counts'[d] = counts[d] + 1, counts'[d] <= Limit
        PROVE  /\ Cardinality(New) <= Limit
               /\ d \notin swept' => Cardinality(New) <= counts'[d]
    <3> HIDE DEF New
    <3>1. /\ IsFiniteSet(Taken(d) \cup {c})
          /\ Cardinality(Taken(d) \cup {c}) \in Nat
          /\ Cardinality(Taken(d) \cup {c}) <= Cardinality(Taken(d)) + 1
      <4>1. /\ IsFiniteSet(Taken(d) \cup {c})
            /\ Cardinality(Taken(d) \cup {c}) = IF c \in Taken(d)
                    THEN Cardinality(Taken(d)) ELSE Cardinality(Taken(d)) + 1
        BY <2>1, FS_AddElement
      <4> QED
        BY <2>1, <4>1
    <3>2. /\ Cardinality(New) <= Cardinality(Taken(d) \cup {c}) /\ Cardinality(New) \in Nat
      BY <2>4, <3>1, FS_Subset, FS_CardinalityType
    <3> QED
      BY <2>1, <2>2, <2>4, <3>1, <3>2
  <2> HIDE DEF New
  <2>5. \/ New \subseteq Taken(d) /\ (d \notin swept' => d \notin swept /\ counts[d] <= counts'[d])
        \/ \E c \in Commits : /\ New \subseteq Taken(d) \cup {c} /\ d \notin swept
                              /\ counts'[d] = counts[d] + 1 /\ counts'[d] <= Limit
    BY TakenMoves DEF New
  <2> QED
    BY <2>3, <2>4, <2>5 DEF New
<1> QED
  BY <1>1, <1>2, <1>3 DEF LimitInv

\* No more calls write on the count of a day than its limit, whatever approvals
\* count beside them, for any number of calls and of midnights; but for those
\* counted after the counters of their day had been removed.
THEOREM LimitIsKept == Spec => []LimitHolds
<1>1. LimitInv => LimitHolds
  <2> SUFFICES ASSUME LimitInv, NEW d \in Days
               PROVE  Cardinality({c \in Commits : by[c] = "tool" /\ askedOn[c] = d
                                        /\ flight[c] # "none" /\ c \notin afresh}) <= Limit
    BY DEF LimitHolds
  <2> DEFINE S == {c \in Commits : by[c] = "tool" /\ askedOn[c] = d
                                   /\ flight[c] # "none" /\ c \notin afresh}
  <2>1. S \in SUBSET Taken(d)
    BY DEF LimitInv, Placed, Taken
  <2>2. Taken(d) \in SUBSET Commits /\ Cardinality(Taken(d)) <= Limit /\ Limit \in Nat
    BY GuardAssumption DEF LimitInv, Taken
  <2> HIDE DEF S
  <2>3. IsFiniteSet(Taken(d)) /\ Cardinality(Taken(d)) \in Nat
    BY <2>2, GuardAssumption, FS_Subset, FS_CardinalityType
  <2>4. Cardinality(S) <= Cardinality(Taken(d)) /\ Cardinality(S) \in Nat
    BY <2>1, <2>3, FS_Subset, FS_CardinalityType
  <2>5. Cardinality(S) <= Limit
    BY <2>2, <2>3, <2>4
  <2> QED
    BY <2>5 DEF S
<1> QED
  BY <1>1, LimitInit, LimitNext, PTL DEF Spec

-----------------------------------------------------------------------------
(* What is overwritten, and what is told of it.                            *)

\* A text of its own is on the page only once the commit landed, and one that
\* landed over an edit finds a version that is not the one after its plan.
Seen(c) ==
    /\ base[c] <= page.version
    /\ page.text = c => flight[c] = "landed"
    /\ c \in lost => /\ kind[c] = "change" /\ flight[c] = "landed"
                     /\ page.version >= base[c] + 2
    /\ result[c] = "verified" => c \notin lost /\ (kind[c] = "create" \/ flight[c] = "landed")

SeenInv == SoundInv /\ \A c \in Commits : Seen(c)

LEMMA SeenInit == Init => SeenInv
BY SoundInit, GuardAssumption DEF Init, SeenInv, Seen

LEMMA SeenStep ==
    ASSUME ~SameText, TypeOK, NEW c \in Commits, Sound(c), Seen(c), Step(c)
    PROVE  Seen(c)'
<1> USE DEF remote, given, plan, outcome, quota, stops, lives, Seen
<1>1. UNCHANGED <<page, lost, kind>>
  BY StepFrame
<1>2. /\ pc \in [Commits -> Steps] /\ base \in [Commits -> Nat]
      /\ result \in [Commits -> Results] /\ page.version \in Nat
      /\ flight \in [Commits -> {"none", "open", "landed", "refused"}]
      /\ kind \in [Commits -> {"change", "create"}]
  BY DEF TypeOK, Results
<1>3. (flight[c] # "none" => pc[c] \in AfterSend) /\ TextOf(c) = c
  BY DEF Sound, TextOf
<1>4. QED
  <2>1. CASE PlanOnce(c)
    BY <1>1, <1>2, <1>3, <2>1 DEF PlanOnce, Goto, Ended, Denied, AfterSend
  <2>2. CASE Confirm(c)
    BY <1>1, <1>2, <1>3, <2>2 DEF Confirm, Goto, Ended, Denied, AfterSend
  <2>3. CASE Start(c)
    BY <1>1, <1>2, <1>3, <2>3 DEF Start, Goto, Ended, Denied, AfterSend
  <2>4. CASE ReadTarget(c)
    BY <1>1, <1>2, <1>3, <2>4 DEF ReadTarget, Goto, AfterSend
  <2>5. CASE ReadRefused(c)
    BY <1>1, <1>2, <1>3, <2>5 DEF ReadRefused, Goto, Ended, Denied, AfterSend
  <2>6. CASE CheckProof(c)
    BY <1>1, <1>2, <1>3, <2>6 DEF CheckProof, Goto, Ended, Denied, AfterSend
  <2>7. CASE CheckPolicy(c)
    BY <1>1, <1>2, <1>3, <2>7 DEF CheckPolicy, Goto, Ended, Denied, AfterSend
  <2>8. CASE PolicyRefuses(c)
    BY <1>1, <1>2, <1>3, <2>8 DEF PolicyRefuses, Goto, Ended, Denied, AfterSend
  <2>9. CASE CheckAgain(c)
    BY <1>1, <1>2, <1>3, <2>9 DEF CheckAgain, Goto, Ended, Denied, AfterSend
  <2>10. CASE SaveBefore(c)
    BY <1>1, <1>2, <1>3, <2>10 DEF SaveBefore, Goto, Ended, AfterSend
  <2>11. CASE Send(c)
    BY <1>1, <1>2, <1>3, <2>11 DEF Send, Goto, AfterSend
  <2>12. CASE NotSent(c)
    BY <1>1, <1>2, <1>3, <2>12 DEF NotSent, Goto, Ended, AfterSend
  <2>13. CASE Answered(c)
    BY <1>1, <1>2, <1>3, <2>13 DEF Answered, Goto, AfterSend
  <2>14. CASE Refused(c)
    BY <1>1, <1>2, <1>3, <2>14 DEF Refused, Goto, Ended, AfterSend
  <2>15. CASE Unanswered(c)
    BY <1>1, <1>2, <1>3, <2>15 DEF Unanswered, Goto, Ended, AfterSend
  <2>16. CASE CompleteCreate(c)
    BY <1>1, <1>2, <1>3, <2>16 DEF CompleteCreate, Goto, Ended, AfterSend
  <2>17. CASE ReadBackFails(c)
    BY <1>1, <1>2, <1>3, <2>17 DEF ReadBackFails, Goto, Ended, AfterSend
  <2>18. CASE ReadBackNew(c)
    BY <1>1, <1>2, <1>3, <2>18 DEF ReadBackNew, Goto, Ended, AfterSend
  <2>19. CASE ReadBackChange(c)
    BY <1>1, <1>2, <1>3, <2>19 DEF ReadBackChange, AsPlanned, Goto, Ended, AfterSend
  <2>20. CASE Audit(c)
    BY <1>1, <1>2, <1>3, <2>20 DEF Audit, Goto, AfterSend
  <2>21. CASE AskCount(c)
    BY <1>1, <1>2, <1>3, <2>21 DEF AskCount, Goto, AfterSend
  <2> QED
    BY <2>1, <2>2, <2>3, <2>4, <2>5, <2>6, <2>7, <2>8, <2>9, <2>10, <2>11, <2>12,
       <2>13, <2>14, <2>15, <2>16, <2>17, <2>18, <2>19, <2>20, <2>21 DEF Step

\* What lands shows its version and its text.
LEMMA SeenLand ==
    ASSUME ~SameText, TypeOK, NEW c \in Commits, NEW d \in Commits, Sound(d),
           Seen(d), Land(c)
    PROVE  Seen(d)'
<1> USE DEF plan, given, outcome
<1>1. /\ UNCHANGED <<base, kind, result>> /\ TextOf(c) = c
      /\ page.version \in Nat /\ base[d] \in Nat /\ base[c] \in Nat
      /\ flight[c] = "open" /\ flight' = [flight EXCEPT ![c] = "landed"]
      /\ flight \in [Commits -> {"none", "open", "landed", "refused"}]
      /\ kind \in [Commits -> {"change", "create"}]
  BY DEF Land, TypeOK, TextOf
<1>2. CASE kind[c] = "create"
  BY <1>1, <1>2 DEF Land, Seen
<1>3. CASE kind[c] # "create"
  <2>1. /\ page' = [version |-> page.version + 1, text |-> c]
        /\ lost' = IF page.version = base[c] \/ page.text = c THEN lost ELSE lost \cup {c}
    BY <1>1, <1>3 DEF Land
  <2>2. page'.version = page.version + 1 /\ page'.text = c
    BY <2>1
  <2>3. CASE d = c
    BY <1>1, <1>3, <2>1, <2>2, <2>3 DEF Seen
  <2>4. CASE d # c
    BY <1>1, <2>1, <2>2, <2>4 DEF Seen
  <2> QED
    BY <2>3, <2>4
<1> QED
  BY <1>2, <1>3

LEMMA SeenNext == ASSUME ~SameText PROVE SeenInv /\ [Next]_vars => SeenInv'
<1> SUFFICES ASSUME ~SameText, SeenInv, [Next]_vars PROVE SeenInv'
  OBVIOUS
<1> USE DEF remote, given, plan, outcome, quota, stops, lives
<1>0. /\ TypeOK /\ SoundInv' /\ \A c \in Commits : Sound(c) /\ Seen(c)
      /\ page.version \in Nat /\ \A c \in Commits : base[c] \in Nat
  BY SoundNext DEF SeenInv, SoundInv, TypeOK
<1>1. ASSUME NEW c \in Commits, Step(c), NEW d \in Commits PROVE Seen(d)'
  <2>1. CASE d = c
    BY <1>0, <1>1, <2>1, SeenStep
  <2>2. CASE d # c
    <3>1. base'[d] = base[d] /\ flight'[d] = flight[d] /\ result'[d] = result[d]
      BY <1>0, <1>1, <2>2, OthersStay
    <3>2. UNCHANGED <<page, lost, kind>>
      BY <1>1, StepFrame
    <3> QED
      BY <1>0, <3>1, <3>2 DEF Seen
  <2> QED
    BY <2>1, <2>2
<1>2. ASSUME NEW c \in Commits, Land(c), NEW d \in Commits PROVE Seen(d)'
  BY <1>0, <1>2, SeenLand
<1>3. ASSUME NEW c \in Commits, Refuse(c), NEW d \in Commits PROVE Seen(d)'
  BY <1>0, <1>3 DEF Refuse, Seen, TypeOK
<1>4. ASSUME PersonEdits, NEW d \in Commits PROVE Seen(d)'
  BY <1>0, <1>4, GuardAssumption DEF PersonEdits, Seen
<1>5. ASSUME \/ \E c \in Commits : StoreCounts(c) \/ ProofExpires(c) \/ PersonEditsNew(c)
             \/ FlipSwitch \/ Midnight \/ CleanUp \/ Restart \/ UNCHANGED vars,
             NEW d \in Commits
      PROVE  Seen(d)'
  BY <1>0, <1>5 DEF StoreCounts, ProofExpires, PersonEditsNew, FlipSwitch, Midnight, CleanUp,
                    Restart, vars, Seen
<1> QED
  BY <1>0, <1>1, <1>2, <1>3, <1>4, <1>5 DEF Next, SeenInv

\* Where every change writes a text of its own, a commit that says verified
\* overwrote no edit, neither before nor later.
THEOREM OverwriteIsReported == ASSUME ~SameText PROVE Spec => []OverwriteReported
<1>1. SeenInv => OverwriteReported
  BY DEF SeenInv, Seen, OverwriteReported
<1>2. SeenInv /\ [Next]_vars => SeenInv'
  BY SeenNext
<1> QED
  BY <1>1, <1>2, SeenInit, PTL DEF Spec
===============================================================================
