----------------------- MODULE ApprovalDecisionProofs -----------------------
(***************************************************************************)
(* Proofs about ApprovalDecision, for any number of commands, times and    *)
(* days: its types, and that an entry is decided once, given a counter     *)
(* that loses no count and counters kept long enough.                      *)
(***************************************************************************)
EXTENDS ApprovalDecision, FiniteSetTheorems, TLAPS

-----------------------------------------------------------------------------
(* The inductive invariant.  A command holds the decision from its count   *)
(* of 1 until it tells how it ended; the invariant says that the counter   *)
(* gives the decision to one command, that a counter is gone only when no  *)
(* command can count any more, and what a holder may do with the decision. *)

PreCount(c) == pc[c] \in {"peek", "plan", "count"}
Deciding(c) == pc[c] \in {"read", "link", "zero", "unlink"}

Holder(c) ==
    \/ Stamped(c) /\ (Deciding(c) \/ pc[c] \in {"load", "write"})
    \/ c \in sent
    \/ told[c] = "rejected"

\* What the store is handed is a decision.
WantKnown == \A c \in Commands : Deciding(c) => want[c] # NoRecord

\* A command that has not counted stamped nothing and is in time, but for
\* the midnights it has seen since.
InTime ==
    /\ back <= MaxBack
    /\ \A c \in Commands :
        /\ pc[c] = "idle" => ~Stamped(c)
        /\ nights[c] <= MaxNights
        /\ PreCount(c) => ~Stamped(c) /\ day <= Retention + nights[c]

\* Only when the counter was removed with a decision made is there no count,
\* and then no command is about to count, nor can one come that far.
CountGone ==
    count = 0 /\ (stood # {} \/ \E c \in Commands : Holder(c))
        => day + back > CountKeep /\ \A c \in Commands : ~PreCount(c)

OneHolder == \A c, d \in Commands : Holder(c) /\ Holder(d) => c = d

\* What stands in the file was decided by the holder, or before one that
\* stopped.
KindOfHolder ==
    \A c \in Commands : Holder(c) /\ stood # {} => stood = {kind[c]}

\* What lies in the file stood there, and so did what a command is about to
\* put there a second time.
Standing ==
    /\ \A a, b \in stood : a = b
    /\ record # NoRecord => record.kind \in stood
    /\ \A c \in Commands :
        /\ Deciding(c) /\ own[c] = "left" => want[c].kind \in stood
        /\ Deciding(c) /\ own[c] # "left" => Stamped(c) /\ want[c] = Mine(c)
        /\ PreCount(c) \/ pc[c] \in {"idle", "load"} => own[c] # "left"
        /\ pc[c] \in {"zero", "unlink"} /\ own[c] = "yes" => want[c].kind \in stood

\* A command that ended says why, and only an approval that stands is sent.
Told ==
    \A c \in Commands :
        /\ told[c] # "none" => pc[c] = "done"
        /\ told[c] = "rejected" => kind[c] = "rejected"
        /\ pc[c] = "write" => kind[c] = "approved" /\ stood # {} /\ Stamped(c)
        /\ c \in sent => told[c] = "approved" /\ kind[c] = "approved"
                          /\ stood # {}

Inv2 ==
    /\ WantKnown /\ InTime /\ CountGone
    /\ OneHolder /\ KindOfHolder /\ Standing /\ Told
IInv == TypeOK /\ Inv2

-----------------------------------------------------------------------------
(* Types.                                                                  *)

\* The first states have the types of TypeOK.
LEMMA InitTypeOK == Init => TypeOK
  <1> SUFFICES ASSUME Init PROVE TypeOK
    OBVIOUS
  <1>1. /\ pc \in [Commands -> Steps]
        /\ at \in [Commands -> Times \cup {NoTime}]
        /\ want \in [Commands -> Record \cup {NoRecord}]
        /\ own \in [Commands -> {"no", "yes", "left"}]
        /\ nights \in [Commands -> Nat]
        /\ told \in [Commands -> Answers]
    BY DEF Init, Steps, Answers
  <1> QED
    BY <1>1 DEF Init, TypeOK

\* A decision stamped by a command is a record.
LEMMA RecordType ==
    ASSUME NEW k \in Kinds, NEW t \in Times
    PROVE  [kind |-> k, at |-> t] \in Record
  BY DEF Record

\* Every step keeps the types of TypeOK.
LEMMA NextTypeOK == TypeOK /\ WantKnown /\ [Next]_vars => TypeOK'
  <1> SUFFICES ASSUME TypeOK, WantKnown, [Next]_vars PROVE TypeOK'
    OBVIOUS
  <1> USE DEF TypeOK, Steps, Answers, given
  <1>1. ASSUME NEW c \in Commands, Begin(c) PROVE TypeOK'
    BY <1>1 DEF Begin, Goto, fileVars, dayVars
  <1>2. ASSUME NEW c \in Commands, LoadUndecided(c) PROVE TypeOK'
    BY <1>2 DEF LoadUndecided, Goto, End, fileVars, dayVars
  <1>3. ASSUME NEW c \in Commands, LoadMissing(c) PROVE TypeOK'
    BY <1>3 DEF LoadMissing, End, fileVars, dayVars
  <1>4. ASSUME NEW c \in Commands, LoadFails(c) PROVE TypeOK'
    BY <1>4 DEF LoadFails, End, fileVars, dayVars
  <1>5. ASSUME NEW c \in Commands, LoadDecided(c) PROVE TypeOK'
    BY <1>5 DEF LoadDecided, Decided, Keep, Goto, End, fileVars, dayVars
  <1>6. ASSUME NEW c \in Commands, LoadLeftOver(c) PROVE TypeOK'
    BY <1>6 DEF LoadLeftOver, Goto, fileVars, dayVars
  <1>7. ASSUME NEW c \in Commands, Peek(c) PROVE TypeOK'
    BY <1>7 DEF Peek, Goto, End, fileVars, dayVars
  <1>8. ASSUME NEW c \in Commands, Plan(c) PROVE TypeOK'
    BY <1>8 DEF Plan, Goto, End, fileVars, dayVars
  <1>9. ASSUME NEW c \in Commands, CountAnswered(c) PROVE TypeOK'
    BY <1>9, RecordType DEF CountAnswered, Stamp, NextCounts, Goto, End, dayVars
  <1>10. ASSUME NEW c \in Commands, CountLate(c) PROVE TypeOK'
    BY <1>10, RecordType DEF CountLate, Stamp, End, dayVars
  <1>11. ASSUME NEW c \in Commands, CountFails(c) PROVE TypeOK'
    BY <1>11 DEF CountFails, End, fileVars, dayVars
  <1>12. ASSUME NEW c \in Commands, ReadEntry(c) PROVE TypeOK'
    BY <1>12 DEF ReadEntry, AfterDecide, Decided, Keep, Goto, End, fileVars, dayVars
  <1>13. ASSUME NEW c \in Commands, LinkRecord(c) PROVE TypeOK'
    BY <1>13 DEF LinkRecord, Goto, dayVars, WantKnown, Deciding, Record
  <1>14. ASSUME NEW c \in Commands, LinkFails(c) PROVE TypeOK'
    BY <1>14 DEF LinkFails, AfterDecide, Decided, Keep, Goto, End, fileVars, dayVars
  <1>15. ASSUME NEW c \in Commands, ZeroEntry(c) PROVE TypeOK'
    BY <1>15 DEF ZeroEntry, Goto, dayVars
  <1>16. ASSUME NEW c \in Commands, UnlinkEntry(c) PROVE TypeOK'
    BY <1>16 DEF UnlinkEntry, AfterDecide, Decided, Keep, Goto, End, dayVars
  <1>17. ASSUME NEW c \in Commands, Send(c) PROVE TypeOK'
    BY <1>17 DEF Send, End, fileVars, dayVars
  <1>18. ASSUME NEW c \in Commands, NotSent(c) PROVE TypeOK'
    BY <1>18 DEF NotSent, End, fileVars, dayVars
  <1>19. ASSUME NEW c \in Commands, Crash(c) PROVE TypeOK'
    BY <1>19 DEF Crash, End, fileVars, dayVars
  <1>20. CASE LateCountLands \/ SweepCounts
    BY <1>20 DEF LateCountLands, SweepCounts, NextCounts, dayVars, cmdVars
  <1>21. CASE Midnight \/ SetBack
    BY <1>21 DEF Midnight, SetBack, fileVars, cmdVars
  <1>22. CASE Purge
    BY <1>22 DEF Purge, PurgeBegin, PurgeRecord, PurgeZero, PurgeUnlink,
                 PurgeKey, fileVars, dayVars, cmdVars
  <1>23. CASE UNCHANGED vars
    BY <1>23 DEF vars, fileVars, dayVars, cmdVars
  <1> QED
    BY <1>1, <1>2, <1>3, <1>4, <1>5, <1>6, <1>7, <1>8, <1>9, <1>10, <1>11,
       <1>12, <1>13, <1>14, <1>15, <1>16, <1>17, <1>18, <1>19, <1>20, <1>21,
       <1>22, <1>23
       DEF Next, Step

-----------------------------------------------------------------------------
(* The counter loses no count.  It is kept longer than an entry waits: by  *)
(* the midnights a command may see after it found the entry in time, and   *)
(* by the days the clock may be set back (approvalCountDays against        *)
(* queueRetentionDays).                                                    *)

LosesNoCount == Counters = {FALSE}

KeptLongEnough ==
    /\ CountKeep >= Retention + MaxNights
    /\ CountKeep >= Retention + MaxBack

\* The invariant holds at the start: nobody counted, nothing stands.
LEMMA InitInv == Init => Inv2
  BY DayAssumption DEF Init, Inv2, WantKnown, InTime, CountGone, OneHolder,
     KindOfHolder, Standing, Told, PreCount, Deciding, Holder, Stamped

\* Every step keeps the invariant, when no count is lost.
LEMMA NextInv ==
    ASSUME LosesNoCount, KeptLongEnough, IInv, TypeOK', [Next]_vars
    PROVE  Inv2'
  <1> USE DayAssumption, NoValueAssumption
      DEF KeptLongEnough, LosesNoCount, given, IInv, Inv2, TypeOK, WantKnown, InTime, CountGone,
          OneHolder, KindOfHolder, Standing, Told, PreCount, Deciding, Holder,
          Stamped, Mine, Record, Kinds, Steps, Answers
  <1>1. ASSUME NEW e \in Commands, Begin(e) PROVE Inv2'
    BY <1>1 DEF Begin, Goto, fileVars, dayVars
  <1>2. ASSUME NEW e \in Commands, LoadUndecided(e) PROVE Inv2'
    BY <1>2 DEF LoadUndecided, Goto, End, Valid, fileVars, dayVars
  <1>3. ASSUME NEW e \in Commands, LoadMissing(e) PROVE Inv2'
    BY <1>3 DEF LoadMissing, End, fileVars, dayVars
  <1>4. ASSUME NEW e \in Commands, LoadFails(e) PROVE Inv2'
    BY <1>4 DEF LoadFails, End, fileVars, dayVars
  <1>5. ASSUME NEW e \in Commands, LoadDecided(e) PROVE Inv2'
    BY <1>5 DEF LoadDecided, Decided, Keep, Goto, End, fileVars, dayVars
  <1>6. ASSUME NEW e \in Commands, LoadLeftOver(e) PROVE Inv2'
    BY <1>6 DEF LoadLeftOver, Goto, fileVars, dayVars
  <1>7. ASSUME NEW e \in Commands, Peek(e) PROVE Inv2'
    BY <1>7 DEF Peek, Goto, End, fileVars, dayVars
  <1>8. ASSUME NEW e \in Commands, Plan(e) PROVE Inv2'
    BY <1>8 DEF Plan, Goto, End, fileVars, dayVars
  <1>9. ASSUME NEW e \in Commands, CountAnswered(e) PROVE Inv2'
    BY <1>9 DEF CountAnswered, Stamp, NextCounts, Goto, End, dayVars
  <1>10. ASSUME NEW e \in Commands, CountLate(e) PROVE Inv2'
    BY <1>10 DEF CountLate, Stamp, End, dayVars
  <1>11. ASSUME NEW e \in Commands, CountFails(e) PROVE Inv2'
    BY <1>11 DEF CountFails, End, fileVars, dayVars
  <1>12. ASSUME NEW e \in Commands, ReadEntry(e) PROVE Inv2'
    BY <1>12 DEF ReadEntry, AfterDecide, Decided, Keep, Goto, End, fileVars, dayVars
  <1>13. ASSUME NEW e \in Commands, LinkRecord(e) PROVE Inv2'
    BY <1>13 DEF LinkRecord, Goto, dayVars
  <1>14. ASSUME NEW e \in Commands, LinkFails(e) PROVE Inv2'
    BY <1>14 DEF LinkFails, AfterDecide, Decided, Keep, Goto, End, fileVars, dayVars
  <1>15. ASSUME NEW e \in Commands, ZeroEntry(e) PROVE Inv2'
    BY <1>15 DEF ZeroEntry, Goto, dayVars
  <1>16. ASSUME NEW e \in Commands, UnlinkEntry(e) PROVE Inv2'
    BY <1>16 DEF UnlinkEntry, AfterDecide, Decided, Keep, Goto, End, dayVars
  <1>17. ASSUME NEW e \in Commands, Send(e) PROVE Inv2'
    BY <1>17 DEF Send, End, fileVars, dayVars
  <1>18. ASSUME NEW e \in Commands, NotSent(e) PROVE Inv2'
    BY <1>18 DEF NotSent, End, fileVars, dayVars
  <1>19. ASSUME NEW e \in Commands, Crash(e) PROVE Inv2'
    BY <1>19 DEF Crash, End, fileVars, dayVars
  <1>20. CASE LateCountLands
    BY <1>20 DEF LateCountLands, NextCounts, dayVars, cmdVars
  <1>21. CASE SweepCounts
    \* The day is later than CountKeep: no command can be before its count.
    BY <1>21 DEF SweepCounts, dayVars, cmdVars
  <1>22. CASE Midnight
    BY <1>22 DEF Midnight, Running, fileVars, cmdVars
  <1>23. CASE SetBack
    BY <1>23 DEF SetBack, fileVars, cmdVars
  <1>24. CASE Purge
    <2>1. CASE PurgeBegin
      BY <2>1 DEF PurgeBegin, fileVars, dayVars, cmdVars
    <2>2. CASE PurgeRecord
      BY <2>2 DEF PurgeRecord, dayVars, cmdVars
    <2>3. CASE PurgeZero
      BY <2>3 DEF PurgeZero, dayVars, cmdVars
    <2>4. CASE PurgeUnlink
      BY <2>4 DEF PurgeUnlink, dayVars, cmdVars
    <2>5. CASE PurgeKey
      BY <2>5 DEF PurgeKey, dayVars, cmdVars
    <2> QED
      BY ONLY <1>24, <2>1, <2>2, <2>3, <2>4, <2>5 DEF Purge
  <1>25. CASE UNCHANGED vars
    BY <1>25 DEF vars, fileVars, dayVars, cmdVars
  <1> QED
    BY ONLY [Next]_vars, <1>1, <1>2, <1>3, <1>4, <1>5, <1>6, <1>7, <1>8, <1>9,
       <1>10, <1>11, <1>12, <1>13, <1>14, <1>15, <1>16, <1>17, <1>18, <1>19,
       <1>20, <1>21, <1>22, <1>23, <1>24, <1>25
       DEF Next, Step

\* The invariant implies the three properties.
LEMMA InvImplies ==
    ASSUME IInv
    PROVE  AtMostOneWrite /\ RejectedNeverWritten /\ OneKindStands
  <1> USE DEF IInv, Inv2, TypeOK
  <1>1. AtMostOneWrite
    <2>1. \A c, d \in sent : c = d
      BY DEF OneHolder, Holder
    <2>2. CASE sent = {}
      BY <2>2, FS_EmptySet DEF AtMostOneWrite
    <2>3. ASSUME NEW c \in sent PROVE AtMostOneWrite
      <3>1. sent = {c}
        BY <2>1
      <3>2. Cardinality({c}) = 1
        BY FS_Singleton, Zenon
      <3> QED
        BY <3>1, <3>2 DEF AtMostOneWrite
    <2> QED
      BY <2>2, <2>3
  <1>2. RejectedNeverWritten
    <2>1. ASSUME NEW c \in Commands, told[c] = "rejected" PROVE sent = {}
      BY <2>1 DEF OneHolder, Holder, Told
    <2>2. ASSUME sent # {} PROVE stood = {"approved"}
      BY <2>2 DEF Holder, KindOfHolder, Told
    <2> QED
      BY <2>1, <2>2 DEF RejectedNeverWritten
  <1>3. OneKindStands
    <2>1. CASE stood = {}
      BY <2>1, FS_EmptySet DEF OneKindStands
    <2>2. ASSUME NEW k \in stood PROVE OneKindStands
      <3>1. stood = {k}
        BY DEF Standing
      <3>2. Cardinality({k}) = 1
        BY FS_Singleton, Zenon
      <3> QED
        BY <3>1, <3>2 DEF OneKindStands
    <2> QED
      BY <2>1, <2>2
  <1> QED
    BY <1>1, <1>2, <1>3

-----------------------------------------------------------------------------
(* The theorems.                                                           *)

\* The invariant holds in every behaviour, when no count is lost and the
\* counters are kept long enough.
THEOREM InvariantHolds ==
    ASSUME LosesNoCount, KeptLongEnough
    PROVE  Spec => []IInv
  <1>1. Init => IInv
    BY InitTypeOK, InitInv DEF IInv
  <1>2. IInv /\ [Next]_vars => IInv'
    BY NextTypeOK, NextInv DEF IInv, Inv2
  <1> QED
    BY <1>1, <1>2, PTL DEF Spec

\* The variables keep their types (TypeOK).
THEOREM TypeCorrect ==
    ASSUME LosesNoCount, KeptLongEnough
    PROVE  Spec => []TypeOK
  <1>1. IInv => TypeOK
    BY DEF IInv
  <1> QED
    BY <1>1, InvariantHolds, PTL

\* An entry of the queue is written at most once (AtMostOneWrite): for any
\* number of commands, whatever they decide, wherever they stop, also after
\* the files were purged and the clock was set back.
THEOREM WrittenAtMostOnce ==
    ASSUME LosesNoCount, KeptLongEnough
    PROVE  Spec => []AtMostOneWrite
  <1>1. IInv => AtMostOneWrite
    BY InvImplies
  <1> QED
    BY <1>1, InvariantHolds, PTL

\* A rejected entry is never written, and a written one stands as approved
\* (RejectedNeverWritten).
THEOREM RejectionHolds ==
    ASSUME LosesNoCount, KeptLongEnough
    PROVE  Spec => []RejectedNeverWritten
  <1>1. IInv => RejectedNeverWritten
    BY InvImplies
  <1> QED
    BY <1>1, InvariantHolds, PTL

\* Never do decisions of both kinds stand, one after the other
\* (OneKindStands).
THEOREM DecisionNeverTurns ==
    ASSUME LosesNoCount, KeptLongEnough
    PROVE  Spec => []OneKindStands
  <1>1. IInv => OneKindStands
    BY InvImplies
  <1> QED
    BY <1>1, InvariantHolds, PTL

-----------------------------------------------------------------------------
(* DecidedOnce is implemented: every step decides, carries out, or is none. *)

\* One kind stands, so it is the decision.
LEMMA DecisionIs == \A k : stood = {k} => Decision = k
BY Zenon DEF Decision

\* The entry waits at the start.
LEMMA InitOnce == Init => Once!Init
BY DEF Init, Once!Init, Decision, Refused

\* A command that ends had told nothing; only a rejection tells of one.
LEMMA EndTells ==
    ASSUME IInv, NEW c \in Commands, NEW answer, pc[c] # "done", End(c, answer),
           stood' = stood, sent' = sent
    PROVE  \/ answer # "rejected" /\ UNCHANGED Once!vars
           \/ answer = "rejected" /\ Refused' = Refused \cup {c}
<1>1. told \in [Commands -> Answers] /\ told[c] = "none"
  BY DEF IInv, Inv2, TypeOK, Told
<1>2. /\ told'[c] = answer
      /\ \A d \in Commands \ {c} : told'[d] = told[d]
  BY <1>1 DEF End
<1>3. Decision' = Decision
  BY DEF Decision
<1>4. CASE answer = "rejected"
  BY <1>2, <1>4 DEF Refused
<1>5. CASE answer # "rejected"
  <2>1. Refused' = Refused
    BY <1>1, <1>2, <1>5 DEF Refused
  <2> QED
    BY <1>3, <1>5, <2>1 DEF Once!vars
<1> QED
  BY <1>4, <1>5

\* A step that decides nothing and tells nothing of it is none there.
LEMMA StepAside ==
    ASSUME UNCHANGED <<stood, sent, told>>
    PROVE  UNCHANGED Once!vars
BY DEF Once!vars, Decision, Refused

\* A rejection whose decision is kept is told once, by the one that holds it.
LEMMA KeepRefuses ==
    ASSUME IInv, NEW c \in Commands, Stamped(c), Deciding(c) \/ pc[c] = "load",
           kind[c] \in stood, Keep(c), stood' = stood, sent' = sent
    PROVE  [Once!Next]_(Once!vars)
<1>1. Holder(c) /\ stood = {kind[c]} /\ pc[c] # "done"
  BY DEF IInv, Inv2, KindOfHolder, Holder, Deciding
<1>2. CASE kind[c] = "approved"
  BY <1>2, StepAside DEF Keep, Goto
<1>3. CASE kind[c] # "approved"
  <2>1. kind[c] = "rejected" /\ End(c, "rejected")
    BY <1>3 DEF Keep, IInv, TypeOK, Kinds
  <2>2. Refused' = Refused \cup {c}
    BY <1>1, <2>1, EndTells
  <2>3. Refused = {}
    <3>1. told[c] # "rejected"
      BY <1>1 DEF IInv, Inv2, Told
    <3>2. ASSUME NEW d \in Commands, told[d] = "rejected" PROVE FALSE
      BY <1>1, <3>1, <3>2 DEF IInv, Inv2, OneHolder, Holder
    <3> QED
      BY <3>2 DEF Refused
  <2>4. Decision = "rejected" /\ Decision' = Decision
    BY <1>1, <2>1, DecisionIs DEF Decision
  <2>5. Once!Refuse(c)
    BY <2>2, <2>3, <2>4 DEF Once!Refuse
  <2> QED
    BY <2>5 DEF Once!Next
<1> QED
  BY <1>2, <1>3

\* After a look at the decision that stands, or at the own one.
LEMMA DecidedRefuses ==
    ASSUME IInv, NEW c \in Commands, Deciding(c) \/ pc[c] = "load",
           NEW r, r.kind \in stood, Decided(c, r), stood' = stood, sent' = sent
    PROVE  [Once!Next]_(Once!vars)
<1>1. CASE Stamped(c) /\ r = Mine(c)
  <2>1. kind[c] \in stood /\ Keep(c)
    BY <1>1 DEF Decided, Mine
  <2> QED
    BY <1>1, <2>1, KeepRefuses
<1>2. CASE ~(Stamped(c) /\ r = Mine(c))
  <2>1. End(c, "decided") /\ pc[c] # "done"
    BY <1>2 DEF Decided, Deciding
  <2> QED
    BY <2>1, EndTells
<1> QED
  BY <1>1, <1>2

\* After a call of the store: its own decision stands, or another one does.
LEMMA AfterRefuses ==
    ASSUME IInv, NEW c \in Commands, Deciding(c), NEW wrote \in BOOLEAN,
           wrote => own[c] = "yes" /\ pc[c] = "unlink",
           AfterDecide(c, wrote), stood' = stood, sent' = sent
    PROVE  [Once!Next]_(Once!vars)
<1>1. CASE own[c] = "left"
  <2>1. want[c].kind \in stood /\ Decided(c, want[c])
    BY <1>1 DEF IInv, Inv2, Standing, AfterDecide
  <2> QED
    BY <2>1, DecidedRefuses
<1>2. CASE own[c] # "left" /\ wrote
  <2>1. Stamped(c) /\ want[c] = Mine(c) /\ want[c].kind \in stood /\ Keep(c)
    BY <1>2 DEF IInv, Inv2, Standing, AfterDecide
  <2>2. kind[c] \in stood
    BY <2>1 DEF Mine
  <2> QED
    BY <2>1, <2>2, KeepRefuses
<1>3. CASE own[c] # "left" /\ ~wrote
  BY <1>3, StepAside DEF AfterDecide, Goto
<1> QED
  BY <1>1, <1>2, <1>3

\* The decision takes its name: the first one decides, and what a command puts
\* there again is what stood.
LEMMA LinkDecides ==
    ASSUME IInv, NEW c \in Commands, LinkRecord(c)
    PROVE  [Once!Next]_(Once!vars)
<1>1. Deciding(c) /\ want[c] \in Record /\ want[c].kind \in Kinds
  BY DEF LinkRecord, Deciding, IInv, Inv2, TypeOK, WantKnown, Record
<1>2. sent' = sent /\ told' = told
  BY DEF LinkRecord, Goto
<1>3. CASE stood' = stood
  BY <1>2, <1>3, StepAside
<1>4. CASE stood' # stood
  <2>1. stood' = stood \cup {want[c].kind} /\ want[c].kind \notin stood
    BY <1>4 DEF LinkRecord
  <2>2. stood = {}
    <3>1. own[c] # "left"
      BY <1>1, <2>1 DEF IInv, Inv2, Standing
    <3>2. Stamped(c) /\ want[c] = Mine(c)
      BY <1>1, <3>1 DEF IInv, Inv2, Standing
    <3>3. Holder(c) /\ want[c].kind = kind[c]
      BY <1>1, <3>2 DEF Holder, Mine
    <3> QED
      BY <2>1, <3>3 DEF IInv, Inv2, KindOfHolder
  <2>3. Decision = "none"
    BY <2>2 DEF Decision
  <2>4. stood' = {want[c].kind}
    BY <2>1, <2>2
  <2>5. Decision' = want[c].kind
    <3>1. \A k : (CHOOSE x \in {k} : TRUE) = k
      BY Zenon
    <3> QED
      BY <2>4, <3>1 DEF Decision
  <2>6. Once!Decide
    BY <1>1, <1>2, <2>3, <2>5 DEF Once!Decide, Refused, Kinds
  <2> QED
    BY <2>6 DEF Once!Next
<1> QED
  BY <1>3, <1>4

\* The write goes out once, by the one that holds the decision.
LEMMA SendWrites ==
    ASSUME IInv, NEW c \in Commands, Send(c)
    PROVE  [Once!Next]_(Once!vars)
<1>1. pc[c] = "write" /\ sent' = sent \cup {c} /\ stood' = stood /\ End(c, "approved")
  BY DEF Send
<1>2. kind[c] = "approved" /\ stood # {} /\ Stamped(c) /\ Holder(c)
  BY <1>1 DEF IInv, Inv2, Told, Holder
<1>3. sent = {}
  <2>1. c \notin sent
    BY <1>1 DEF IInv, Inv2, Told
  <2>2. ASSUME NEW d \in sent PROVE FALSE
    BY <1>2, <2>1 DEF IInv, Inv2, TypeOK, OneHolder, Holder
  <2> QED
    BY <2>2
<1>4. stood = {"approved"}
  BY <1>2 DEF IInv, Inv2, KindOfHolder
<1>5. Decision = "approved" /\ Decision' = Decision
  BY <1>1, <1>4, DecisionIs DEF Decision
<1>6. Refused' = Refused
  <2>1. told[c] = "none" /\ told \in [Commands -> Answers]
    BY <1>1 DEF IInv, Inv2, TypeOK, Told
  <2>2. told'[c] = "approved" /\ \A d \in Commands \ {c} : told'[d] = told[d]
    BY <1>1, <2>1 DEF End
  <2> QED
    BY <2>1, <2>2 DEF Refused
<1>7. Once!Write(c)
  BY <1>1, <1>3, <1>5, <1>6 DEF Once!Write
<1> QED
  BY <1>7 DEF Once!Next

\* Every step is one of DecidedOnce, or none.
LEMMA StepOnce ==
    ASSUME IInv, [Next]_vars
    PROVE  [Once!Next]_(Once!vars)
<1> USE DEF given
<1>1. ASSUME NEW c \in Commands,
             \/ Begin(c) \/ LoadLeftOver(c) \/ ZeroEntry(c)
      PROVE  [Once!Next]_(Once!vars)
  BY <1>1, StepAside DEF Begin, LoadLeftOver, ZeroEntry, Goto
<1>2. ASSUME NEW c \in Commands,
             \/ LoadUndecided(c) \/ LoadMissing(c) \/ LoadFails(c) \/ Peek(c) \/ Plan(c)
             \/ CountAnswered(c) \/ CountLate(c) \/ CountFails(c)
             \/ NotSent(c) \/ Crash(c)
      PROVE  [Once!Next]_(Once!vars)
  <2>1. pc[c] # "done" /\ stood' = stood /\ sent' = sent
    BY <1>2 DEF LoadUndecided, LoadMissing, LoadFails, Peek, Plan, CountAnswered,
       CountLate, CountFails, NotSent, Crash
  <2>2. \/ \E answer \in Answers \ {"rejected"} : End(c, answer)
        \/ \E step : Goto(c, step)
    BY <1>2 DEF LoadUndecided, LoadMissing, LoadFails, Peek, Plan, CountAnswered,
       CountLate, CountFails, NotSent, Crash, Answers
  <2>3. ASSUME NEW answer \in Answers \ {"rejected"}, End(c, answer)
        PROVE  UNCHANGED Once!vars
    BY <2>1, <2>3, EndTells
  <2>4. ASSUME NEW step, Goto(c, step) PROVE UNCHANGED Once!vars
    BY <2>1, <2>4, StepAside DEF Goto
  <2> QED
    BY <2>2, <2>3, <2>4
<1>3. ASSUME NEW c \in Commands, LoadDecided(c) PROVE [Once!Next]_(Once!vars)
  <2>1. record.kind \in stood /\ pc[c] = "load" /\ Decided(c, record)
        /\ stood' = stood /\ sent' = sent
    BY <1>3 DEF LoadDecided, IInv, Inv2, Standing
  <2> QED
    BY <2>1, DecidedRefuses
<1>4. ASSUME NEW c \in Commands, ReadEntry(c) PROVE [Once!Next]_(Once!vars)
  <2>1. Deciding(c) /\ stood' = stood /\ sent' = sent
    BY <1>4 DEF ReadEntry, Deciding
  <2>2. CASE Goto(c, "link")
    BY <2>1, <2>2, StepAside DEF Goto
  <2>3. CASE AfterDecide(c, FALSE)
    BY <2>1, <2>3, AfterRefuses
  <2> QED
    BY <1>4, <2>2, <2>3 DEF ReadEntry
<1>5. ASSUME NEW c \in Commands, LinkFails(c) PROVE [Once!Next]_(Once!vars)
  <2>1. Deciding(c) /\ stood' = stood /\ sent' = sent /\ AfterDecide(c, FALSE)
    BY <1>5 DEF LinkFails, Deciding
  <2> QED
    BY <2>1, AfterRefuses
<1>6. ASSUME NEW c \in Commands, UnlinkEntry(c) PROVE [Once!Next]_(Once!vars)
  <2>1. Deciding(c) /\ pc[c] = "unlink" /\ stood' = stood /\ sent' = sent
    BY <1>6 DEF UnlinkEntry, Deciding
  <2>2. CASE AfterDecide(c, own[c] = "yes")
    <3>1. (own[c] = "yes") \in BOOLEAN
      OBVIOUS
    <3> QED
      BY <2>1, <2>2, <3>1, AfterRefuses
  <2>3. CASE AfterDecide(c, FALSE)
    BY <2>1, <2>3, AfterRefuses
  <2> QED
    BY <1>6, <2>2, <2>3 DEF UnlinkEntry
<1>7. CASE LateCountLands \/ SweepCounts \/ Midnight \/ SetBack
  BY <1>7, StepAside DEF LateCountLands, SweepCounts, Midnight, SetBack, cmdVars
<1>8. CASE Purge \/ UNCHANGED vars
  BY <1>8, StepAside DEF Purge, PurgeBegin, PurgeRecord, PurgeZero, PurgeUnlink, PurgeKey,
     cmdVars, vars
<1> QED
  BY <1>1, <1>2, <1>3, <1>4, <1>5, <1>6, <1>7, <1>8, LinkDecides, SendWrites DEF Next, Step

\* An entry is decided once, and one command at most carries the decision out
\* (EntryDecidedOnce): whatever commands of the operator run side by side, stop
\* or come late, their files and their counter implement DecidedOnce.
THEOREM DecidesOnce ==
    ASSUME LosesNoCount, KeptLongEnough
    PROVE  Spec => EntryDecidedOnce
<1>1. Init => Once!Init
  BY InitOnce
<1>2. IInv /\ [Next]_vars => [Once!Next]_(Once!vars)
  BY StepOnce
<1> QED
  BY <1>1, <1>2, InvariantHolds, PTL DEF Spec, EntryDecidedOnce, Once!Spec
=============================================================================
