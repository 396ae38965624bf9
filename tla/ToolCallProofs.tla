---------------------------- MODULE ToolCallProofs ----------------------------
(***************************************************************************)
(* Proofs about ToolCall, for any number of calls, every budget and every  *)
(* bound of the queue; and about QuotaStore, the file store that counts    *)
(* the budget of ToolCall, for any number of processes, crashes, locks     *)
(* left behind and waiting times.                                          *)
(*                                                                         *)
(* A call of a tool: what is told of it and what its line says is settled  *)
(* in one step, its End, so the two properties of the line rest on what    *)
(* went before it (Stages).  The budget and the queue are bounds on a      *)
(* number of calls, and a call that has its count, or its place, but does  *)
(* not use it yet has to be counted with those that do (Winners,           *)
(* Queueing).                                                              *)
(*                                                                         *)
(* The file of counters: a process writes only what it read, one counter   *)
(* higher, so every copy of the counters in the system, the file and what  *)
(* each process read, stays below the history and within the bound,        *)
(* whatever becomes of the lock.  Those copies are what strengthens the    *)
(* first two properties of the store.  That each call counts at one        *)
(* instant, as the port of the store promises, does rest on the lock, and  *)
(* on the calm in which it is kept: CalmInv.                               *)
(***************************************************************************)
EXTENDS ToolCall, QuotaStore, FiniteSetTheorems, FunctionTheorems, TLAPS

-----------------------------------------------------------------------------
(* A call of a tool: the invariant.                                        *)

\* Access and port are open only while the tool runs, which it does not for a
\* call given up; nothing is told of a call before its end; and only a write
\* is a question.
Stages ==
    \A c \in Calls :
        /\ open[c] => pc[c] = "run"
        /\ aborted[c] => pc[c] \notin {"run", "done"}
        /\ pc[c] # "done" => told[c] = "none" /\ line[c] = "none" /\ copy[c] = "none"
        /\ result[c] = "question" => Writes(c)

\* Each line missing is of a call that is over.
Over == {c \in Calls : pc[c] = "done"}
MissingIsOver == missing <= Cardinality(Over)

\* The calls a day's budget was spent on: those that ran under it, and those
\* whose count is within it and that have not read it yet; but for those counted
\* after the counters of the day were removed.
Winners(d) ==
    {c \in Calls : /\ c \notin afresh
                   /\ \/ ranOn[c] = d
                      \/ asking[c] = "answered" /\ askedOn[c] = d /\ ~AboveBudget(c)}

\* The counter of a day bounds them until it is removed, and what they were by
\* then stays.
BudgetIsCounted ==
    \A d \in Days : /\ d \notin swept => Cardinality(Winners(d)) <= counted[d]
                    /\ Cardinality(Winners(d)) <= ReadBudget

\* Entries that wait, and those that have their place but are not kept yet.
Queueing == queue \cup Between

QueueIsCounted ==
    Queueing = {} \/ Cardinality(Queueing) + 1 <= MaxWaiting + most

CallInv ==
    /\ TypeOK /\ Stages /\ MissingIsOver
    /\ SpecialIsRecorded /\ OkLinesWentOut
    /\ BudgetIsCounted /\ QueueIsCounted

-----------------------------------------------------------------------------
(* Finite sets.                                                            *)

\* Whatever calls are picked out, they are finite, and more of them count more.
LEMMA FewCalls ==
    ASSUME NEW S, S \subseteq Calls
    PROVE  /\ IsFiniteSet(S) /\ Cardinality(S) \in Nat
           /\ Cardinality(S) <= Cardinality(Calls)
           /\ \A T \in SUBSET S : IsFiniteSet(T) /\ Cardinality(T) <= Cardinality(S)
<1>1. IsFiniteSet(S) /\ Cardinality(S) <= Cardinality(Calls)
  BY BoundAssumption, FS_Subset
<1>2. \A T \in SUBSET S : IsFiniteSet(T) /\ Cardinality(T) <= Cardinality(S)
  BY <1>1, FS_Subset
<1> QED
  BY <1>1, <1>2, FS_CardinalityType

\* One call more counts one more, at most.
LEMMA OneCallMore ==
    ASSUME NEW S, S \subseteq Calls, NEW c \in Calls
    PROVE  /\ Cardinality(S \cup {c}) <= Cardinality(S) + 1
           /\ c \notin S => Cardinality(S \cup {c}) = Cardinality(S) + 1
<1>1. IsFiniteSet(S) /\ Cardinality(S) \in Nat
  BY FewCalls
<1>2. CASE c \in S
  <2>1. S \cup {c} = S
    BY <1>2
  <2>2. Cardinality(S) <= Cardinality(S) + 1
    BY <1>1
  <2> QED
    BY <1>2, <2>1, <2>2
<1>3. CASE c \notin S
  BY <1>1, <1>3, FS_AddElement
<1> QED
  BY <1>2, <1>3

-----------------------------------------------------------------------------
(* Types.                                                                  *)

LEMMA InitCallTypes == Init => TypeOK
<1> SUFFICES ASSUME Init PROVE TypeOK
  OBVIOUS
<1>1. Cardinality(Calls) \in Nat
  BY BoundAssumption, FS_CardinalityType
<1>2. /\ missing \in 0 .. Cardinality(Calls) /\ closedWith \in 0 .. NoCount
      /\ 0 \in Days
  BY <1>1, BoundAssumption DEF Init, NoCount, Days
<1> QED
  BY <1>2, BoundAssumption DEF Init, TypeOK, Outcomes, States, NoDay, Days

\* The stages of a call, and what they end with.
Stage == {"idle", "count", "run", "waiting", "enqueue", "end", "done"}
Ended == Outcomes \cup {"none", "question"}

\* The end of a call settles its line, the copy of it and the answer at once.
LEMMA EndSettles ==
    ASSUME TypeOK, NEW c \in Calls, End(c)
    PROVE  \E outcome \in Outcomes \cup {"none", "question"}, changed, taken \in BOOLEAN :
             /\ outcome = "question" => result[c] = "question"
             /\ lastOk' = taken
             /\ missing' = IF taken THEN missing ELSE missing + 1
             /\ line' = [line EXCEPT ![c] =
                            IF taken THEN LineOutcome(c, outcome, changed) ELSE "none"]
             /\ copy' = [copy EXCEPT ![c] = CopyOutcome(c, outcome, changed, taken)]
             /\ told' = [told EXCEPT ![c] =
                            IF HeldBack(c, outcome, changed, taken) THEN "withheld"
                            ELSE outcome]
<1> DEFINE Outcome(derived) ==
             IF result[c] = "ok" /\ ~derived THEN "error" ELSE result[c]
           Suits(write, outcome) ==
             write = "none" \/ OutcomeOf(write) = Audited(outcome)
           Changed(derived, invalid) ==
             invalid \/ ~Suits(StateOfCall(c, Outcome(derived)), Outcome(derived))
           Settles(outcome, changed, taken) ==
             /\ lastOk' = taken
             /\ missing' = IF taken THEN missing ELSE missing + 1
             /\ line' = [line EXCEPT ![c] =
                            IF taken THEN LineOutcome(c, outcome, changed) ELSE "none"]
             /\ copy' = [copy EXCEPT ![c] = CopyOutcome(c, outcome, changed, taken)]
             /\ told' = [told EXCEPT ![c] =
                            IF HeldBack(c, outcome, changed, taken) THEN "withheld"
                            ELSE outcome]
<1> HIDE DEF Settles
<1>1. \E derived, invalid, taken \in BOOLEAN :
        Settles(Outcome(derived), Changed(derived, invalid), taken)
  <2>1. \E derived, invalid, taken \in BOOLEAN :
          /\ server = "closed" => ~taken
          /\ lastOk' = taken
          /\ missing' = IF taken THEN missing ELSE missing + 1
          /\ line' = [line EXCEPT ![c] =
               IF taken THEN LineOutcome(c, Outcome(derived), Changed(derived, invalid))
               ELSE "none"]
          /\ named' = [named EXCEPT ![c] = reads[c]]
          /\ copy' = [copy EXCEPT ![c] =
               CopyOutcome(c, Outcome(derived), Changed(derived, invalid), taken)]
          /\ told' = [told EXCEPT ![c] =
               IF HeldBack(c, Outcome(derived), Changed(derived, invalid), taken)
                 THEN "withheld" ELSE Outcome(derived)]
    BY Zenon DEF End
  <2> HIDE DEF Outcome, Changed
  <2>2. PICK derived \in BOOLEAN, invalid \in BOOLEAN, taken \in BOOLEAN :
          /\ lastOk' = taken
          /\ missing' = IF taken THEN missing ELSE missing + 1
          /\ line' = [line EXCEPT ![c] =
               IF taken THEN LineOutcome(c, Outcome(derived), Changed(derived, invalid))
               ELSE "none"]
          /\ copy' = [copy EXCEPT ![c] =
               CopyOutcome(c, Outcome(derived), Changed(derived, invalid), taken)]
          /\ told' = [told EXCEPT ![c] =
               IF HeldBack(c, Outcome(derived), Changed(derived, invalid), taken)
                 THEN "withheld" ELSE Outcome(derived)]
    BY <2>1, Zenon
  <2>3. Settles(Outcome(derived), Changed(derived, invalid), taken)
    BY <2>2, Zenon DEF Settles
  <2> QED
    BY <2>3
<1>2. ASSUME NEW derived \in BOOLEAN, NEW invalid \in BOOLEAN
      PROVE  /\ Outcome(derived) \in Outcomes \cup {"none", "question"}
             /\ Outcome(derived) = "question" => result[c] = "question"
             /\ Changed(derived, invalid) \in BOOLEAN
  BY DEF TypeOK, Outcomes
<1> HIDE DEF Outcome, Changed
<1>3. \E outcome \in Outcomes \cup {"none", "question"}, changed, taken \in BOOLEAN :
        (outcome = "question" => result[c] = "question") /\ Settles(outcome, changed, taken)
  BY <1>1, <1>2
<1> QED
  BY <1>3 DEF Settles

\* What a line and its copy may say.
LEMMA LineTypes ==
    ASSUME NEW c, NEW outcome \in Outcomes \cup {"none", "question"},
           NEW changed, NEW taken
    PROVE  /\ LineOutcome(c, outcome, changed) \in Outcomes \cup {"none"}
           /\ CopyOutcome(c, outcome, changed, taken) \in Outcomes \cup {"none"}
BY DEF LineOutcome, CopyOutcome, Audited, Outcomes

\* A stage, the end of the stages and the state of a write, in their types.
LEMMA MovesTyped ==
    ASSUME TypeOK, NEW c \in Calls
    PROVE  /\ \A stage \in Stage : Goto(c, stage) => pc' \in [Calls -> Stage]
           /\ \A outcome \in Outcomes \cup {"question"} : EndWith(c, outcome) =>
                pc' \in [Calls -> Stage] /\ result' \in [Calls -> Ended]
           /\ \A write \in States :
                WriteIs(c, write) => state' \in [Calls -> States \cup {"none"}]
<1>1. pc \in [Calls -> Stage] /\ result \in [Calls -> Ended]
  BY DEF TypeOK, Stage, Ended
<1>2. state \in [Calls -> States \cup {"none"}]
  BY DEF TypeOK
<1>3. /\ "end" \in Stage
      /\ \A outcome \in Outcomes \cup {"question"} : outcome \in Ended
  BY DEF Stage, Ended
<1>4. \A stage \in Stage : Goto(c, stage) => pc' \in [Calls -> Stage]
  BY <1>1 DEF Goto
<1>5. \A outcome \in Outcomes \cup {"question"} :
        EndWith(c, outcome) => pc' \in [Calls -> Stage] /\ result' \in [Calls -> Ended]
  BY <1>1, <1>3, <1>4 DEF EndWith
<1>6. \A write \in States : WriteIs(c, write) => state' \in [Calls -> States \cup {"none"}]
  BY <1>2 DEF WriteIs
<1> QED
  BY <1>4, <1>5, <1>6

LEMMA NextCallTypes ==
    ASSUME TypeOK, MissingIsOver, Next
    PROVE  TypeOK'
<1> USE DEF file, store, budget, acts, ends
<1>0. /\ Cardinality(Calls) \in Nat /\ MaxDay \in Nat
      /\ \A S \in SUBSET Calls : Cardinality(S) \in Nat
  BY BoundAssumption, FewCalls
<1>1. ASSUME NEW c \in Calls, Refuse(c) PROVE TypeOK'
  <2>1. pc' \in [Calls -> Stage] /\ result' \in [Calls -> Ended]
    BY <1>1, MovesTyped DEF Refuse, Outcomes
  <2> QED
    BY <1>1, <2>1 DEF Refuse, TypeOK, Stage, Ended
<1>2. ASSUME NEW c \in Calls, NotReady(c) \/ CountUnavailable(c) PROVE TypeOK'
  <2>1. pc' \in [Calls -> Stage] /\ result' \in [Calls -> Ended]
    BY <1>2, MovesTyped DEF NotReady, CountUnavailable, Outcomes
  <2> QED
    BY <1>2, <2>1 DEF NotReady, CountUnavailable, TypeOK, Stage, Ended
<1>3. ASSUME NEW c \in Calls, Pass(c) PROVE TypeOK'
  <2>1. pc' \in [Calls -> Stage]
    BY <1>3, MovesTyped DEF Pass, Run, Stage
  <2> QED
    BY <1>3, <2>1 DEF Pass, Run, TypeOK, Stage
<1>4. ASSUME NEW c \in Calls, PassToBudget(c) PROVE TypeOK'
  <2>1. pc' \in [Calls -> Stage] /\ result' \in [Calls -> Ended]
    <3>1. result \in [Calls -> Ended]
      BY DEF TypeOK, Ended
    <3> QED
      BY <1>4, <3>1, MovesTyped DEF PassToBudget, Outcomes, Stage
  <2>2. /\ asking' \in [Calls -> {"no", "asked", "answered", "failed"}]
        /\ askedOn' \in [Calls -> Days]
    <3>1. CASE ReadBudget = 0
      BY <1>4, <3>1 DEF PassToBudget, TypeOK
    <3>2. CASE ReadBudget # 0
      <4>1. /\ asking' = [asking EXCEPT ![c] = "asked"]
            /\ askedOn' = [askedOn EXCEPT ![c] = day]
        BY <1>4, <3>2 DEF PassToBudget
      <4> QED
        BY <4>1 DEF TypeOK
    <3> QED
      BY <3>1, <3>2
  <2>3. UNCHANGED <<day, file, store, answer, queue, tool, aborted, acts, state, ends,
                    ranOn, most>>
    BY <1>4 DEF PassToBudget
  <2> QED
    BY <2>1, <2>2, <2>3 DEF TypeOK, Stage, Ended
<1>5. ASSUME NEW c \in Calls, CountAnswered(c) PROVE TypeOK'
  <2>1. pc' \in [Calls -> Stage] /\ result' \in [Calls -> Ended]
    <3>1. result \in [Calls -> Ended]
      BY DEF TypeOK, Ended
    <3> QED
      BY <1>5, <3>1, MovesTyped DEF CountAnswered, Run, Outcomes, Stage
  <2>2. /\ asking' \in [Calls -> {"no", "asked", "answered", "failed"}]
        /\ answer' \in [Calls -> Nat]
    BY <1>5 DEF CountAnswered, TypeOK
  <2>3. ranOn' \in [Calls -> Days \cup {NoDay}] /\ open' \in [Calls -> BOOLEAN]
    <3>1. CASE UNCHANGED <<open, ranOn>>
      BY <3>1 DEF TypeOK
    <3>2. CASE ~UNCHANGED <<open, ranOn>>
      <4>1. /\ ranOn' = [ranOn EXCEPT ![c] = askedOn[c]]
            /\ open' = [open EXCEPT ![c] = TRUE]
        BY <1>5, <3>2 DEF CountAnswered, Run
      <4> QED
        BY <4>1 DEF TypeOK
    <3> QED
      BY <3>1, <3>2
  <2>4. UNCHANGED <<day, file, store, askedOn, queue, tool, aborted, reads, plan, state,
                    ends, most>>
    BY <1>5 DEF CountAnswered, Run
  <2> QED
    BY <2>1, <2>2, <2>3, <2>4 DEF TypeOK, Stage, Ended
<1>6. ASSUME NEW c \in Calls, CountWaiting(c) PROVE TypeOK'
  <2>1. Larger(most, Cardinality(Between) + 1) \in Nat
    BY <1>0 DEF Larger, Between, TypeOK
  <2>2. most' \in Nat
    BY <1>6, <2>1 DEF CountWaiting, TypeOK
  <2>3. /\ pc' \in [Calls -> Stage] /\ result' \in [Calls -> Ended]
        /\ state' \in [Calls -> States \cup {"none"}]
    <3>1. result \in [Calls -> Ended] /\ state \in [Calls -> States \cup {"none"}]
      BY DEF TypeOK, Ended
    <3> QED
      BY <1>6, <3>1, MovesTyped DEF CountWaiting, Outcomes, States, Stage
  <2>4. UNCHANGED <<day, file, budget, queue, tool, aborted, acts, ends, ranOn>>
    BY <1>6 DEF CountWaiting
  <2> QED
    BY <2>2, <2>3, <2>4 DEF TypeOK, Stage, Ended
<1>7. ASSUME NEW c \in Calls, Enqueue(c) \/ QueueFails(c) PROVE TypeOK'
  <2>1. /\ pc' \in [Calls -> Stage] /\ result' \in [Calls -> Ended]
        /\ state' \in [Calls -> States \cup {"none"}]
    BY <1>7, MovesTyped DEF Enqueue, QueueFails, Finish, Outcomes, States
  <2>2. queue' \subseteq Calls
    BY <1>7 DEF Enqueue, QueueFails, TypeOK
  <2>3. UNCHANGED <<day, file, budget, tool, aborted, acts, ends, ranOn, most>>
    BY <1>7 DEF Enqueue, QueueFails
  <2> QED
    BY <2>1, <2>2, <2>3 DEF TypeOK, Stage, Ended
<1>19. ASSUME NEW c \in Calls, EntryGoes(c) PROVE TypeOK'
  BY <1>19 DEF EntryGoes, TypeOK
<1>8. ASSUME NEW c \in Calls, End(c) PROVE TypeOK'
  <2>1. /\ lastOk' \in BOOLEAN /\ missing' \in {missing, missing + 1}
        /\ line' \in [Calls -> Outcomes \cup {"none"}]
        /\ copy' \in [Calls -> Outcomes \cup {"none"}]
        /\ told' \in [Calls -> Outcomes \cup {"none", "question", "withheld"}]
    <3>1. PICK outcome \in Outcomes \cup {"none", "question"}, changed \in BOOLEAN,
               taken \in BOOLEAN :
            /\ lastOk' = taken
            /\ missing' = IF taken THEN missing ELSE missing + 1
            /\ line' = [line EXCEPT ![c] =
                           IF taken THEN LineOutcome(c, outcome, changed) ELSE "none"]
            /\ copy' = [copy EXCEPT ![c] = CopyOutcome(c, outcome, changed, taken)]
            /\ told' = [told EXCEPT ![c] =
                           IF HeldBack(c, outcome, changed, taken) THEN "withheld"
                           ELSE outcome]
      BY <1>8, EndSettles
    <3>2. /\ LineOutcome(c, outcome, changed) \in Outcomes \cup {"none"}
          /\ CopyOutcome(c, outcome, changed, taken) \in Outcomes \cup {"none"}
      BY LineTypes
    <3>3. lastOk' \in BOOLEAN /\ missing' \in {missing, missing + 1}
      BY <3>1
    <3>4. line' \in [Calls -> Outcomes \cup {"none"}]
      BY <3>1, <3>2 DEF TypeOK
    <3>5. copy' \in [Calls -> Outcomes \cup {"none"}]
      BY <3>1, <3>2 DEF TypeOK
    <3>6. told' \in [Calls -> Outcomes \cup {"none", "question", "withheld"}]
      BY <3>1 DEF TypeOK
    <3> QED
      BY <3>3, <3>4, <3>5, <3>6
  <2>2. missing' \in 0 .. Cardinality(Calls)
    <3>1. Over \subseteq Calls /\ c \notin Over
      BY <1>8 DEF Over, End
    <3>2. Over \cup {c} \subseteq Calls
      BY <3>1
    <3>3. Cardinality(Over \cup {c}) = Cardinality(Over) + 1
      BY <3>1, OneCallMore
    <3>4. Cardinality(Over \cup {c}) <= Cardinality(Calls) /\ Cardinality(Over) \in Nat
      BY <3>1, <3>2, FewCalls
    <3> QED
      BY <1>0, <2>1, <3>3, <3>4 DEF MissingIsOver, TypeOK
  <2>3. named' \in [Calls -> 0 .. MaxReads]
    BY <1>8 DEF End, TypeOK
  <2>4. /\ open' \in [Calls -> BOOLEAN] /\ aborted' \in [Calls -> BOOLEAN]
        /\ state' \in [Calls -> States \cup {"none"}]
    BY <1>8 DEF End, TypeOK
  <2>5. result' \in [Calls -> Ended]
    BY <1>8 DEF End, TypeOK, Ended
  <2>6. pc' \in [Calls -> Stage]
    BY <1>8, MovesTyped DEF End, Stage
  <2>7. UNCHANGED <<day, server, closedWith, budget, queue, tool, reads, plan, ranOn, most>>
    BY <1>8 DEF End
  <2> QED
    BY <2>1, <2>2, <2>3, <2>4, <2>5, <2>6, <2>7 DEF TypeOK, Stage, Ended
<1>20. ASSUME NEW d \in Days, NEW n \in Nat, Stored(d, n)
       PROVE  counted' \in [Days -> Nat] /\ swept' \subseteq Days
  <2>1. PICK removed \in {{}, 0 .. d - 1} :
          /\ counted' = [e \in Days |-> IF e = d THEN n
                                       ELSE IF e \in removed THEN 0 ELSE counted[e]]
          /\ swept' = swept \cup removed
    BY <1>20, Zenon DEF Stored
  <2>2. removed \subseteq Days
    BY <1>0 DEF Days
  <2> QED
    BY <2>1, <2>2 DEF TypeOK
<1>9. ASSUME NEW c \in Calls, StoreCounts(c) PROVE TypeOK'
  <2>1. PICK n \in 1 .. counted[askedOn[c]] + 1 :
          /\ Stored(askedOn[c], n) /\ answer' = [answer EXCEPT ![c] = n]
    BY <1>9, Zenon DEF StoreCounts
  <2>2. askedOn[c] \in Days /\ n \in Nat
    BY DEF TypeOK
  <2>3. /\ counted' \in [Days -> Nat] /\ swept' \subseteq Days
        /\ answer' \in [Calls -> Nat]
    BY <1>20, <2>1, <2>2 DEF TypeOK
  <2>4. /\ asking' = [asking EXCEPT ![c] = "answered"]
        /\ afresh' = IF askedOn[c] \in swept THEN afresh \cup {c} ELSE afresh
        /\ UNCHANGED <<day, file, askedOn, queue, tool, pc, aborted, acts, result,
                       state, ends, ranOn, most>>
    BY <1>9, Zenon DEF StoreCounts
  <2> QED
    BY <2>3, <2>4 DEF TypeOK
<1>10. ASSUME NEW c \in Calls, StoreFails(c) PROVE TypeOK'
  <2>1. PICK n \in {0, 1} : Stored(askedOn[c], counted[askedOn[c]] + n)
    BY <1>10, Zenon DEF StoreFails
  <2>2. askedOn[c] \in Days /\ counted[askedOn[c]] + n \in Nat
    BY DEF TypeOK
  <2>3. counted' \in [Days -> Nat] /\ swept' \subseteq Days
    BY <1>20, <2>1, <2>2
  <2> QED
    BY <1>10, <2>3 DEF StoreFails, TypeOK
<1>21. CASE CleanUp
  <2>1. PICK d \in 1 .. day :
          /\ counted' = [e \in Days |-> IF e < d THEN 0 ELSE counted[e]]
          /\ swept' = swept \cup 0 .. d - 1
          /\ UNCHANGED <<day, file, afresh, asking, askedOn, answer, queue, tool, pc,
                         aborted, acts, result, state, ends, ranOn, most>>
    BY <1>21, Zenon DEF CleanUp
  <2>2. 0 .. d - 1 \subseteq Days
    BY <1>0 DEF TypeOK, Days
  <2>3. counted' \in [Days -> Nat] /\ swept' \subseteq Days
    BY <2>1, <2>2 DEF TypeOK
  <2> QED
    BY <2>1, <2>3 DEF TypeOK
<1>11. ASSUME NEW c \in Calls, ToolReads(c) PROVE TypeOK'
  <2>1. reads' \in [Calls -> 0 .. MaxReads]
    <3>1. reads[c] + 1 \in 0 .. MaxReads
      BY <1>11, BoundAssumption DEF ToolReads, TypeOK
    <3> QED
      BY <1>11, <3>1 DEF ToolReads, TypeOK
  <2> QED
    BY <1>11, <2>1 DEF ToolReads, TypeOK
<1>12. ASSUME NEW c \in Calls, ToolPlans(c) \/ PlanEnds(c) PROVE TypeOK'
  <2>1. plan' \in [Calls -> {"none", "reading", "sealed", "skipped", "denied", "failed"}]
    <3>1. CASE ToolPlans(c)
      BY <3>1 DEF ToolPlans, TypeOK
    <3>2. CASE PlanEnds(c)
      BY <3>2 DEF PlanEnds, TypeOK
    <3> QED
      BY <1>12, <3>1, <3>2
  <2>2. UNCHANGED <<day, file, budget, queue, tool, pc, aborted, open, reads, result,
                    state, ends, ranOn, most>>
    BY <1>12 DEF ToolPlans, PlanEnds
  <2> QED
    BY <2>1, <2>2 DEF TypeOK
<1>13. ASSUME NEW c \in Calls, RefusedPlan(c) \/ Threw(c) \/ Returned(c)
       PROVE  /\ result' \in [Calls -> Ended]
              /\ state' \in [Calls -> States \cup {"none"}]
              /\ pc' \in [Calls -> Stage]
  <2>0. result \in [Calls -> Ended] /\ state \in [Calls -> States \cup {"none"}]
    BY DEF TypeOK, Ended
  <2>1. ASSUME RefusedPlan(c) \/ Threw(c)
        PROVE  /\ result' \in [Calls -> Ended]
               /\ state' \in [Calls -> States \cup {"none"}]
               /\ pc' \in [Calls -> Stage]
    BY <2>0, <2>1, MovesTyped DEF RefusedPlan, Threw, Outcomes, States
  <2>2. ASSUME Finish(c) \/ Routed(c)
        PROVE  /\ result' \in [Calls -> Ended] /\ pc' \in [Calls -> Stage]
    BY <2>0, <2>2, MovesTyped DEF Routed, Finish, Outcomes, Stage
  <2>3. ASSUME Routed(c) PROVE state' \in [Calls -> States \cup {"none"}]
    BY <2>0, <2>3, MovesTyped DEF Routed, States
  <2> QED
    BY <1>13, <2>0, <2>1, <2>2, <2>3 DEF Returned
<1>14. ASSUME NEW c \in Calls, ToolEnds(c) PROVE TypeOK'
  <2>1. open' \in [Calls -> BOOLEAN]
    BY <1>14 DEF ToolEnds, TypeOK
  <2>2. UNCHANGED <<day, file, budget, queue, tool, aborted, reads, plan, ends, ranOn, most>>
    BY <1>14 DEF ToolEnds
  <2>3. RefusedPlan(c) \/ Threw(c) \/ Returned(c)
    BY <1>14 DEF ToolEnds
  <2> QED
    BY <1>13, <2>1, <2>2, <2>3 DEF TypeOK, Stage, Ended
<1>15. ASSUME NEW c \in Calls, ClientAborts(c) PROVE TypeOK'
  <2>1. open' \in [Calls -> BOOLEAN] /\ aborted' \in [Calls -> BOOLEAN]
    BY <1>15 DEF ClientAborts, TypeOK
  <2>2. UNCHANGED <<day, file, budget, queue, tool, reads, plan, ends, ranOn, most>>
    BY <1>15 DEF ClientAborts
  <2>3. \/ RefusedPlan(c) \/ Threw(c)
        \/ UNCHANGED <<open, pc, result, state>>
    BY <1>15 DEF ClientAborts
  <2> QED
    BY <1>13, <2>1, <2>2, <2>3 DEF TypeOK, Stage, Ended
<1>16. CASE FileReady \/ FileCloses
  <2>1. closedWith' \in 0 .. NoCount
    BY <1>0, <1>16 DEF FileReady, FileCloses, TypeOK, NoCount
  <2>2. lastOk' \in BOOLEAN /\ server' \in {"serves", "closing", "closed"}
    BY <1>16 DEF FileReady, FileCloses, TypeOK
  <2>3. UNCHANGED <<day, missing, budget, queue, tool, pc, aborted, acts, result, state,
                    ends, ranOn, most>>
    BY <1>16 DEF FileReady, FileCloses
  <2> QED
    BY <2>1, <2>2, <2>3 DEF TypeOK
<1>17. CASE Midnight
  <2>1. day' \in Days
    BY <1>0, <1>17 DEF Midnight, TypeOK, Days
  <2> QED
    BY <1>17, <2>1 DEF Midnight, TypeOK
<1>18. CASE ServerCloses
  BY <1>18 DEF ServerCloses, TypeOK, Outcomes, States
<1> QED
  BY <1>1, <1>2, <1>3, <1>4, <1>5, <1>6, <1>7, <1>8, <1>9, <1>10, <1>11, <1>12, <1>14,
     <1>15, <1>16, <1>17, <1>18, <1>19, <1>21 DEF Next, Step

-----------------------------------------------------------------------------
(* The stages.                                                             *)

\* The ways a tool ends leave the run, and only a write becomes a question.
LEMMA ToolsEnd ==
    ASSUME TypeOK, Stages, NEW c \in Calls, RefusedPlan(c) \/ Threw(c) \/ Returned(c)
    PROVE  /\ \A b \in Calls \ {c} : pc'[b] = pc[b] /\ result'[b] = result[b]
           /\ pc'[c] \in {"waiting", "end"}
           /\ result'[c] = "question" => Writes(c)
<1> USE DEF Goto, EndWith, WriteIs, TypeOK
<1>1. CASE RefusedPlan(c) \/ Threw(c)
  BY <1>1 DEF RefusedPlan, Threw
<1>2. CASE Returned(c) /\ ~Writes(c)
  BY <1>2 DEF Returned, Finish
<1>3. CASE Returned(c) /\ Writes(c) /\ ~RefusedPlan(c)
  BY <1>3 DEF Returned, Routed, Finish
<1> QED
  BY <1>1, <1>2, <1>3

LEMMA NextStages ==
    ASSUME TypeOK, Stages, Next
    PROVE  Stages'
<1> USE DEF file, store, budget, acts, ends, Goto, EndWith, WriteIs, Writes
<1>1. ASSUME NEW c \in Calls, Refuse(c) \/ NotReady(c) \/ CountUnavailable(c) PROVE Stages'
  BY <1>1 DEF Refuse, NotReady, CountUnavailable, TypeOK, Stages
<1>2. ASSUME NEW c \in Calls, Pass(c) PROVE Stages'
  BY <1>2 DEF Pass, MayPass, Run, TypeOK, Stages
<1>3. ASSUME NEW c \in Calls, PassToBudget(c) PROVE Stages'
  BY <1>3 DEF PassToBudget, MayPass, TypeOK, Stages
<1>4. ASSUME NEW c \in Calls, CountAnswered(c) PROVE Stages'
  BY <1>4 DEF CountAnswered, Run, TypeOK, Stages
<1>5. ASSUME NEW c \in Calls, CountWaiting(c) \/ Enqueue(c) \/ QueueFails(c) PROVE Stages'
  BY <1>5 DEF CountWaiting, Enqueue, QueueFails, Finish, TypeOK, Stages
<1>6. ASSUME NEW c \in Calls, End(c) PROVE Stages'
  <2>1. /\ pc' = [pc EXCEPT ![c] = "done"] /\ open' = [open EXCEPT ![c] = FALSE]
        /\ aborted' = [aborted EXCEPT ![c] = FALSE]
        /\ result' = [result EXCEPT ![c] = "none"] /\ tool' = tool
    BY <1>6 DEF End
  <2>2. \A b \in Calls \ {c} : line'[b] = line[b] /\ copy'[b] = copy[b] /\ told'[b] = told[b]
    BY <1>6, EndSettles DEF TypeOK
  <2> QED
    BY <2>1, <2>2 DEF TypeOK, Stages
<1>7. ASSUME NEW c \in Calls, StoreCounts(c) \/ StoreFails(c) \/ ToolReads(c) \/ ToolPlans(c)
                \/ PlanEnds(c) \/ EntryGoes(c)
      PROVE  Stages'
  BY <1>7 DEF StoreCounts, StoreFails, ToolReads, ToolPlans, PlanEnds, EntryGoes, Stages
<1>8. ASSUME NEW c \in Calls, ToolEnds(c) PROVE Stages'
  <2>1. /\ pc[c] = "run" /\ open' = [open EXCEPT ![c] = FALSE]
        /\ UNCHANGED <<tool, aborted, ends>>
    BY <1>8 DEF ToolEnds
  <2>2. /\ \A b \in Calls \ {c} : pc'[b] = pc[b] /\ result'[b] = result[b]
        /\ pc'[c] \in {"waiting", "end"}
        /\ result'[c] = "question" => tool[c].writes
    BY <1>8, ToolsEnd DEF ToolEnds
  <2> QED
    BY <2>1, <2>2 DEF TypeOK, Stages
<1>9. ASSUME NEW c \in Calls, ClientAborts(c) PROVE Stages'
  <2>1. /\ pc[c] # "done" /\ aborted' = [aborted EXCEPT ![c] = TRUE]
        /\ UNCHANGED <<tool, ends>>
    BY <1>9 DEF ClientAborts
  <2>2. CASE pc[c] = "run"
    <3>1. open' = [open EXCEPT ![c] = FALSE]
      BY <1>9, <2>2 DEF ClientAborts
    <3>2. /\ \A b \in Calls \ {c} : pc'[b] = pc[b] /\ result'[b] = result[b]
          /\ pc'[c] \in {"waiting", "end"}
          /\ result'[c] = "question" => tool[c].writes
      BY <1>9, <2>2, ToolsEnd DEF ClientAborts
    <3> QED
      BY <2>1, <2>2, <3>1, <3>2 DEF TypeOK, Stages
  <2>3. CASE pc[c] # "run"
    BY <1>9, <2>1, <2>3 DEF ClientAborts, TypeOK, Stages
  <2> QED
    BY <2>2, <2>3
<1>10. CASE FileReady \/ FileCloses \/ Midnight \/ CleanUp
  BY <1>10 DEF FileReady, FileCloses, Midnight, CleanUp, Stages
<1>11. CASE ServerCloses
  BY <1>11 DEF ServerCloses, TypeOK, Stages
<1> QED
  BY <1>1, <1>2, <1>3, <1>4, <1>5, <1>6, <1>7, <1>8, <1>9, <1>10, <1>11 DEF Next, Step

-----------------------------------------------------------------------------
(* The line and the answer.                                                *)

\* A call that is over stays over, and no other step says that one is.
LEMMA OverMoves ==
    ASSUME TypeOK, Stages, Next
    PROVE  \/ Over' = Over /\ UNCHANGED <<line, named, copy, told, missing>>
           \/ \E c \in Calls : End(c)
<1> USE DEF file, store, budget, acts, ends, Goto, EndWith, WriteIs, TypeOK
<1> DEFINE Still == Over' = Over /\ UNCHANGED <<line, named, copy, told, missing>>
<1>1. ASSUME NEW c \in Calls, Refuse(c) \/ NotReady(c) \/ Pass(c) \/ PassToBudget(c)
      PROVE  Still
  BY <1>1 DEF Refuse, NotReady, Pass, PassToBudget, MayPass, Run, Over
<1>2. ASSUME NEW c \in Calls, CountAnswered(c) \/ CountUnavailable(c) PROVE Still
  BY <1>2 DEF CountAnswered, CountUnavailable, Run, Over
<1>3. ASSUME NEW c \in Calls, CountWaiting(c) \/ Enqueue(c) \/ QueueFails(c) PROVE Still
  BY <1>3 DEF CountWaiting, Enqueue, QueueFails, Finish, Over
<1>4. ASSUME NEW c \in Calls, StoreCounts(c) \/ StoreFails(c) \/ ToolReads(c) \/ ToolPlans(c)
                \/ PlanEnds(c) \/ EntryGoes(c)
      PROVE  Still
  BY <1>4 DEF StoreCounts, StoreFails, ToolReads, ToolPlans, PlanEnds, EntryGoes, Over
<1>5. ASSUME NEW c \in Calls, ToolEnds(c) PROVE Still
  <2>1. pc[c] = "run" /\ pc'[c] # "done" /\ \A b \in Calls \ {c} : pc'[b] = pc[b]
    BY <1>5, ToolsEnd DEF ToolEnds
  <2> QED
    BY <1>5, <2>1 DEF ToolEnds, Over
<1>6. ASSUME NEW c \in Calls, ClientAborts(c) PROVE Still
  <2>1. CASE pc[c] = "run"
    <3>1. pc'[c] # "done" /\ \A b \in Calls \ {c} : pc'[b] = pc[b]
      BY <1>6, <2>1, ToolsEnd DEF ClientAborts
    <3> QED
      BY <1>6, <2>1, <3>1 DEF ClientAborts, Over
  <2>2. CASE pc[c] # "run"
    BY <1>6, <2>2 DEF ClientAborts, Over
  <2> QED
    BY <2>1, <2>2
<1>7. CASE FileReady \/ FileCloses \/ Midnight \/ CleanUp \/ ServerCloses
  BY <1>7 DEF FileReady, FileCloses, Midnight, CleanUp, ServerCloses, Over
<1> QED
  BY <1>1, <1>2, <1>3, <1>4, <1>5, <1>6, <1>7 DEF Next, Step

LEMMA NextMissing ==
    ASSUME TypeOK, Stages, MissingIsOver, Next
    PROVE  MissingIsOver'
<1>0. missing \in Nat
  BY BoundAssumption, FS_CardinalityType DEF TypeOK
<1>1. ASSUME NEW c \in Calls, End(c) PROVE MissingIsOver'
  <2>1. Over' = Over \cup {c} /\ Over \subseteq Calls /\ c \notin Over
    BY <1>1 DEF End, Goto, Over, TypeOK
  <2>2. Cardinality(Over \cup {c}) = Cardinality(Over) + 1 /\ Cardinality(Over) \in Nat
    BY <2>1, OneCallMore, FewCalls
  <2>3. missing' \in {missing, missing + 1}
    BY <1>1, EndSettles
  <2> QED
    BY <1>0, <2>1, <2>2, <2>3 DEF MissingIsOver
<1>2. CASE Over' = Over /\ missing' = missing
  BY <1>2 DEF MissingIsOver
<1> QED
  BY <1>1, <1>2, OverMoves

\* What a tool declares does not change, and a read is noted only while it is
\* open.
LEMMA ReadsMove ==
    ASSUME TypeOK, Stages, Next, NEW c \in Calls
    PROVE  /\ tool' = tool
           /\ pc[c] = "done" => reads'[c] = reads[c]
<1> USE DEF file, store, budget, acts, ends, TypeOK
<1>1. tool' = tool
  BY DEF Next, Step, Refuse, NotReady, Pass, PassToBudget, CountAnswered, CountUnavailable,
     CountWaiting, Enqueue, QueueFails, End, StoreCounts, StoreFails, ToolReads, ToolPlans,
     PlanEnds, ToolEnds, ClientAborts, EntryGoes, FileReady, Midnight, CleanUp, ServerCloses,
     FileCloses
<1>2. ASSUME NEW b \in Calls, ToolReads(b) PROVE pc[c] = "done" => reads'[c] = reads[c]
  BY <1>2 DEF ToolReads, Stages
<1>3. reads' = reads \/ \E b \in Calls : ToolReads(b)
  BY DEF Next, Step, Refuse, NotReady, Pass, PassToBudget, CountAnswered, CountUnavailable,
     CountWaiting, Enqueue, QueueFails, End, StoreCounts, StoreFails, ToolPlans, Run,
     PlanEnds, ToolEnds, ClientAborts, EntryGoes, FileReady, Midnight, CleanUp, ServerCloses,
     FileCloses
<1> QED
  BY <1>1, <1>2, <1>3

LEMMA NextRecorded ==
    ASSUME TypeOK, Stages, SpecialIsRecorded, OkLinesWentOut, Next
    PROVE  SpecialIsRecorded' /\ OkLinesWentOut'
<1> SUFFICES ASSUME NEW b \in Calls, tool[b].special, ~tool[b].writes
             PROVE  /\ told'[b] = "ok" => line'[b] = "ok" /\ named'[b] = reads'[b]
                    /\ line'[b] = "ok" \/ copy'[b] = "ok" => told'[b] = "ok"
  BY ReadsMove DEF SpecialIsRecorded, OkLinesWentOut, Special, Writes
<1> USE DEF Special, Writes
<1>1. CASE UNCHANGED <<line, named, copy, told>>
  <2>1. told[b] = "ok" => reads'[b] = reads[b]
    BY ReadsMove DEF Stages
  <2> QED
    BY <1>1, <2>1 DEF SpecialIsRecorded, OkLinesWentOut
<1>2. ASSUME NEW c \in Calls, End(c), c # b
      PROVE  UNCHANGED <<line[b], named[b], copy[b], told[b], reads[b]>>
  <2>1. line'[b] = line[b] /\ copy'[b] = copy[b] /\ told'[b] = told[b]
    BY <1>2, EndSettles DEF TypeOK
  <2> QED
    BY <1>2, <2>1 DEF End, TypeOK
<1>3. ASSUME NEW c \in Calls, End(c), c # b
      PROVE  /\ told'[b] = "ok" => line'[b] = "ok" /\ named'[b] = reads'[b]
             /\ line'[b] = "ok" \/ copy'[b] = "ok" => told'[b] = "ok"
  BY <1>2, <1>3 DEF SpecialIsRecorded, OkLinesWentOut
<1>4. CASE End(b)
  <2>1. named'[b] = reads[b] /\ reads' = reads
    BY <1>4 DEF End, TypeOK
  <2>2. result[b] # "question"
    BY DEF Stages
  <2>3. /\ line \in [Calls -> Outcomes \cup {"none"}]
        /\ copy \in [Calls -> Outcomes \cup {"none"}]
        /\ told \in [Calls -> Outcomes \cup {"none", "question", "withheld"}]
    BY DEF TypeOK
  <2>4. PICK outcome \in Outcomes \cup {"none", "question"}, changed \in BOOLEAN,
             taken \in BOOLEAN :
          /\ outcome = "question" => result[b] = "question"
          /\ line' = [line EXCEPT ![b] =
                         IF taken THEN LineOutcome(b, outcome, changed) ELSE "none"]
          /\ copy' = [copy EXCEPT ![b] = CopyOutcome(b, outcome, changed, taken)]
          /\ told' = [told EXCEPT ![b] =
                         IF HeldBack(b, outcome, changed, taken) THEN "withheld"
                         ELSE outcome]
    BY <1>4, EndSettles
  <2>5. /\ outcome # "question"
        /\ line'[b] = IF taken THEN LineOutcome(b, outcome, changed) ELSE "none"
        /\ copy'[b] = CopyOutcome(b, outcome, changed, taken)
        /\ told'[b] = IF HeldBack(b, outcome, changed, taken) THEN "withheld"
                      ELSE outcome
    BY <2>2, <2>3, <2>4
  <2> QED
    BY <2>1, <2>5 DEF LineOutcome, CopyOutcome, HeldBack, Required, Audited
<1> QED
  BY <1>1, <1>3, <1>4, OverMoves

-----------------------------------------------------------------------------
(* The budget.                                                             *)

\* A day's budget is spent only as its store counts within it; every other
\* step hands a count on to the run, or lets it go.
LEMMA WinnersMove ==
    ASSUME TypeOK, Next, NEW d \in Days
    PROVE  /\ counted'[d] \in Nat
           /\ \/ /\ Winners(d)' \subseteq Winners(d)
                 /\ d \notin swept' => d \notin swept /\ counted[d] <= counted'[d]
              \/ \E c \in Calls : /\ Winners(d)' \subseteq Winners(d) \cup {c}
                                  /\ d \notin swept /\ counted'[d] = counted[d] + 1
                                  /\ counted'[d] <= ReadBudget
<1> USE DEF file, store, budget, acts, ends, AboveBudget
<1> DEFINE Fewer == /\ Winners(d)' \subseteq Winners(d)
                    /\ d \notin swept' => d \notin swept /\ counted[d] <= counted'[d]
           OneMore == \E c \in Calls : /\ Winners(d)' \subseteq Winners(d) \cup {c}
                                       /\ d \notin swept /\ counted'[d] = counted[d] + 1
                                       /\ counted'[d] <= ReadBudget
           Moved == counted'[d] \in Nat /\ (Fewer \/ OneMore)
<1>0. counted \in [Days -> Nat] /\ counted[d] \in Nat /\ ReadBudget \in Nat
  BY BoundAssumption DEF TypeOK
<1>1. CASE UNCHANGED <<budget, ranOn>>
  BY <1>0, <1>1 DEF Winners
<1>2. ASSUME NEW c \in Calls, PassToBudget(c) PROVE Moved
  BY <1>0, <1>2 DEF PassToBudget, Winners, TypeOK
<1>3. ASSUME NEW c \in Calls, CountAnswered(c) PROVE Moved
  BY <1>0, <1>3 DEF CountAnswered, Winners, TypeOK
\* What is stored for one day moves the counter of another only by removing it.
<1>4. ASSUME NEW e \in Days, NEW n \in Nat, Stored(e, n)
      PROVE  /\ swept \subseteq swept'
             /\ counted'[e] = n
             /\ d # e => counted'[d] \in {0, counted[d]}
             /\ d # e /\ d \notin swept' => counted'[d] = counted[d]
  <2>1. PICK removed \in {{}, 0 .. e - 1} :
          /\ counted' = [b \in Days |-> IF b = e THEN n
                                       ELSE IF b \in removed THEN 0 ELSE counted[b]]
          /\ swept' = swept \cup removed
    BY <1>4, Zenon DEF Stored
  <2> HIDE DEF Days
  <2>2. /\ counted'[e] = n
        /\ d # e => counted'[d] = IF d \in removed THEN 0 ELSE counted[d]
    BY <2>1
  <2> QED
    BY <2>1, <2>2
<1>5. ASSUME NEW c \in Calls, StoreCounts(c) PROVE Moved
  <2>1. PICK n \in 1 .. counted[askedOn[c]] + 1 :
          /\ askedOn[c] \in swept \/ n = counted[askedOn[c]] + 1
          /\ Stored(askedOn[c], n)
          /\ answer' = [answer EXCEPT ![c] = n]
    BY <1>5, Zenon DEF StoreCounts
  <2>2. askedOn[c] \in Days /\ n \in Nat
    BY DEF TypeOK
  <2>3. /\ swept \subseteq swept'
        /\ counted'[askedOn[c]] = n
        /\ d # askedOn[c] => counted'[d] \in {0, counted[d]}
        /\ d # askedOn[c] /\ d \notin swept' => counted'[d] = counted[d]
    BY <1>4, <2>1, <2>2
  <2>4. /\ asking' = [asking EXCEPT ![c] = "answered"] /\ UNCHANGED <<askedOn, ranOn>>
        /\ afresh' = IF askedOn[c] \in swept THEN afresh \cup {c} ELSE afresh
    BY <1>5, Zenon DEF StoreCounts
  <2>5. Winners(d)' \subseteq Winners(d) \cup {c}
    BY <2>1, <2>4 DEF Winners, TypeOK
  <2>6. c \in Winners(d)' =>
          c \in Winners(d) \/ (askedOn[c] = d /\ d \notin swept /\ n <= ReadBudget)
    BY <1>0, <2>1, <2>2, <2>4 DEF Winners, TypeOK
  <2>7. CASE askedOn[c] = d /\ d \notin swept /\ n <= ReadBudget
    BY <1>0, <2>1, <2>3, <2>5, <2>7
  <2>8. CASE ~(askedOn[c] = d /\ d \notin swept /\ n <= ReadBudget)
    <3>1. Winners(d)' \subseteq Winners(d)
      BY <2>5, <2>6, <2>8
    <3>2. /\ counted'[d] \in Nat
          /\ d \notin swept' => d \notin swept /\ counted[d] <= counted'[d]
      BY <1>0, <2>1, <2>2, <2>3
    <3> QED
      BY <3>1, <3>2
  <2> QED
    BY <2>7, <2>8
<1>6. ASSUME NEW c \in Calls, StoreFails(c) PROVE Moved
  <2>1. PICK n \in {0, 1} : Stored(askedOn[c], counted[askedOn[c]] + n)
    BY <1>6, Zenon DEF StoreFails
  <2>2. askedOn[c] \in Days /\ counted[askedOn[c]] + n \in Nat
    BY DEF TypeOK
  <2>3. /\ swept \subseteq swept'
        /\ counted'[askedOn[c]] = counted[askedOn[c]] + n
        /\ d # askedOn[c] => counted'[d] \in {0, counted[d]}
        /\ d # askedOn[c] /\ d \notin swept' => counted'[d] = counted[d]
    BY <1>4, <2>1, <2>2
  <2>4. Winners(d)' \subseteq Winners(d)
    BY <1>6 DEF StoreFails, Winners, TypeOK
  <2> QED
    BY <1>0, <2>2, <2>3, <2>4
<1>7. CASE CleanUp
  <2>1. PICK e \in 1 .. day :
          /\ counted' = [b \in Days |-> IF b < e THEN 0 ELSE counted[b]]
          /\ swept' = swept \cup 0 .. e - 1
          /\ UNCHANGED <<afresh, asking, askedOn, answer, ranOn>>
    BY <1>7, Zenon DEF CleanUp
  <2>2. Winners(d)' = Winners(d)
    BY <2>1 DEF Winners
  <2>3. day \in Nat /\ d \in Nat
    BY BoundAssumption DEF TypeOK, Days
  <2>4. counted'[d] = IF d < e THEN 0 ELSE counted[d]
    BY <2>1
  <2>5. d \notin swept' => d \notin swept /\ ~(d < e)
    BY <2>1, <2>3
  <2> QED
    BY <1>0, <2>2, <2>4, <2>5
<1> QED
  BY <1>1, <1>2, <1>3, <1>5, <1>6, <1>7
     DEF Next, Step, Refuse, NotReady, Pass, CountUnavailable, CountWaiting, Enqueue,
         QueueFails, End, ToolReads, ToolPlans, PlanEnds, ToolEnds, ClientAborts, EntryGoes,
         FileReady, Midnight, ServerCloses, FileCloses

LEMMA NextBudget ==
    ASSUME TypeOK, BudgetIsCounted, Next
    PROVE  BudgetIsCounted'
<1> SUFFICES ASSUME NEW d \in Days
             PROVE  /\ d \notin swept' => Cardinality(Winners(d)') <= counted'[d]
                    /\ Cardinality(Winners(d)') <= ReadBudget
  BY DEF BudgetIsCounted
<1>1. Winners(d) \subseteq Calls /\ Cardinality(Winners(d)) \in Nat /\ counted[d] \in Nat
  BY FewCalls DEF Winners, TypeOK
<1>2. /\ d \notin swept => Cardinality(Winners(d)) <= counted[d]
      /\ Cardinality(Winners(d)) <= ReadBudget
      /\ counted'[d] \in Nat /\ ReadBudget \in Nat
  BY WinnersMove, BoundAssumption DEF BudgetIsCounted
<1>3. ASSUME Winners(d)' \subseteq Winners(d),
             d \notin swept' => d \notin swept /\ counted[d] <= counted'[d]
      PROVE  /\ d \notin swept' => Cardinality(Winners(d)') <= counted'[d]
             /\ Cardinality(Winners(d)') <= ReadBudget
  <2>1. Cardinality(Winners(d)') <= Cardinality(Winners(d)) /\ Cardinality(Winners(d)') \in Nat
    BY <1>1, <1>3, FewCalls
  <2> QED
    BY <1>1, <1>2, <1>3, <2>1
<1>4. ASSUME NEW c \in Calls, Winners(d)' \subseteq Winners(d) \cup {c},
             d \notin swept, counted'[d] = counted[d] + 1, counted'[d] <= ReadBudget
      PROVE  /\ Cardinality(Winners(d)') <= counted'[d]
             /\ Cardinality(Winners(d)') <= ReadBudget
  <2>1. Winners(d) \cup {c} \subseteq Calls
    BY <1>1
  <2>2. /\ Cardinality(Winners(d)') <= Cardinality(Winners(d) \cup {c})
        /\ Cardinality(Winners(d)') \in Nat /\ Cardinality(Winners(d) \cup {c}) \in Nat
    BY <1>4, <2>1, FewCalls
  <2>3. Cardinality(Winners(d) \cup {c}) <= Cardinality(Winners(d)) + 1
    BY <1>1, OneCallMore
  <2> QED
    BY <1>1, <1>2, <1>4, <2>2, <2>3
<1> QED
  BY <1>3, <1>4, WinnersMove

-----------------------------------------------------------------------------
(* The queue.                                                              *)

\* A place in the queue is taken only where there was room, by a call that is
\* then between counting and queueing with as many as `most` says.
LEMMA QueueingMoves ==
    ASSUME TypeOK, Stages, Next
    PROVE  \/ Queueing' \subseteq Queueing /\ most' = most
           \/ \E c \in Calls : /\ HasRoom /\ queue' = queue /\ Between' = Between \cup {c}
                               /\ most' \in Nat /\ Cardinality(Between) + 1 <= most'
<1> USE DEF file, store, budget, acts, ends, Goto, EndWith, WriteIs, Queueing, Between
<1> DEFINE Kept == Queueing' \subseteq Queueing /\ most' = most
<1>0. pc \in [Calls -> {"idle", "count", "run", "waiting", "enqueue", "end", "done"}]
  BY DEF TypeOK
<1>1. ASSUME NEW c \in Calls, Refuse(c) \/ NotReady(c) \/ Pass(c) \/ PassToBudget(c)
      PROVE  Kept
  BY <1>0, <1>1 DEF Refuse, NotReady, Pass, PassToBudget, Run
<1>2. ASSUME NEW c \in Calls, CountAnswered(c) \/ CountUnavailable(c) \/ End(c) PROVE Kept
  BY <1>0, <1>2 DEF CountAnswered, CountUnavailable, Run, End
<1>3. ASSUME NEW c \in Calls, CountWaiting(c)
      PROVE  \/ Kept
             \/ /\ HasRoom /\ queue' = queue /\ Between' = Between \cup {c}
                /\ most' \in Nat /\ Cardinality(Between) + 1 <= most'
  <2>1. CASE HasRoom
    <3>1. queue' = queue /\ Between' = Between \cup {c}
      BY <1>0, <1>3, <2>1 DEF CountWaiting
    <3>2. most' = Larger(most, Cardinality(Between) + 1)
      BY <1>3, <2>1 DEF CountWaiting
    <3>3. most \in Nat /\ Cardinality(Between) \in Nat
      BY FewCalls DEF TypeOK
    <3>4. most' \in Nat /\ Cardinality(Between) + 1 <= most'
      BY ONLY <3>2, <3>3 DEF Larger
    <3> QED
      BY <2>1, <3>1, <3>4
  <2>2. CASE ~HasRoom
    BY <1>0, <1>3, <2>2 DEF CountWaiting
  <2> QED
    BY <2>1, <2>2
<1>4. ASSUME NEW c \in Calls, Enqueue(c) \/ QueueFails(c) \/ EntryGoes(c) PROVE Kept
  BY <1>0, <1>4 DEF Enqueue, QueueFails, EntryGoes, Finish
<1>5. ASSUME NEW c \in Calls, StoreCounts(c) \/ StoreFails(c) \/ ToolReads(c) \/ ToolPlans(c)
                \/ PlanEnds(c)
      PROVE  Kept
  BY <1>5 DEF StoreCounts, StoreFails, ToolReads, ToolPlans, PlanEnds
<1>6. ASSUME NEW c \in Calls, ToolEnds(c) PROVE Kept
  <2>1. pc'[c] # "enqueue" /\ \A b \in Calls \ {c} : pc'[b] = pc[b]
    BY <1>6, ToolsEnd DEF ToolEnds
  <2> QED
    BY <1>6, <2>1 DEF ToolEnds
<1>7. ASSUME NEW c \in Calls, ClientAborts(c) PROVE Kept
  <2>1. pc' = pc \/ (pc'[c] # "enqueue" /\ \A b \in Calls \ {c} : pc'[b] = pc[b])
    BY <1>7, ToolsEnd DEF ClientAborts
  <2> QED
    BY <1>7, <2>1 DEF ClientAborts
<1>8. CASE FileReady \/ FileCloses \/ Midnight \/ CleanUp \/ ServerCloses
  BY <1>8 DEF FileReady, FileCloses, Midnight, CleanUp, ServerCloses
<1> QED
  BY <1>1, <1>2, <1>3, <1>4, <1>5, <1>6, <1>7, <1>8 DEF Next, Step

LEMMA NextQueue ==
    ASSUME TypeOK, Stages, QueueIsCounted, Next
    PROVE  QueueIsCounted'
<1>0. /\ queue \subseteq Calls /\ Between \subseteq Calls /\ Queueing \subseteq Calls
      /\ most \in Nat /\ MaxWaiting \in Nat
  BY BoundAssumption DEF TypeOK, Between, Queueing
<1>1. CASE Queueing' \subseteq Queueing /\ most' = most
  <2>1. Cardinality(Queueing') <= Cardinality(Queueing)
        /\ Cardinality(Queueing) \in Nat
    BY <1>0, <1>1, FewCalls
  <2>2. Cardinality(Queueing') \in Nat
    BY <1>0, <1>1, FewCalls
  <2> QED
    BY <1>0, <1>1, <2>1, <2>2 DEF QueueIsCounted
<1>2. ASSUME NEW c \in Calls, HasRoom, queue' = queue, Between' = Between \cup {c},
             most' \in Nat, Cardinality(Between) + 1 <= most'
      PROVE  QueueIsCounted'
  <2>1. /\ IsFiniteSet(queue) /\ IsFiniteSet(Between \cup {c})
        /\ Cardinality(queue) \in Nat /\ Cardinality(Between) \in Nat
        /\ Cardinality(Between \cup {c}) \in Nat
    BY <1>0, FewCalls
  <2>2. Cardinality(Between \cup {c}) <= Cardinality(Between) + 1
    BY <1>0, OneCallMore
  <2>3. /\ Cardinality(queue \cup (Between \cup {c})) \in Nat
        /\ Cardinality(queue \cup (Between \cup {c})) =
                Cardinality(queue) + Cardinality(Between \cup {c})
                  - Cardinality(queue \cap (Between \cup {c}))
        /\ Cardinality(queue \cap (Between \cup {c})) \in Nat
    <3>1. /\ queue \cup (Between \cup {c}) \subseteq Calls
          /\ queue \cap (Between \cup {c}) \subseteq Calls
      BY <1>0
    <3> QED
      BY <2>1, <3>1, FewCalls, FS_Union
  <2>4. Queueing' = queue \cup (Between \cup {c})
    BY <1>2 DEF Queueing
  <2>5. Cardinality(queue) < MaxWaiting
    BY <1>2 DEF HasRoom
  <2>6. Cardinality(Queueing') + 1 <= MaxWaiting + most'
    BY <1>0, <1>2, <2>1, <2>2, <2>3, <2>4, <2>5
  <2> QED
    BY <2>6 DEF QueueIsCounted
<1> QED
  BY <1>1, <1>2, QueueingMoves

-----------------------------------------------------------------------------
(* A call of a tool: the theorems.                                         *)

LEMMA InitCalls == Init => CallInv
<1> SUFFICES ASSUME Init PROVE CallInv
  OBVIOUS
<1>1. Over = {} /\ Between = {} /\ \A d \in Days : Winners(d) = {}
  BY BoundAssumption DEF Init, Over, Between, Winners, Days, NoDay
<1>2. Cardinality({}) = 0
  BY FS_EmptySet
<1>3. MissingIsOver /\ BudgetIsCounted
  BY <1>1, <1>2, BoundAssumption DEF Init, MissingIsOver, BudgetIsCounted
<1>4. Stages /\ SpecialIsRecorded /\ OkLinesWentOut /\ QueueIsCounted
  BY <1>1 DEF Init, Stages, SpecialIsRecorded, OkLinesWentOut, QueueIsCounted, Queueing
<1> QED
  BY <1>3, <1>4, InitCallTypes DEF CallInv

LEMMA NextCalls == CallInv /\ [Next]_vars => CallInv'
<1> SUFFICES ASSUME CallInv, [Next]_vars PROVE CallInv'
  OBVIOUS
<1>1. CASE Next
  BY <1>1, NextCallTypes, NextStages, NextMissing, NextRecorded, NextBudget, NextQueue
     DEF CallInv
<1>2. CASE UNCHANGED vars
  BY <1>2 DEF vars, file, store, budget, acts, ends, CallInv, TypeOK, Stages, MissingIsOver, Over,
     SpecialIsRecorded, OkLinesWentOut, Special, Writes, BudgetIsCounted, Winners,
     AboveBudget, QueueIsCounted, Queueing, Between
<1> QED
  BY <1>1, <1>2

\* The invariant holds in every state.
THEOREM CallInvariant == Spec => []CallInv
BY InitCalls, NextCalls, PTL DEF Spec

\* Every variable keeps its type; so no more lines are missing than there are
\* calls.
THEOREM CallTypes == Spec => []TypeOK
<1>1. CallInv => TypeOK
  BY DEF CallInv
<1> QED
  BY <1>1, CallInvariant, PTL

\* The result of a special tool goes out only with its line in the audit file,
\* which says ok and names, or counts as left out, every read, whatever its tool
\* goes on to do.
THEOREM RecordedFirst == Spec => []SpecialIsRecorded
<1>1. CallInv => SpecialIsRecorded
  BY DEF CallInv
<1> QED
  BY <1>1, CallInvariant, PTL

\* No line and no copy of it on the log says ok for a special result that was
\* held back.
THEOREM OkIsTrue == Spec => []OkLinesWentOut
<1>1. CallInv => OkLinesWentOut
  BY DEF CallInv
<1> QED
  BY <1>1, CallInvariant, PTL

\* On no day do more special tools run than the budget allows, but for calls
\* counted after another count had removed the counters of their day; and the
\* queue is above its bound only by calls that counted side by side.
THEOREM BoundsKept == Spec => []BoundsHold
<1>1. ASSUME CallInv PROVE BoundsHold
  <2> DEFINE Spent(d) == {c \in Calls : ranOn[c] = d /\ c \notin afresh}
  <2>1. ASSUME NEW d \in Days PROVE Cardinality(Spent(d)) <= ReadBudget
    <3>1. Spent(d) \subseteq Winners(d) /\ Winners(d) \subseteq Calls
      BY DEF Winners
    <3>2. /\ Cardinality(Spent(d)) <= Cardinality(Winners(d))
          /\ Cardinality(Winners(d)) \in Nat /\ Cardinality(Spent(d)) \in Nat
      BY <3>1, FewCalls
    <3>3. Cardinality(Winners(d)) <= ReadBudget
      BY <1>1 DEF CallInv, BudgetIsCounted
    <3> QED
      BY <3>2, <3>3, BoundAssumption
  <2>2. QueueNearBound
    <3>1. queue \subseteq Queueing /\ Queueing \subseteq Calls
      BY <1>1 DEF CallInv, TypeOK, Queueing, Between
    <3>2. /\ Cardinality(queue) <= Cardinality(Queueing)
          /\ Cardinality(queue) \in Nat /\ Cardinality(Queueing) \in Nat
      BY <3>1, FewCalls
    <3>3. CASE Queueing = {}
      BY <3>1, <3>3, FS_EmptySet, BoundAssumption DEF QueueNearBound
    <3>4. CASE Cardinality(Queueing) + 1 <= MaxWaiting + most
      BY <1>1, <3>2, <3>4, BoundAssumption DEF QueueNearBound, CallInv, TypeOK
    <3> QED
      BY <1>1, <3>3, <3>4 DEF CallInv, QueueIsCounted
  <2> QED
    BY <2>1, <2>2 DEF BoundsHold, BudgetHolds
<1> QED
  BY <1>1, CallInvariant, PTL

\* A call given up has neither access nor port, and is in none of the stages
\* that wait for its tool.  (That it can always go on is left to TLC.)
THEOREM GivenUpIsShut ==
    Spec => [](\A c \in Calls : aborted[c] => ~open[c] /\ pc[c] \notin {"run", "done"})
<1>1. CallInv => \A c \in Calls : aborted[c] => ~open[c] /\ pc[c] \notin {"run", "done"}
  BY DEF CallInv, Stages
<1> QED
  BY <1>1, CallInvariant, PTL

-----------------------------------------------------------------------------
(* The file of counters of the budget.                                     *)

\* The stored file never holds more counters than its bound.
FileStaysBounded == Cardinality(Counted(counts)) <= MaxKeys

CountsType ==
    /\ world \in Worlds
    /\ counts \in [Keys -> Nat]
    /\ renamed \in [Keys -> Nat]
    /\ seen \in [Procs -> [Keys -> Nat]]
    /\ answered \in [Procs -> Nat]
    /\ key \in [Procs -> Keys]

SeenBelow == \A p \in Procs : \A k \in Keys : seen[p][k] <= renamed[k]
SeenBounded == \A p \in Procs : Cardinality(Counted(seen[p])) <= MaxKeys

CountsInv ==
    /\ CountsType
    /\ SeenBelow /\ NeverOvercounts
    /\ SeenBounded /\ FileStaysBounded

\* Nothing is counted at the start.
LEMMA InitCounts == StoreInit => CountsInv
<1> SUFFICES ASSUME StoreInit PROVE CountsInv
  OBVIOUS
<1>1. CountsType
  <2>1. world \in Worlds /\ world.keys \subseteq Keys
    BY BoundsAssumption DEF StoreInit
  <2>2. key \in [Procs -> Keys]
    BY <2>1 DEF StoreInit
  <2>. QED
    BY <2>1, <2>2 DEF StoreInit, CountsType, NoCounts
<1>2. SeenBelow /\ NeverOvercounts
  BY <1>1 DEF StoreInit, CountsType, SeenBelow, NeverOvercounts, NoCounts
<1>3. Counted(NoCounts) = {}
  BY DEF Counted, NoCounts
<1>4. Cardinality(Counted(NoCounts)) <= MaxKeys
  BY <1>3, FS_EmptySet, BoundsAssumption
<1>5. SeenBounded /\ FileStaysBounded
  BY <1>4 DEF StoreInit, SeenBounded, FileStaysBounded
<1>. QED
  BY <1>1, <1>2, <1>5 DEF CountsInv

\* What a process writes counts one counter more than what it read, at most.
LEMMA WrittenCounted ==
    ASSUME NEW f \in [Keys -> Nat], NEW k \in Keys
    PROVE  Counted([f EXCEPT ![k] = f[k] + 1]) = Counted(f) \cup {k}
BY DEF Counted

\* Only a call's start, its reading, its writing and its end touch the
\* counters or a copy of them; these four steps are looked at one by one.
LEMMA NextCounts == CountsInv /\ [StoreNext]_storeVars => CountsInv'
<1> SUFFICES ASSUME CountsInv, [StoreNext]_storeVars PROVE CountsInv'
  OBVIOUS
<1> USE DEF CountsInv
<1> DEFINE Copies == <<world, counts, seen, renamed>>
<1>1. ASSUME UNCHANGED Copies, key' \in [Procs -> Keys],
             answered' \in [Procs -> Nat],
             \A p \in Procs : answered'[p] = 0
                              \/ (answered'[p] = answered[p] /\ key'[p] = key[p])
      PROVE  CountsInv'
  <2>1. CountsType'
    BY <1>1 DEF CountsType
  <2>2. (SeenBelow /\ SeenBounded /\ FileStaysBounded)'
    BY <1>1 DEF SeenBelow, SeenBounded, FileStaysBounded, Counted
  <2>3. NeverOvercounts'
    BY <1>1, <2>1 DEF NeverOvercounts, CountsType
  <2>. QED
    BY <2>1, <2>2, <2>3
<1>2. ASSUME UNCHANGED <<Copies, key, answered>>
      PROVE  CountsInv'
  BY <1>2, <1>1 DEF CountsType
<1>3. ASSUME NEW p \in Procs, UNCHANGED <<Copies, key>>,
             answered' = [answered EXCEPT ![p] = 0]
      PROVE  CountsInv'
  BY <1>3, <1>1 DEF CountsType
<1>4. CASE UNCHANGED storeVars
  BY <1>4, <1>2 DEF storeVars, fileVars, localVars
<1>5. CASE Tick
  BY <1>5, <1>2 DEF Tick
<1>6. ASSUME NEW p \in Procs, Start(p)
      PROVE  CountsInv'
  <2>1. PICK k \in world.keys : key' = [key EXCEPT ![p] = k]
    BY <1>6 DEF Start
  <2>0. k \in Keys
    BY BoundsAssumption DEF CountsType
  <2>2. UNCHANGED Copies /\ answered' = [answered EXCEPT ![p] = 0]
    BY <1>6 DEF Start, fileVars
  <2>3. key' \in [Procs -> Keys] /\ answered' \in [Procs -> Nat]
    BY <2>0, <2>1, <2>2 DEF CountsType
  <2>4. \A q \in Procs : answered'[q] = 0
                         \/ (answered'[q] = answered[q] /\ key'[q] = key[q])
    BY <2>1, <2>2 DEF CountsType
  <2>. QED
    BY <2>2, <2>3, <2>4, <1>1
<1>7. ASSUME NEW p \in Procs, Lock(p)
      PROVE  CountsInv'
  <2>1. CASE GiveUp(p)
    BY <2>1, <1>3 DEF GiveUp, Fail, fileVars
  <2>2. CASE UnmakeLock(p)
    BY <2>2, <1>3 DEF UnmakeLock, Fail
  <2>3. CASE MakeLock(p) \/ FindLock(p) \/ VerifyLock(p)
    BY <2>3, <1>2 DEF MakeLock, FindLock, VerifyLock, fileVars
  <2>4. CASE LookGone(p) \/ LookFresh(p) \/ LookOld(p)
    BY <2>4, <1>2 DEF LookGone, LookFresh, LookOld, fileVars
  <2>5. CASE MoveAside(p) \/ MoveMissed(p) \/ Inspect(p)
    BY <2>5, <1>2 DEF MoveAside, MoveMissed, Inspect, fileVars
  <2>6. CASE PutBack(p) \/ Drop(p)
    BY <2>6, <1>2 DEF PutBack, Drop, fileVars
  <2>. QED
    BY <1>7, <2>1, <2>2, <2>3, <2>4, <2>5, <2>6 DEF Lock
<1>8. ASSUME NEW p \in Procs, ReadCounts(p)
      PROVE  CountsInv'
  <2>1. /\ seen' = [seen EXCEPT ![p] = counts]
        /\ UNCHANGED <<world, counts, renamed, key, answered>>
    BY <1>8 DEF ReadCounts, fileVars
  <2>2. CountsType'
    BY <2>1 DEF CountsType
  <2>3. SeenBelow' /\ NeverOvercounts'
    BY <2>1 DEF SeenBelow, NeverOvercounts, CountsType
  <2>4. \A q \in Procs : seen'[q] = counts \/ seen'[q] = seen[q]
    BY <2>1 DEF CountsType
  <2>5. SeenBounded' /\ FileStaysBounded'
    BY <2>1, <2>4 DEF SeenBounded, FileStaysBounded, Counted
  <2>. QED
    BY <2>2, <2>3, <2>5
<1>9. ASSUME NEW p \in Procs, WriteCounts(p)
      PROVE  CountsInv'
  <2> DEFINE k == key[p]
  <2>1. /\ Fits(p)
        /\ counts' = [seen[p] EXCEPT ![k] = seen[p][k] + 1]
        /\ renamed' = [renamed EXCEPT ![k] = @ + 1]
        /\ answered' = [answered EXCEPT ![p] = seen[p][k] + 1]
        /\ UNCHANGED <<world, seen, key>>
    BY <1>9 DEF WriteCounts
  <2>2. k \in Keys /\ seen[p] \in [Keys -> Nat]
    BY DEF CountsType
  <2>3. CountsType'
    BY <2>1, <2>2 DEF CountsType
  <2>4. \A j \in Keys : renamed'[j] = IF j = k THEN renamed[j] + 1
                                               ELSE renamed[j]
    BY <2>1, <2>2 DEF CountsType
  <2>5. SeenBelow'
    BY <2>1, <2>3, <2>4 DEF SeenBelow, CountsType
  <2>6. NeverOvercounts'
    <3>1. \A j \in Keys : counts'[j] <= renamed'[j]
      BY <2>1, <2>2, <2>4 DEF SeenBelow, CountsType
    <3>2. \A q \in Procs : answered'[q] <= renamed'[key'[q]]
      BY <2>1, <2>2, <2>4 DEF SeenBelow, NeverOvercounts, CountsType
    <3>. QED
      BY <3>1, <3>2 DEF NeverOvercounts
  <2>7. SeenBounded'
    BY <2>1 DEF SeenBounded, Counted
  <2>8. Counted(counts') = Counted(seen[p]) \cup {k}
    BY <2>1, <2>2, WrittenCounted
  <2>9. FileStaysBounded'
    BY <2>1, <2>8 DEF FileStaysBounded, Fits, Counted
  <2>. QED
    BY <2>3, <2>5, <2>6, <2>7, <2>9
<1>10. ASSUME NEW p \in Procs, WriteFails(p) \/ Unlock(p) \/ RemoveLock(p)
       PROVE  CountsInv'
  BY <1>10, <1>2 DEF WriteFails, Unlock, RemoveLock, fileVars
<1>11. ASSUME NEW p \in Procs, Crash(p) \/ LockFails(p)
       PROVE  CountsInv'
  BY <1>11, <1>3 DEF Crash, LockFails, Fail, fileVars
<1>. QED
  BY <1>4, <1>5, <1>6, <1>7, <1>8, <1>9, <1>10, <1>11 DEF StoreNext, Change

\* The strengthened invariant holds in every behaviour of the store.
THEOREM CountsInvariant == StoreSpec => []CountsInv
BY InitCounts, NextCounts, PTL DEF StoreSpec

\* Neither the file nor the answer of any call claims a count nobody made,
\* however many processes share the folder and however their locks fail.
THEOREM NobodyLosesBudget == StoreSpec => []NeverOvercounts
<1>1. CountsInv => NeverOvercounts
  BY DEF CountsInv
<1>. QED
  BY <1>1, CountsInvariant, PTL

\* The file never holds more counters than maxApprovalKeys and its kin allow,
\* though two processes may write it at the same time.
THEOREM FileBounded == StoreSpec => []FileStaysBounded
<1>1. CountsInv => FileStaysBounded
  BY DEF CountsInv
<1>. QED
  BY <1>1, CountsInvariant, PTL

-----------------------------------------------------------------------------
(* Types. The one step that is not a matter of looking is a new lock: a    *)
(* name must be free for it, whatever the processes hold on to.            *)

\* What the processes keep of one kind are at most as many names as there are
\* processes.
LEMMA NamesOf ==
    ASSUME NEW f \in [Procs -> LockIds \cup {None}]
    PROVE  LET T == {f[p] : p \in Procs}
           IN  IsFiniteSet(T) /\ Cardinality(T) \in Nat
               /\ Cardinality(T) <= Cardinality(Procs)
<1> DEFINE T == {f[p] : p \in Procs}
<1>1. f \in [Procs -> T] /\ \A t \in T : \E p \in Procs : f[p] = t
  OBVIOUS
<1>2. f \in Surjection(Procs, T)
  BY <1>1, Fun_IsSurj
<1>3. IsFiniteSet(T) /\ Cardinality(T) <= Cardinality(Procs)
  BY <1>2, FS_Surjection, BoundsAssumption
<1>4. Cardinality(T) \in Nat
  BY <1>3, FS_CardinalityType
<1>. QED
  BY <1>3, <1>4

\* Two finite sets together have at most their elements.
LEMMA UnionAtMost ==
    ASSUME NEW S, NEW T, IsFiniteSet(S), IsFiniteSet(T)
    PROVE  IsFiniteSet(S \cup T) /\ Cardinality(S \cup T) \in Nat
           /\ Cardinality(S \cup T) <= Cardinality(S) + Cardinality(T)
<1>1. IsFiniteSet(S \cup T) /\ IsFiniteSet(S \cap T)
  BY FS_Union, FS_Intersection
<1>2. /\ Cardinality(S) \in Nat /\ Cardinality(T) \in Nat
      /\ Cardinality(S \cap T) \in Nat /\ Cardinality(S \cup T) \in Nat
  BY <1>1, FS_CardinalityType
<1>3. Cardinality(S \cup T) =
          Cardinality(S) + Cardinality(T) - Cardinality(S \cap T)
  BY FS_Union
<1>. QED
  BY <1>1, <1>2, <1>3

\* A name for a new lock is always free.
LEMMA FreeIdIsFree ==
    ASSUME StoreTypeOK
    PROVE  /\ FreeId \in LockIds /\ FreeId # lockFile
           /\ \A p \in Procs : FreeId \notin {mine[p], judged[p], aside[p]}
<1> DEFINE N == Cardinality(Procs)
           M == {mine[p] : p \in Procs}
           J == {judged[p] : p \in Procs}
           A == {aside[p] : p \in Procs}
           Used == {lockFile} \cup (M \cup (J \cup A))
<1>1. N \in Nat
  BY FS_CardinalityType, BoundsAssumption
<1>2. /\ IsFiniteSet(M) /\ Cardinality(M) \in Nat /\ Cardinality(M) <= N
      /\ IsFiniteSet(J) /\ Cardinality(J) \in Nat /\ Cardinality(J) <= N
      /\ IsFiniteSet(A) /\ Cardinality(A) \in Nat /\ Cardinality(A) <= N
  BY NamesOf DEF StoreTypeOK
<1>3. IsFiniteSet(Used) /\ Cardinality(Used) \in Nat
      /\ Cardinality(Used) <= 3 * N + 1
  <2>1. /\ IsFiniteSet(J \cup A) /\ Cardinality(J \cup A) \in Nat
        /\ Cardinality(J \cup A) <= Cardinality(J) + Cardinality(A)
    BY <1>2, UnionAtMost
  <2>2. /\ IsFiniteSet(M \cup (J \cup A))
        /\ Cardinality(M \cup (J \cup A)) \in Nat
        /\ Cardinality(M \cup (J \cup A))
               <= Cardinality(M) + Cardinality(J \cup A)
    BY <1>2, <2>1, UnionAtMost
  <2>3. IsFiniteSet({lockFile}) /\ Cardinality({lockFile}) = 1
    BY FS_Singleton
  <2>4. /\ IsFiniteSet(Used) /\ Cardinality(Used) \in Nat
        /\ Cardinality(Used)
               <= Cardinality({lockFile}) + Cardinality(M \cup (J \cup A))
    BY <2>2, <2>3, UnionAtMost
  <2>. QED
    BY <1>1, <1>2, <2>1, <2>2, <2>3, <2>4
<1>4. IsFiniteSet(LockIds) /\ Cardinality(LockIds) = 3 * N + 2
  <2>1. 1 \in Int /\ 3 * N + 2 \in Int /\ ~(1 > 3 * N + 2)
    BY <1>1
  <2>2. /\ IsFiniteSet(1 .. 3 * N + 2)
        /\ Cardinality(1 .. 3 * N + 2) = (3 * N + 2) - 1 + 1
    BY <2>1, FS_Interval
  <2>. QED
    BY <1>1, <2>2 DEF LockIds
<1>5. ~(LockIds \subseteq Used)
  <2>1. LockIds \subseteq Used => Cardinality(LockIds) <= Cardinality(Used)
    BY <1>3, FS_Subset
  <2>. QED
    BY <1>1, <1>3, <1>4, <2>1
<1>6. PICK i \in LockIds : i \notin Used
  BY <1>5
<1>7. i # lockFile /\ \A p \in Procs : i \notin {mine[p], judged[p], aside[p]}
  BY <1>6
<1>. QED
  BY <1>7 DEF FreeId

\* The variables start with their types.
LEMMA InitTypes == StoreInit => StoreTypeOK
<1> SUFFICES ASSUME StoreInit PROVE StoreTypeOK
  OBVIOUS
<1>1. Cardinality(Procs) \in Nat
  BY FS_CardinalityType, BoundsAssumption
<1>2. lockFile \in LockIds \cup {None} /\ age \in [LockIds -> 0 .. Old]
  BY <1>1, BoundsAssumption DEF StoreInit, LockIds, Old
<1>3. crashes \in 0 .. world.crashes /\ key \in [Procs -> Keys]
  BY BoundsAssumption DEF StoreInit
<1>. QED
  BY <1>2, <1>3, BoundsAssumption DEF StoreInit, StoreTypeOK, NoCounts, Steps

\* Every step keeps the types.
LEMMA NextTypes == StoreTypeOK /\ [StoreNext]_storeVars => StoreTypeOK'
<1> SUFFICES ASSUME StoreTypeOK, [StoreNext]_storeVars PROVE StoreTypeOK'
  OBVIOUS
<1>1. ASSUME NEW p \in Procs, Start(p) PROVE StoreTypeOK'
  BY <1>1, BoundsAssumption DEF StoreTypeOK, fileVars, Steps, Start, Reach
<1>2. ASSUME NEW p \in Procs, GiveUp(p) PROVE StoreTypeOK'
  BY <1>2 DEF StoreTypeOK, fileVars, Steps, GiveUp, Fail, Reach
<1>3. ASSUME NEW p \in Procs, MakeLock(p) PROVE StoreTypeOK'
  <2>1. FreeId \in LockIds
    BY FreeIdIsFree
  <2>2. 0 \in 0 .. Old
    BY BoundsAssumption DEF Old
  <2>. QED
    BY <1>3, <2>1, <2>2 DEF StoreTypeOK, Steps, MakeLock, Reach
<1>4. ASSUME NEW p \in Procs, FindLock(p) PROVE StoreTypeOK'
  BY <1>4 DEF StoreTypeOK, fileVars, Steps, FindLock, Reach
<1>5. ASSUME NEW p \in Procs, VerifyLock(p) PROVE StoreTypeOK'
  BY <1>5 DEF StoreTypeOK, fileVars, Steps, VerifyLock, Reach
<1>6. ASSUME NEW p \in Procs, UnmakeLock(p) PROVE StoreTypeOK'
  BY <1>6 DEF StoreTypeOK, fileVars, Steps, UnmakeLock, Fail, Reach
<1>7. ASSUME NEW p \in Procs, LookGone(p) PROVE StoreTypeOK'
  BY <1>7 DEF StoreTypeOK, fileVars, Steps, LookGone, Retry, Reach
<1>8. ASSUME NEW p \in Procs, LookFresh(p) PROVE StoreTypeOK'
  BY <1>8 DEF StoreTypeOK, fileVars, Steps, LookFresh, Retry, Reach
<1>9. ASSUME NEW p \in Procs, LookOld(p) PROVE StoreTypeOK'
  BY <1>9 DEF StoreTypeOK, fileVars, Steps, LookOld, Reach
<1>10. ASSUME NEW p \in Procs, MoveAside(p) PROVE StoreTypeOK'
  BY <1>10 DEF StoreTypeOK, fileVars, Steps, MoveAside, Reach
<1>11. ASSUME NEW p \in Procs, MoveMissed(p) PROVE StoreTypeOK'
  BY <1>11 DEF StoreTypeOK, fileVars, Steps, MoveMissed, Retry, Reach
<1>12. ASSUME NEW p \in Procs, Inspect(p) PROVE StoreTypeOK'
  BY <1>12 DEF StoreTypeOK, fileVars, Steps, Inspect, Reach
<1>13. ASSUME NEW p \in Procs, PutBack(p) PROVE StoreTypeOK'
  BY <1>13 DEF StoreTypeOK, fileVars, Steps, PutBack, Reach
<1>14. ASSUME NEW p \in Procs, Drop(p) PROVE StoreTypeOK'
  BY <1>14 DEF StoreTypeOK, fileVars, Steps, Drop, Retry, Reach
<1>15. ASSUME NEW p \in Procs, LockFails(p) PROVE StoreTypeOK'
  BY <1>15 DEF StoreTypeOK, fileVars, Steps, LockFails, Fail, Reach
<1>16. ASSUME NEW p \in Procs, ReadCounts(p) PROVE StoreTypeOK'
  BY <1>16 DEF StoreTypeOK, fileVars, Steps, ReadCounts, Reach
<1>17. ASSUME NEW p \in Procs, WriteCounts(p) PROVE StoreTypeOK'
  BY <1>17 DEF StoreTypeOK, fileVars, Steps, WriteCounts, Reach
<1>18. ASSUME NEW p \in Procs, WriteFails(p) PROVE StoreTypeOK'
  BY <1>18 DEF StoreTypeOK, fileVars, Steps, WriteFails, Reach
<1>19. ASSUME NEW p \in Procs, Unlock(p) PROVE StoreTypeOK'
  BY <1>19 DEF StoreTypeOK, fileVars, Steps, Unlock, Reach
<1>20. ASSUME NEW p \in Procs, RemoveLock(p) PROVE StoreTypeOK'
  BY <1>20 DEF StoreTypeOK, fileVars, Steps, RemoveLock, Reach
<1>21. ASSUME NEW p \in Procs, Crash(p) PROVE StoreTypeOK'
  BY <1>21, BoundsAssumption DEF StoreTypeOK, fileVars, Steps, Crash, Reach
<1>22. CASE Tick
  <2>1. age' \in [LockIds -> 0 .. Old] /\ waited' \in [Procs -> 0 .. LockWait]
    BY <1>22, BoundsAssumption DEF Tick, StoreTypeOK, Old
  <2>. QED
    BY <1>22, <2>1 DEF Tick, StoreTypeOK
<1>23. CASE UNCHANGED storeVars
  BY <1>23 DEF StoreTypeOK, storeVars, fileVars, localVars
<1>. QED
  BY <1>1, <1>2, <1>3, <1>4, <1>5, <1>6, <1>7, <1>8, <1>9, <1>10, <1>11, <1>12, <1>13,
     <1>14, <1>15, <1>16, <1>17, <1>18, <1>19, <1>20, <1>21, <1>22, <1>23
     DEF StoreNext, Lock, Change

\* Every variable of the store keeps its type, and a new lock always finds a
\* name nobody refers to.
THEOREM QuotaTypes == StoreSpec => []StoreTypeOK
BY InitTypes, NextTypes, PTL DEF StoreSpec
-----------------------------------------------------------------------------
(* The store is the counter its port promises, in a calm world: no process *)
(* crashes, no call fails and no lock is held too long.  A lock left behind*)
(* at the start may still be cleared; then two processes are the most the  *)
(* code protects (a third can make a lock while the second moves the first *)
(* one's aside), so that is what is assumed.                               *)
(*                                                                         *)
(* The argument is mutual exclusion of the holders of a lock.  A holder's  *)
(* lock is at its path, or another process has it aside and nothing lies at*)
(* the path; so a third process would have to make a second lock.  Under   *)
(* the lock, what a process read is what the file holds.                   *)

FewProcs == \A p, q, r \in Procs : p = q \/ q = r \/ p = r

Holders == {"verify", "unmake", "read", "write", "unlock", "remove"}
Clearers == {"takeover", "inspect", "putback", "drop"}
Holds(p) == at[p] \in Holders

HoldersHave == \A p \in Procs : Holds(p) <=> mine[p] # None
ClearersHave == \A q \in Procs : at[q] \in Clearers <=> judged[q] # None
HeldIsYoung == \A p \in Procs : mine[p] # None => age[mine[p]] <= OrphanAge
JudgedIsOld == \A q \in Procs : judged[q] # None => age[judged[q]] > OrphanAge
Aside(q, l) == at[q] \in {"inspect", "putback"} /\ aside[q] = l
HeldLies == \A p \in Procs : Holds(p) =>
    \/ lockFile = mine[p]
    \/ lockFile = None /\ \E q \in Procs : Aside(q, mine[p])
OneHolds == \A p, q \in Procs : Holds(p) /\ Holds(q) => p = q
SeenIsCurrent == \A p \in Procs : at[p] = "write" => seen[p] = counts
NotYetAnswered == \A p \in Procs :
    at[p] \notin {"idle", "unlock", "remove"} => answered[p] = 0
NobodyClears == ~LeftBehind =>
    /\ \A q \in Procs : judged[q] = None
    /\ lockFile # None => \E p \in Procs : Holds(p) /\ mine[p] = lockFile

LockInv ==
    /\ HoldersHave /\ ClearersHave
    /\ HeldIsYoung /\ JudgedIsOld
    /\ HeldLies /\ OneHolds
    /\ SeenIsCurrent /\ NotYetAnswered /\ NobodyClears

CalmInv == calm => LockInv

\* A step in a calm world keeps the discipline of the lock.
LEMMA StepCalm ==
    ASSUME StoreTypeOK, LockInv, calm, FewProcs \/ ~LeftBehind, [StoreNext]_storeVars
    PROVE  LockInv'
<1> USE DEF LockInv, HoldersHave, ClearersHave, HeldIsYoung, JudgedIsOld,
            HeldLies, OneHolds, SeenIsCurrent, NotYetAnswered, NobodyClears,
            Holds, Aside, Holders, Clearers, FewProcs, StoreTypeOK, Steps, Reach
<1>1. ASSUME NEW p \in Procs, MakeLock(p) PROVE LockInv'
  <2> DEFINE l == FreeId
  <2>1. /\ l \in LockIds /\ l # lockFile /\ l # None
        /\ \A q \in Procs : l \notin {mine[q], judged[q], aside[q]}
    BY FreeIdIsFree, NoneAssumption
  <2> HIDE DEF l
  <2>2. /\ at[p] = "open" /\ lockFile = None /\ lockFile' = l
        /\ at' = [at EXCEPT ![p] = "verify"]
        /\ mine' = [mine EXCEPT ![p] = l] /\ age' = [age EXCEPT ![l] = 0]
        /\ UNCHANGED <<judged, aside, seen, counts, answered>>
    BY <1>1 DEF MakeLock, l
  <2>3. \A q \in Procs : ~Holds(q)
    <3>1. SUFFICES ASSUME NEW q \in Procs, Holds(q) PROVE FALSE
      OBVIOUS
    <3>2. PICK r \in Procs : Aside(r, mine[q])
      BY <2>2, <3>1
    <3>3. judged[r] # None
      BY <3>2
    <3>4. p # q /\ q # r /\ p # r
      BY <2>2, <3>1, <3>2
    <3>. QED
      BY <3>3, <3>4
  <2>4. (HoldersHave /\ ClearersHave)'
    BY <2>1, <2>2
  <2>5. HeldIsYoung'
    <3>1. \A q \in Procs : mine'[q] # None => q = p
      BY <2>2, <2>3
    <3>. QED
      BY <2>1, <2>2, <3>1, BoundsAssumption
  <2>6. JudgedIsOld'
    <3>1. \A q \in Procs : judged[q] # None => age'[judged[q]] = age[judged[q]]
      BY <2>1, <2>2
    <3>. QED
      BY <2>2, <3>1
  <2>7. HeldLies' /\ OneHolds'
    BY <2>2, <2>3
  <2>8. (SeenIsCurrent /\ NotYetAnswered /\ NobodyClears)'
    BY <2>2
  <2>. QED
    BY <2>4, <2>5, <2>6, <2>7, <2>8
<1>2. ASSUME NEW p \in Procs, VerifyLock(p) PROVE LockInv'
  <2>1. /\ at[p] = "verify"
        /\ at' = [at EXCEPT ![p] = "read"] \/ at' = [at EXCEPT ![p] = "unmake"]
        /\ UNCHANGED <<lockFile, age, counts, mine, judged, aside, seen, answered>>
    BY <1>2 DEF VerifyLock, fileVars
  <2>2. at'[p] \in {"read", "unmake"} /\ \A q \in Procs \ {p} : at'[q] = at[q]
    BY <2>1
  <2>3. \A q \in Procs : Holds(q)' <=> Holds(q)
    BY <2>1, <2>2
  <2>4. \A q \in Procs : /\ at'[q] \in Clearers <=> at[q] \in Clearers
                         /\ \A l : Aside(q, l)' <=> Aside(q, l)
    BY <2>1, <2>2
  <2>5. (HoldersHave /\ ClearersHave)'
    BY <2>1, <2>3, <2>4
  <2>6. HeldLies'
    BY <2>1, <2>3, <2>4
  <2>7. (HeldIsYoung /\ JudgedIsOld /\ OneHolds)'
    BY <2>1, <2>3
  <2>8. (SeenIsCurrent /\ NotYetAnswered)'
    BY <2>1, <2>2
  <2>9. NobodyClears'
    BY <2>1, <2>3
  <2>. QED
    BY <2>5, <2>6, <2>7, <2>8, <2>9
<1>3. ASSUME NEW p \in Procs, LookOld(p) PROVE LockInv'
  <2>1. /\ at[p] = "look" /\ lockFile # None /\ age[lockFile] > OrphanAge
        /\ at' = [at EXCEPT ![p] = "takeover"]
        /\ judged' = [judged EXCEPT ![p] = lockFile]
        /\ UNCHANGED <<lockFile, age, counts, mine, aside, seen, answered>>
    BY <1>3 DEF LookOld, fileVars
  <2>2. LeftBehind
    <3>1. SUFFICES ASSUME ~LeftBehind PROVE FALSE
      OBVIOUS
    <3>2. PICK q \in Procs : Holds(q) /\ mine[q] = lockFile
      BY <2>1, <3>1
    <3>3. age[lockFile] <= OrphanAge
      BY <2>1, <3>2
    <3>4. age[lockFile] \in 0 .. Old /\ OrphanAge \in Nat /\ Old \in Nat
      BY <2>1, BoundsAssumption DEF Old
    <3>. QED
      BY <2>1, <3>3, <3>4
  <2>. QED
    BY <2>1, <2>2
<1>4. ASSUME NEW p \in Procs, MoveAside(p) PROVE LockInv'
  BY <1>4 DEF MoveAside
<1>5. ASSUME NEW p \in Procs, Inspect(p) PROVE LockInv'
  <2>1. /\ at[p] = "inspect"
        /\ UNCHANGED <<lockFile, age, counts, mine, judged, aside, seen, answered>>
    BY <1>5 DEF Inspect, fileVars
  <2>2. CASE aside[p] = judged[p]
    <3>1. at' = [at EXCEPT ![p] = "drop"]
      BY <1>5, <2>2 DEF Inspect
    <3>2. \A q \in Procs : Holds(q) => ~Aside(p, mine[q])
      <4>1. age[judged[p]] > OrphanAge /\ judged[p] # None
        BY <2>1
      <4>2. \A q \in Procs : Holds(q) => age[mine[q]] <= OrphanAge
        OBVIOUS
      <4>3. judged[p] \in LockIds /\ age[judged[p]] \in 0 .. Old
            /\ OrphanAge \in Nat /\ Old \in Nat
        BY <4>1, BoundsAssumption DEF Old
      <4>. QED
        BY <2>2, <4>1, <4>2, <4>3
    <3>3. HeldLies'
      BY <2>1, <3>1, <3>2
    <3>. QED
      BY <2>1, <3>1, <3>3
  <2>3. CASE aside[p] # judged[p]
    <3>1. at' = [at EXCEPT ![p] = "putback"]
      BY <1>5, <2>3 DEF Inspect
    <3>. QED
      BY <2>1, <3>1
  <2>. QED
    BY <2>2, <2>3
<1>6. ASSUME NEW p \in Procs, PutBack(p) PROVE LockInv'
  <2>1. /\ at[p] = "putback" /\ at' = [at EXCEPT ![p] = "drop"]
        /\ lockFile' = IF lockFile = None THEN aside[p] ELSE lockFile
        /\ UNCHANGED <<age, counts, mine, judged, aside, seen, answered>>
    BY <1>6 DEF PutBack
  <2>2. LeftBehind /\ FewProcs
    BY <2>1
  <2>3. HeldLies'
    <3>1. SUFFICES ASSUME NEW q \in Procs, Holds(q)
                   PROVE  lockFile' = mine[q]
      BY <2>1
    <3>2. CASE lockFile = mine[q]
      BY <2>1, <3>1, <3>2
    <3>3. CASE lockFile = None
      <4>1. PICK r \in Procs : Aside(r, mine[q])
        BY <3>1, <3>3
      <4>2. r = p
        <5>1. q # r /\ q # p
          BY <2>1, <3>1, <4>1
        <5>. QED
          BY <2>2, <5>1
      <4>. QED
        BY <2>1, <3>3, <4>1, <4>2
    <3>. QED
      BY <3>1, <3>2, <3>3
  <2>4. (HoldersHave /\ ClearersHave)'
    BY <2>1
  <2>. QED
    BY <2>1, <2>2, <2>3, <2>4
<1>7. ASSUME NEW p \in Procs, Drop(p) PROVE LockInv'
  <2>1. /\ at[p] = "drop" /\ at' = [at EXCEPT ![p] = "open"]
        /\ aside' = [aside EXCEPT ![p] = None]
        /\ judged' = [judged EXCEPT ![p] = None]
        /\ UNCHANGED <<lockFile, age, counts, mine, seen, answered>>
    BY <1>7 DEF Drop, Retry, fileVars
  <2>2. HeldLies'
    <3>1. \A q \in Procs : Holds(q)' <=> Holds(q)
      BY <2>1
    <3>2. \A q \in Procs, l \in LockIds : Aside(q, l) => Aside(q, l)'
      BY <2>1
    <3>. QED
      BY <2>1, <3>1, <3>2
  <2>. QED
    BY <2>1, <2>2
<1>8. ASSUME NEW p \in Procs, MoveMissed(p) PROVE LockInv'
  <2>1. /\ at[p] = "takeover" /\ at' = [at EXCEPT ![p] = "open"]
        /\ judged' = [judged EXCEPT ![p] = None]
        /\ UNCHANGED <<lockFile, age, counts, mine, aside, seen, answered>>
    BY <1>8 DEF MoveMissed, Retry, fileVars
  <2>2. (HoldersHave /\ ClearersHave /\ HeldLies)'
    BY <2>1
  <2>. QED
    BY <2>1, <2>2
<1>9. ASSUME NEW p \in Procs, Unlock(p) PROVE LockInv'
  <2>1. /\ at[p] = "unlock"
        /\ UNCHANGED <<lockFile, age, counts, judged, aside, seen, answered>>
    BY <1>9 DEF Unlock, fileVars
  <2>2. CASE at' = [at EXCEPT ![p] = "remove"] /\ UNCHANGED mine
    BY <2>1, <2>2
  <2>3. CASE /\ at' = [at EXCEPT ![p] = "idle"] /\ lockFile # mine[p]
             /\ mine' = [mine EXCEPT ![p] = None]
    BY <2>1, <2>3
  <2>. QED
    BY <1>9, <2>2, <2>3 DEF Unlock, calm
<1>10. ASSUME NEW p \in Procs, GiveUp(p) PROVE LockInv'
  BY <1>10 DEF GiveUp, Fail, fileVars
<1>11. ASSUME NEW p \in Procs, UnmakeLock(p) PROVE LockInv'
  BY <1>11 DEF UnmakeLock, Fail
<1>12. ASSUME NEW p \in Procs, FindLock(p) PROVE LockInv'
  BY <1>12 DEF FindLock, fileVars
<1>13. ASSUME NEW p \in Procs, LookGone(p) PROVE LockInv'
  BY <1>13 DEF LookGone, Retry, fileVars
<1>14. ASSUME NEW p \in Procs, LookFresh(p) PROVE LockInv'
  BY <1>14 DEF LookFresh, Retry, fileVars
<1>15. ASSUME NEW p \in Procs, Start(p) PROVE LockInv'
  BY <1>15 DEF Start, fileVars
<1>16. ASSUME NEW p \in Procs, ReadCounts(p) PROVE LockInv'
  BY <1>16 DEF ReadCounts, fileVars
<1>17. ASSUME NEW p \in Procs, WriteCounts(p) PROVE LockInv'
  BY <1>17 DEF WriteCounts
<1>18. ASSUME NEW p \in Procs, WriteFails(p) PROVE LockInv'
  BY <1>18 DEF WriteFails, fileVars
<1>19. ASSUME NEW p \in Procs, RemoveLock(p) PROVE LockInv'
  BY <1>19 DEF RemoveLock
<1>20. CASE Tick
  <2>1. /\ \A p \in Procs : mine[p] # None => age[mine[p]] < OrphanAge
        /\ age' = [i \in LockIds |-> IF age[i] < Old THEN age[i] + 1 ELSE Old]
        /\ UNCHANGED <<lockFile, counts, at, mine, judged, aside, seen, answered>>
    BY <1>20 DEF Tick, calm
  <2>2. \A i \in LockIds :
            /\ age[i] < OrphanAge => age'[i] <= OrphanAge
            /\ age[i] > OrphanAge => age'[i] > OrphanAge
    BY <2>1, BoundsAssumption DEF Old
  <2>3. (HeldIsYoung /\ JudgedIsOld)'
    BY <2>1, <2>2
  <2>. QED
    BY <2>1, <2>3
<1>21. ASSUME NEW p \in Procs PROVE ~Crash(p) /\ ~LockFails(p)
  BY DEF Crash, LockFails, calm
<1>22. CASE UNCHANGED storeVars
  BY <1>22 DEF storeVars, fileVars, localVars
<1>. QED
  BY <1>1, <1>2, <1>3, <1>4, <1>5, <1>6, <1>7, <1>8, <1>9, <1>10, <1>11,
     <1>12, <1>13, <1>14, <1>15, <1>16, <1>17, <1>18, <1>19, <1>20, <1>21,
     <1>22 DEF StoreNext, Lock, Change

\* The discipline holds at the start: nobody holds or clears a lock.
LEMMA InitCalm == StoreInit => CalmInv
<1> SUFFICES ASSUME StoreInit PROVE LockInv
  BY DEF CalmInv
<1>1. \A p \in Procs : /\ at[p] = "idle" /\ mine[p] = None
                       /\ judged[p] = None /\ answered[p] = 0
  BY DEF StoreInit
<1>2. ~LeftBehind => lockFile = None
  BY DEF StoreInit
<1>. QED
  BY <1>1, <1>2
     DEF LockInv, HoldersHave, ClearersHave, HeldIsYoung, JudgedIsOld,
         HeldLies, OneHolds, SeenIsCurrent, NotYetAnswered, NobodyClears,
         Holds, Holders, Clearers

\* The world of a behaviour never changes.
LEMMA WorldStays == [StoreNext]_storeVars => world' = world
BY DEF StoreNext, Start, Lock, GiveUp, MakeLock, FindLock, VerifyLock, UnmakeLock,
       LookGone, LookFresh, LookOld, MoveAside, MoveMissed, Inspect, PutBack,
       Drop, LockFails, Change, ReadCounts, WriteCounts, WriteFails, Unlock,
       RemoveLock, Crash, Tick, storeVars

\* Types and discipline together are inductive.
THEOREM LockDiscipline ==
    ASSUME FewProcs \/ ~LeftBehind
    PROVE  StoreSpec => [](StoreTypeOK /\ CalmInv)
<1>1. StoreInit => StoreTypeOK /\ CalmInv
  BY InitTypes, InitCalm
<1>2. StoreTypeOK /\ CalmInv /\ [StoreNext]_storeVars => (StoreTypeOK /\ CalmInv)'
  <2> SUFFICES ASSUME StoreTypeOK, CalmInv, [StoreNext]_storeVars
               PROVE  (StoreTypeOK /\ CalmInv)'
    OBVIOUS
  <2>1. StoreTypeOK'
    BY NextTypes
  <2>2. calm' <=> calm
    BY WorldStays DEF calm
  <2>3. CalmInv'
    BY <2>2, StepCalm DEF CalmInv
  <2>. QED
    BY <2>1, <2>3
<1>. QED
  BY <1>1, <1>2, PTL DEF StoreSpec

\* The steps at which a process asks for nothing.
Resting == {"idle", "unlock", "remove"}

\* A step of one process that changes neither counters nor answers, and does
\* not begin or end its asking, is not seen through the port.
LEMMA NotSeen ==
    ASSUME calm, calm', UNCHANGED <<counts, key, answered>>,
           \A p \in Procs : at'[p] \in Resting <=> at[p] \in Resting
    PROVE  UNCHANGED Counter!vars
<1>1. \A p \in Procs : Called(p)' = Called(p)
  BY DEF Called, Phase, Resting
<1>. QED
  BY <1>1 DEF Counter!vars

\* A call that ends without a count was dropped.
LEMMA SeenAsDropped ==
    ASSUME StoreTypeOK, calm, calm', NEW p \in Procs, at[p] \notin Resting,
           answered[p] = 0, NEW step \in {"idle", "unlock"},
           at' = [at EXCEPT ![p] = step],
           answered' = answered, UNCHANGED <<counts, key>>
    PROVE  Counter!Drop(p)
<1>1. /\ Called(p).phase = "asked" /\ Called(p)'.phase = "idle"
      /\ Called(p)'.value = 0 /\ Called(p)'.key = Called(p).key
  BY DEF Called, Phase, Resting, StoreTypeOK
<1>2. \A q \in Procs \ {p} : Called(q)' = Called(q)
  BY DEF Called, Phase, Resting, StoreTypeOK
<1>. QED
  BY <1>1, <1>2 DEF Counter!Drop, Called

\* A call begins: it asks, whatever the last one of its process answered.
LEMMA SeenAsAsked ==
    ASSUME StoreTypeOK, calm, calm', NEW p \in Procs, Start(p)
    PROVE  Counter!Ask(p)
<1>1. PICK k \in world.keys : key' = [key EXCEPT ![p] = k]
  BY DEF Start
<1>2. k \in Keys
  BY BoundsAssumption DEF StoreTypeOK
<1>3. /\ at[p] = "idle" /\ at' = [at EXCEPT ![p] = "open"]
      /\ answered' = [answered EXCEPT ![p] = 0] /\ UNCHANGED counts
  BY DEF Start, Reach, fileVars
<1>4. /\ Called(p).phase # "asked"
      /\ Called(p)' = [key |-> k, phase |-> "asked", value |-> 0]
  BY <1>1, <1>3 DEF Called, Phase, Resting, StoreTypeOK
<1>5. \A q \in Procs \ {p} : Called(q)' = Called(q)
  BY <1>1, <1>3 DEF Called, Phase, Resting, StoreTypeOK
<1>6. [q \in Procs |-> Called(q)'] =
        [[q \in Procs |-> Called(q)] EXCEPT
            ![p] = [key |-> k, phase |-> "asked", value |-> 0]]
  BY <1>4, <1>5
<1>. QED
  BY <1>2, <1>3, <1>4, <1>6 DEF Counter!Ask

\* Renaming the file of counters is the instant at which a call counts: what
\* it read is what the file holds.
LEMMA SeenAsCounted ==
    ASSUME StoreTypeOK, LockInv, calm, calm', NEW p \in Procs, WriteCounts(p)
    PROVE  Counter!Count(p)
<1> DEFINE k == key[p]
<1>1. /\ at[p] = "write" /\ at' = [at EXCEPT ![p] = "unlock"]
      /\ counts' = [seen[p] EXCEPT ![k] = seen[p][k] + 1]
      /\ answered' = [answered EXCEPT ![p] = seen[p][k] + 1] /\ UNCHANGED key
  BY DEF WriteCounts, Reach
<1>2. k \in Keys /\ seen[p] = counts /\ answered[p] = 0 /\ counts[k] \in Nat
  BY <1>1 DEF LockInv, SeenIsCurrent, NotYetAnswered, StoreTypeOK
<1>3. counts' = [counts EXCEPT ![k] = counts[k] + 1]
  BY <1>1, <1>2
<1>4. /\ Called(p).phase = "asked" /\ Called(p).key = k
      /\ Called(p)' = [key |-> k, phase |-> "counted", value |-> counts[k] + 1]
  BY <1>1, <1>2 DEF Called, Phase, Resting, StoreTypeOK
<1>5. \A q \in Procs \ {p} : Called(q)' = Called(q)
  BY <1>1 DEF Called, Phase, Resting, StoreTypeOK
<1>. QED
  BY <1>3, <1>4, <1>5 DEF Counter!Count, Called

\* Every step of the store is one of the counter, or not seen through the port.
LEMMA StepOfCounter ==
    ASSUME StoreTypeOK, CalmInv, [StoreNext]_storeVars
    PROVE  [Counter!Next]_(Counter!vars)
<1>1. calm' <=> calm
  BY WorldStays DEF calm
<1>2. CASE ~calm
  BY <1>1, <1>2 DEF Counter!vars, Called, Phase
<1>3. CASE calm
  <2>0. LockInv /\ calm /\ calm'
    BY <1>1, <1>3 DEF CalmInv
  <2>a. \A p \in Procs : at[p] \notin Resting => answered[p] = 0
    BY <2>0 DEF LockInv, NotYetAnswered, Resting
  <2>1. ASSUME NEW p \in Procs, Start(p) PROVE Counter!Next
    BY <2>0, <2>1, SeenAsAsked DEF Counter!Next
  <2>2. ASSUME NEW p \in Procs, WriteCounts(p) PROVE Counter!Next
    BY <2>0, <2>2, SeenAsCounted DEF Counter!Next
  <2>3. ASSUME NEW p \in Procs, NEW step \in {"idle", "unlock"},
               at[p] \notin Resting, at' = [at EXCEPT ![p] = step],
               answered' = answered \/ answered' = [answered EXCEPT ![p] = 0],
               UNCHANGED <<counts, key>>
        PROVE  Counter!Next
    <3>1. answered[p] = 0 /\ answered' = answered
      BY <2>3, <2>a DEF StoreTypeOK
    <3>. QED
      BY <2>0, <2>3, <3>1, SeenAsDropped DEF Counter!Next
  <2>4. ASSUME NEW p \in Procs, GiveUp(p) PROVE Counter!Next
    BY <2>3, <2>4 DEF GiveUp, Fail, Reach, Resting, fileVars
  <2>5. ASSUME NEW p \in Procs, UnmakeLock(p) PROVE Counter!Next
    BY <2>3, <2>5 DEF UnmakeLock, Fail, Reach, Resting
  <2>6. ASSUME NEW p \in Procs, WriteFails(p) PROVE Counter!Next
    BY <2>3, <2>6 DEF WriteFails, Reach, Resting, fileVars
  <2>7. ASSUME NEW p \in Procs,
               \E step \in Steps : /\ at' = [at EXCEPT ![p] = step]
                                   /\ step \in Resting <=> at[p] \in Resting,
               UNCHANGED <<counts, key, answered>>
        PROVE  UNCHANGED Counter!vars
    <3>1. \A q \in Procs : at'[q] \in Resting <=> at[q] \in Resting
      BY <2>7 DEF StoreTypeOK
    <3>. QED
      BY <2>0, <2>7, <3>1, NotSeen
  <2>8. ASSUME NEW p \in Procs,
               MakeLock(p) \/ FindLock(p) \/ VerifyLock(p) \/ LookGone(p)
                   \/ LookFresh(p) \/ LookOld(p)
        PROVE  UNCHANGED Counter!vars
    BY <2>7, <2>8
       DEF MakeLock, FindLock, VerifyLock, LookGone, LookFresh, LookOld, Retry,
           Reach, Resting, Steps, fileVars
  <2>9. ASSUME NEW p \in Procs,
               MoveAside(p) \/ MoveMissed(p) \/ Inspect(p) \/ PutBack(p)
                   \/ Drop(p)
        PROVE  UNCHANGED Counter!vars
    BY <2>7, <2>9
       DEF MoveAside, MoveMissed, Inspect, PutBack, Drop, Retry, Reach, Resting,
           Steps, fileVars
  <2>10. ASSUME NEW p \in Procs, ReadCounts(p) \/ Unlock(p) \/ RemoveLock(p)
         PROVE  UNCHANGED Counter!vars
    BY <2>7, <2>10
       DEF ReadCounts, Unlock, RemoveLock, Reach, Resting, Steps, fileVars
  <2>11. CASE Tick \/ UNCHANGED storeVars
    BY <2>0, <2>11, NotSeen DEF Tick, storeVars, fileVars, localVars
  <2>12. ASSUME NEW p \in Procs PROVE ~Crash(p) /\ ~LockFails(p)
    BY <2>0, <2>12 DEF Crash, LockFails, calm, StoreTypeOK
  <2>. QED
    BY <2>1, <2>2, <2>4, <2>5, <2>6, <2>8, <2>9, <2>10, <2>11, <2>12
       DEF StoreNext, Lock, Change
<1>. QED
  BY <1>2, <1>3

\* At the start nobody has asked.
LEMMA InitOfCounter == StoreInit => Counter!Init
<1> SUFFICES ASSUME StoreInit PROVE Counter!Init
  OBVIOUS
<1>1. world.keys \subseteq Keys
  BY BoundsAssumption DEF StoreInit
<1>2. PICK k \in world.keys : key = [p \in Procs |-> k]
  BY DEF StoreInit
<1>3. k \in Keys /\ (CHOOSE j \in Keys : TRUE) \in Keys
  BY <1>1, <1>2
<1>4. CASE calm
  BY <1>2, <1>3, <1>4 DEF StoreInit, Counter!Init, NoCounts, Called, Phase
<1>5. CASE ~calm
  BY <1>3, <1>5 DEF Counter!Init, NoCounts, Called, Phase
<1>. QED
  BY <1>4, <1>5

\* The file store is the counter the port QuotaStore promises, step by step,
\* for any number of counters, calls and waiting times: with no process that
\* crashes and none that holds a lock too long, for two processes whatever
\* lock lies there at the start, and for any number where none does.
THEOREM StoreIsCounter ==
    ASSUME FewProcs \/ ~LeftBehind
    PROVE  StoreSpec => CountsOneByOne
<1>1. StoreSpec => [](StoreTypeOK /\ CalmInv)
  BY LockDiscipline
<1>2. StoreTypeOK /\ CalmInv /\ [StoreNext]_storeVars => [Counter!Next]_(Counter!vars)
  BY StepOfCounter
<1>. QED
  BY <1>1, <1>2, InitOfCounter, PTL DEF StoreSpec, CountsOneByOne, Counter!Spec
=============================================================================
