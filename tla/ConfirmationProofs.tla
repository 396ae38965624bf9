------------------------- MODULE ConfirmationProofs -------------------------
(***************************************************************************)
(* Proofs about Confirmation, for any number of plans, tokens and answers, *)
(* restarts and times: its types, that the stores keep their bounds, and   *)
(* that a token counts once while the clock does not run back.             *)
(*                                                                         *)
(* The last rests on one assumption about the lives: a nonce outlives its  *)
(* token by the time an answer may take to get to the store (ADR 0029).    *)
(***************************************************************************)
EXTENDS Confirmation, FiniteSetTheorems, TLAPS

NonceLivesLonger == TokenTtl + Stall <= NonceTtl

-----------------------------------------------------------------------------
(* The inductive invariant.                                                *)

\* A proof, and the turn to take a plan, come from a nonce that counted, and
\* only a token that was asked gets to its nonce.
SpentFirst ==
    \A a \in Answers :
        /\ proof[a] # None \/ pc[a] = "take" => <<brings[a], a>> \in spent
        /\ pc[a] = "nonce" => brings[a] \in Tokens /\ token[brings[a]] # None

\* An answer that spent a nonce is past it, with the token it brought.
SpentBy ==
    \A t \in Tokens, a \in Answers : <<t, a>> \in spent =>
        brings[a] = t /\ pc[a] \notin {"idle", "nonce"} /\ token[t] # None

\* A token was asked in this run or an earlier one.
Asked == \A t \in Tokens : token[t] # None => token[t].run <= restarts

\* An answer about to spend its nonce brought a token in time, not long ago.
FreshAnswer ==
    \A a \in Answers : pc[a] = "nonce" =>
        /\ token[brings[a]] # None
        /\ token[brings[a]].run = restarts
        /\ token[brings[a]].at <= checked[a]
        /\ checked[a] < token[brings[a]].at + TokenTtl
        /\ checked[a] <= now
        /\ now <= checked[a] + Stall

\* A spent nonce is remembered until no answer can bring its token any more.
SpentRemembered ==
    \A t \in Tokens, a \in Answers :
        <<t, a>> \in spent /\ token[t].run = restarts =>
            LET over == token[t].at + NonceTtl IN
            now >= over \/ (used[t] # None /\ used[t] >= over)

SpentOnce ==
    \A t \in Tokens, a, b \in Answers :
        <<t, a>> \in spent /\ <<t, b>> \in spent => a = b

Shape == TypeOK /\ SpentFirst /\ SpentBy /\ Asked
Once == backs = 0 => FreshAnswer /\ SpentRemembered /\ SpentOnce
TokenInv == Shape /\ Once

-----------------------------------------------------------------------------
(* Types, and what an answer carries.                                      *)

\* The first states have the shape of the invariant.
LEMMA InitShape == Init => Shape
  <1> SUFFICES ASSUME Init PROVE Shape
    OBVIOUS
  <1>1. TypeOK
    BY DEF Init, TypeOK
  <1>2. SpentFirst /\ SpentBy /\ Asked
    BY DEF Init, SpentFirst, SpentBy, Asked
  <1> QED
    BY <1>1, <1>2 DEF Shape

\* A sweep leaves times and nothing.
LEMMA SweptType ==
    ASSUME NEW S, NEW store \in [S -> Nat \cup {None}]
    PROVE  Swept(store) \in [S -> Nat \cup {None}]
  BY DEF Swept

\* Every step keeps the types of TypeOK.
LEMMA NextTypeOK == Shape /\ [Next]_vars => TypeOK'
  <1> SUFFICES ASSUME Shape, [Next]_vars PROVE TypeOK'
    OBVIOUS
  <1> USE DEF Shape, TypeOK
  <1>0. /\ Swept(kept) \in [Plans -> Nat \cup {None}]
        /\ Swept(used) \in [Tokens -> Nat \cup {None}]
        /\ Room \in [Tokens -> Nat \cup {None}]
    BY SweptType DEF Room
  <1>1. ASSUME NEW p \in Plans, AskFull(p) PROVE TypeOK'
    BY <1>0, <1>1 DEF AskFull, clock, calls, history
  <1>2. ASSUME NEW p \in Plans, NEW t \in Tokens, Ask(t, p) PROVE TypeOK'
    <2>1. now + PlanTtl \in Nat
      BY TtlAssumption
    <2>2. [plan |-> p, at |-> now, run |-> restarts] \in Token
      BY DEF Token
    <2> QED
      BY <1>0, <1>2, <2>1, <2>2 DEF Ask, clock, calls
  <1>3. ASSUME NEW a \in Answers, NEW t \in Tokens, Answer(a, t) PROVE TypeOK'
    BY <1>3 DEF Answer, Goto, InTime, clock, stores, history
  <1>4. ASSUME NEW a \in Answers, Consume(a) PROVE TypeOK'
    <2>1. now + NonceTtl \in Nat
      BY TtlAssumption
    <2>2. brings[a] \in Tokens
      BY <1>4 DEF Consume, SpentFirst
    <2>3. spent \cup {<<brings[a], a>>} \subseteq Tokens \X Answers
      BY <2>2
    <2> QED
      BY <1>0, <1>4, <2>1, <2>2, <2>3 DEF Consume, Goto, clock
  <1>5. ASSUME NEW a \in Answers, Replayed(a) PROVE TypeOK'
    BY <1>0, <1>5 DEF Replayed, Goto, clock, history
  <1>6. ASSUME NEW a \in Answers, Take(a) PROVE TypeOK'
    <2>0. <<brings[a], a>> \in spent
      BY <1>6 DEF Take, SpentFirst
    <2>1. brings[a] \in Tokens /\ token[brings[a]] # None
      BY <2>0 DEF SpentBy
    <2>2. PlanOf(a) \in Plans
      BY <2>1 DEF PlanOf, Token
    <2>3. [plan |-> PlanOf(a), at |-> now] \in Proof
      BY <2>2 DEF Proof
    <2> QED
      BY <1>6, <2>2, <2>3 DEF Take, Goto, clock
  <1>7. ASSUME NEW a \in Answers, Commit(a) PROVE TypeOK'
    BY <1>7 DEF Commit, Goto, clock, stores, history
  <1>8. CASE Tick
    BY <1>8 DEF Tick, stores, calls, history
  <1>9. CASE SetBack
    BY <1>9 DEF SetBack, stores, calls, history
  <1>10. CASE Restart
    BY <1>10 DEF Restart, history
  <1>11. CASE UNCHANGED vars
    BY <1>11 DEF vars, clock, stores, calls, history
  <1> QED
    BY <1>1, <1>2, <1>3, <1>4, <1>5, <1>6, <1>7, <1>8, <1>9, <1>10, <1>11 DEF Next

\* Every step keeps what an answer carries: only its own steps touch it, and
\* tokens are asked once.
LEMMA NextShape == Shape /\ [Next]_vars => Shape'
  <1> SUFFICES ASSUME Shape, [Next]_vars PROVE Shape'
    OBVIOUS
  <1>0. TypeOK'
    BY NextTypeOK
  <1> USE DEF Shape, TypeOK, SpentFirst, SpentBy, Asked
  <1> DEFINE Rest == SpentFirst' /\ SpentBy' /\ Asked'
  <1>1. ASSUME NEW p \in Plans, AskFull(p) PROVE Rest
    BY <1>1 DEF AskFull, clock, calls, history
  <1>2. ASSUME NEW p \in Plans, NEW t \in Tokens, Ask(t, p) PROVE Rest
    <2>1. UNCHANGED <<pc, brings, proof, spent, restarts>>
      BY <1>2 DEF Ask, clock, calls
    <2>2. /\ token[t] = None
          /\ token' = [token EXCEPT ![t] = [plan |-> p, at |-> now, run |-> restarts]]
      BY <1>2 DEF Ask
    <2>3. [plan |-> p, at |-> now, run |-> restarts] # None
      BY NothingAssumption DEF Token
    <2>4. SpentFirst'
      BY <2>1, <2>2, <2>3
    <2>5. SpentBy'
      BY <2>1, <2>2
    <2>6. Asked'
      BY <2>1, <2>2
    <2> QED
      BY <2>4, <2>5, <2>6
  <1>3. ASSUME NEW a \in Answers, NEW t \in Tokens, Answer(a, t) PROVE Rest
    <2>1. UNCHANGED <<proof, spent, token, restarts>> /\ pc[a] = "idle"
      BY <1>3 DEF Answer, clock, stores, history
    <2>2. /\ brings' = [brings EXCEPT ![a] = t]
          /\ pc' \in {[pc EXCEPT ![a] = s] : s \in {"nonce", "refused"}}
      BY <1>3 DEF Answer, Goto
    <2>3. \A u \in Tokens : <<u, a>> \notin spent
      BY <2>1
    <2>4. proof[a] = None
      <3>1. brings[a] \in Tokens => <<brings[a], a>> \notin spent
        BY <2>3
      <3> QED
        BY <3>1, <2>1
    <2>5. token[t] # None
      BY <1>3 DEF Answer
    <2>6. \A b \in Answers : b # a => pc'[b] = pc[b] /\ brings'[b] = brings[b]
      BY <2>2
    <2>7. pc'[a] # "take" /\ brings'[a] = t
      BY <2>2
    <2>8. SpentFirst'
      BY <2>1, <2>4, <2>5, <2>6, <2>7
    <2>9. SpentBy'
      BY <2>1, <2>3, <2>6
    <2> QED
      BY <2>1, <2>8, <2>9
  <1>4. ASSUME NEW a \in Answers, Consume(a) PROVE Rest
    <2>1. /\ UNCHANGED <<brings, proof, token, restarts>> /\ pc[a] = "nonce"
          /\ spent' = spent \cup {<<brings[a], a>>}
          /\ pc' = [pc EXCEPT ![a] = "take"]
      BY <1>4 DEF Consume, Goto, clock
    <2>2. brings[a] \in Tokens /\ token[brings[a]] # None
      BY <2>1
    <2>3. SpentFirst'
      BY <2>1, <2>2
    <2>4. SpentBy'
      BY <2>1, <2>2
    <2> QED
      BY <2>1, <2>3, <2>4
  <1>5. ASSUME NEW a \in Answers, Replayed(a) PROVE Rest
    BY <1>5 DEF Replayed, Goto, clock, history
  <1>6. ASSUME NEW a \in Answers, Take(a) PROVE Rest
    <2>1. UNCHANGED <<brings, spent, token, restarts>> /\ pc[a] = "take"
      BY <1>6 DEF Take, clock
    <2>2. /\ pc' \in {[pc EXCEPT ![a] = s] : s \in {"commit", "refused"}}
          /\ \A b \in Answers : b # a => proof'[b] = proof[b]
      BY <1>6 DEF Take, Goto
    <2>3. <<brings[a], a>> \in spent
      BY <2>1
    <2>4. SpentFirst'
      BY <2>1, <2>2, <2>3
    <2>5. SpentBy'
      BY <2>1, <2>2
    <2> QED
      BY <2>1, <2>4, <2>5
  <1>7. ASSUME NEW a \in Answers, Commit(a) PROVE Rest
    BY <1>7 DEF Commit, Goto, clock, stores, history
  <1>8. CASE Tick
    BY <1>8 DEF Tick, stores, calls, history
  <1>9. CASE SetBack
    BY <1>9 DEF SetBack, stores, calls, history
  <1>10. CASE Restart
    <2>1. SpentFirst' /\ SpentBy'
      BY <1>10 DEF Restart, history
    <2>2. restarts' = restarts + 1 /\ token' = token
      BY <1>10 DEF Restart
    <2>3. \A t \in Tokens : token[t] # None => token[t].run \in Nat
      BY DEF Token
    <2>4. Asked'
      BY <2>2, <2>3
    <2> QED
      BY <1>0, <2>1, <2>4
  <1>11. CASE UNCHANGED vars
    BY <1>11 DEF vars, clock, stores, calls, history
  <1>12. Rest
    BY <1>1, <1>2, <1>3, <1>4, <1>5, <1>6, <1>7, <1>8, <1>9, <1>10, <1>11 DEF Next
  <1> QED
    BY <1>0, <1>12

-----------------------------------------------------------------------------
(* A token counts once.                                                    *)

\* What is asked about a nonce: its times are numbers.
LEMMA TokenTimes ==
    ASSUME TypeOK, NEW t \in Tokens
    PROVE  /\ token[t] # None => token[t].at \in Nat /\ token[t].run \in Nat
           /\ used[t] # None => used[t] \in Nat
           /\ Room[t] = used[t] \/ (Room[t] = None /\ used[t] # None /\ now >= used[t])
  <1>1. token[t] \in Token \cup {None} /\ used[t] \in Nat \cup {None}
    BY DEF TypeOK
  <1>2. \/ Room[t] = used[t]
        \/ Room[t] = None /\ used[t] # None /\ ~(now < used[t])
    BY DEF Room, Swept, TypeOK
  <1> QED
    BY <1>1, <1>2 DEF Token, TypeOK

\* A spent nonce stays remembered when the store only sweeps what is over.
LEMMA SweepKeepsSpent ==
    ASSUME TypeOK, SpentBy, SpentRemembered,
           NEW t \in Tokens, NEW a \in Answers, <<t, a>> \in spent,
           token[t].run = restarts
    PROVE  LET over == token[t].at + NonceTtl IN
           now >= over \/ (Room[t] # None /\ Room[t] >= over)
  <1> DEFINE over == token[t].at + NonceTtl
  <1>1. token[t] # None
    BY DEF SpentBy
  <1>2. over \in Nat /\ now \in Nat
    BY <1>1, TokenTimes, TtlAssumption DEF TypeOK
  <1>3. now >= over \/ (used[t] # None /\ used[t] >= over)
    BY DEF SpentRemembered
  <1>4. used[t] # None => used[t] \in Nat
    BY TokenTimes
  <1>5. Room[t] = used[t] \/ (Room[t] = None /\ used[t] # None /\ now >= used[t])
    BY TokenTimes
  <1> HIDE DEF over
  <1>6. now >= over \/ (Room[t] # None /\ Room[t] >= over)
    BY <1>2, <1>3, <1>4, <1>5
  <1> QED
    BY <1>6 DEF over

\* An answer that spends its nonce is the first to spend it.
LEMMA FirstToSpend ==
    ASSUME NonceLivesLonger, TypeOK, SpentBy, FreshAnswer, SpentRemembered,
           NEW a \in Answers, pc[a] = "nonce", brings[a] \in Tokens,
           ~Remembered(brings[a])
    PROVE  \A b \in Answers : <<brings[a], b>> \notin spent
  <1> DEFINE t == brings[a]
             over == token[t].at + NonceTtl
  <1>1. SUFFICES ASSUME NEW b \in Answers, <<t, b>> \in spent PROVE FALSE
    OBVIOUS
  <1>2. /\ token[t] # None /\ token[t].run = restarts
        /\ checked[a] < token[t].at + TokenTtl
        /\ now <= checked[a] + Stall
    BY DEF FreshAnswer
  <1>3. now \in Nat /\ checked[a] \in Nat /\ token[t].at \in Nat
    BY <1>2, TokenTimes DEF TypeOK
  <1>4. now < over
    BY <1>2, <1>3, TtlAssumption DEF NonceLivesLonger
  <1>5. now >= over \/ (used[t] # None /\ used[t] >= over)
    BY <1>1, <1>2 DEF SpentRemembered
  <1>6. over \in Nat /\ (used[t] # None => used[t] \in Nat)
    BY <1>3, TokenTimes, TtlAssumption
  <1> HIDE DEF over
  <1>7. used[t] # None /\ now < used[t]
    BY <1>3, <1>4, <1>5, <1>6
  <1> QED
    BY <1>7 DEF Remembered

\* Every step that does not set the clock back keeps spent nonces remembered
\* and spends none twice.
LEMMA NextOnce ==
    ASSUME NonceLivesLonger, TokenInv, Shape', [Next]_vars
    PROVE  Once'
  <1> SUFFICES ASSUME backs' = 0
               PROVE  FreshAnswer' /\ SpentRemembered' /\ SpentOnce'
    BY DEF Once
  <1> USE DEF TokenInv
  <1> DEFINE Goal == FreshAnswer' /\ SpentRemembered' /\ SpentOnce'
  <1>0. /\ TypeOK /\ SpentFirst /\ SpentBy /\ Asked
        /\ TypeOK' /\ SpentFirst' /\ SpentBy' /\ Asked'
    BY DEF Shape
  <1>1. \A t \in Tokens :
            /\ token[t] # None => token[t].at \in Nat /\ token[t].run \in Nat
            /\ used[t] # None => used[t] \in Nat
    BY <1>0, TokenTimes
  <1>2. ASSUME backs = 0, UNCHANGED <<now, restarts, used, token, brings,
                                      checked, spent>>,
               \A a \in Answers : pc'[a] = "nonce" => pc[a] = "nonce"
        PROVE  Goal
    BY <1>0, <1>2 DEF Once, FreshAnswer, SpentRemembered, SpentOnce
  <1>3. ASSUME NEW p \in Plans, AskFull(p) PROVE Goal
    BY <1>2, <1>3 DEF AskFull, clock, calls, history
  <1>4. ASSUME NEW p \in Plans, NEW t \in Tokens, Ask(t, p) PROVE Goal
    <2>1. /\ backs = 0 /\ UNCHANGED <<now, restarts, used, pc, brings, checked, spent>>
          /\ token[t] = None
      BY <1>4 DEF Ask, clock, calls
    <2>2. \A u \in Tokens : token[u] # None => token'[u] = token[u]
      BY <1>4, <2>1, <1>0 DEF Ask, TypeOK
    <2>3. FreshAnswer /\ SpentRemembered /\ SpentOnce
      BY <2>1 DEF Once
    <2>4. FreshAnswer'
      BY <1>0, <2>1, <2>2, <2>3 DEF FreshAnswer, SpentFirst
    <2>5. SpentRemembered'
      BY <1>0, <2>1, <2>2, <2>3 DEF SpentRemembered, SpentBy
    <2>6. SpentOnce'
      BY <2>1, <2>3 DEF SpentOnce
    <2> QED
      BY <2>4, <2>5, <2>6
  <1>5. ASSUME NEW a \in Answers, NEW t \in Tokens, Answer(a, t) PROVE Goal
    <2>1. /\ backs = 0 /\ UNCHANGED <<now, restarts, used, token, spent>>
          /\ token[t] # None
      BY <1>5 DEF Answer, clock, stores, history
    <2>2. FreshAnswer /\ SpentRemembered /\ SpentOnce
      BY <2>1 DEF Once
    <2>3. /\ brings'[a] = t /\ checked'[a] = now
          /\ pc'[a] = "nonce" => InTime(t)
      BY <1>0, <1>5 DEF Answer, Goto, TypeOK
    <2>4. \A b \in Answers : b # a =>
            pc'[b] = pc[b] /\ brings'[b] = brings[b] /\ checked'[b] = checked[b]
      BY <1>0, <1>5 DEF Answer, Goto, TypeOK
    <2>5. now \in Nat /\ now <= now + Stall
      BY <1>0, TtlAssumption DEF TypeOK
    <2>6. ASSUME NEW b \in Answers, pc'[b] = "nonce"
          PROVE  /\ token[brings'[b]] # None
                 /\ token[brings'[b]].run = restarts
                 /\ token[brings'[b]].at <= checked'[b]
                 /\ checked'[b] < token[brings'[b]].at + TokenTtl
                 /\ checked'[b] <= now
                 /\ now <= checked'[b] + Stall
      <3>1. CASE b = a
        BY <3>1, <2>3, <2>5, <2>6 DEF InTime
      <3>2. CASE b # a
        BY <3>2, <2>2, <2>4, <2>6 DEF FreshAnswer
      <3> QED
        BY <3>1, <3>2
    <2>7. FreshAnswer'
      BY <2>1, <2>6 DEF FreshAnswer
    <2>8. SpentRemembered' /\ SpentOnce'
      BY <2>1, <2>2 DEF SpentRemembered, SpentOnce
    <2> QED
      BY <2>7, <2>8
  <1>6. ASSUME NEW a \in Answers, Consume(a) PROVE Goal
    <2> DEFINE t == brings[a]
    <2>1. /\ backs = 0 /\ UNCHANGED <<now, restarts, token, brings, checked>>
          /\ pc[a] = "nonce" /\ ~Remembered(t)
          /\ spent' = spent \cup {<<t, a>>}
          /\ pc' = [pc EXCEPT ![a] = "take"]
          /\ used' = [Room EXCEPT ![t] = now + NonceTtl]
      BY <1>6 DEF Consume, Goto, clock
    <2>2. FreshAnswer /\ SpentRemembered /\ SpentOnce
      BY <2>1 DEF Once
    <2>3. t \in Tokens /\ token[t] # None
      BY <1>0, <2>1 DEF SpentFirst
    <2>4. \A b \in Answers : <<t, b>> \notin spent
      BY <1>0, <2>1, <2>2, <2>3, FirstToSpend
    <2>5. FreshAnswer'
      BY <1>0, <2>1, <2>2 DEF FreshAnswer, TypeOK
    <2>6. SpentOnce'
      BY <2>1, <2>2, <2>3, <2>4 DEF SpentOnce
    <2>7. used'[t] = now + NonceTtl /\ \A u \in Tokens \ {t} : used'[u] = Room[u]
      BY <1>0, <2>1, <2>3, SweptType DEF Room, TypeOK
    <2>8. ASSUME NEW u \in Tokens, NEW b \in Answers, <<u, b>> \in spent',
                 token[u].run = restarts
          PROVE  LET over == token[u].at + NonceTtl IN
                 now >= over \/ (used'[u] # None /\ used'[u] >= over)
      <3>1. CASE u = t
        <4>1. token[t].at <= checked[a] /\ checked[a] <= now
          BY <2>1, <2>2 DEF FreshAnswer
        <4>2. token[t].at \in Nat /\ checked[a] \in Nat /\ now \in Nat
          BY <1>0, <1>1, <2>3 DEF TypeOK
        <4>3. now + NonceTtl # None /\ now + NonceTtl >= token[t].at + NonceTtl
          BY <4>1, <4>2, TtlAssumption, NothingAssumption
        <4> QED
          BY <3>1, <2>7, <4>3
      <3>2. CASE u # t
        <4>1. <<u, b>> \in spent
          BY <3>2, <2>1, <2>8
        <4> QED
          BY <1>0, <2>2, <2>7, <2>8, <3>2, <4>1, SweepKeepsSpent
      <3> QED
        BY <3>1, <3>2
    <2>9. SpentRemembered'
      BY <2>1, <2>8 DEF SpentRemembered
    <2> QED
      BY <2>5, <2>6, <2>9
  <1>7. ASSUME NEW a \in Answers, Replayed(a) PROVE Goal
    <2>1. /\ backs = 0
          /\ UNCHANGED <<now, restarts, token, brings, checked, spent>>
          /\ pc' = [pc EXCEPT ![a] = "refused"]
          /\ used' = used \/ used' = Room
      BY <1>7 DEF Replayed, Goto, clock, history
    <2>2. FreshAnswer /\ SpentRemembered /\ SpentOnce
      BY <2>1 DEF Once
    <2>3. FreshAnswer' /\ SpentOnce'
      BY <1>0, <2>1, <2>2 DEF FreshAnswer, SpentOnce, TypeOK
    <2>4. ASSUME NEW u \in Tokens, NEW b \in Answers, <<u, b>> \in spent,
                 token[u].run = restarts
          PROVE  LET over == token[u].at + NonceTtl IN
                 now >= over \/ (used'[u] # None /\ used'[u] >= over)
      <3>1. CASE used' = used
        BY <3>1, <2>2, <2>4 DEF SpentRemembered
      <3>2. CASE used' = Room
        BY <3>2, <1>0, <2>2, <2>4, SweepKeepsSpent
      <3> QED
        BY <3>1, <3>2, <2>1
    <2>5. SpentRemembered'
      BY <2>1, <2>4 DEF SpentRemembered
    <2> QED
      BY <2>3, <2>5
  <1>8. ASSUME NEW a \in Answers, Take(a) \/ Commit(a) PROVE Goal
    <2>1. /\ backs = 0
          /\ UNCHANGED <<now, restarts, used, token, brings, checked, spent>>
      BY <1>8 DEF Take, Commit, clock, stores, history
    <2>2. \A b \in Answers : pc'[b] = "nonce" => pc[b] = "nonce"
      BY <1>0, <1>8 DEF Take, Commit, Goto, TypeOK
    <2> QED
      BY <1>2, <2>1, <2>2
  <1>9. CASE Tick
    <2>1. /\ backs = 0 /\ now' = now + 1
          /\ UNCHANGED <<restarts, used, token, pc, brings, checked, spent>>
          /\ \A a \in Answers : pc[a] = "nonce" => now < checked[a] + Stall
      BY <1>9 DEF Tick, stores, calls, history
    <2>2. FreshAnswer /\ SpentRemembered /\ SpentOnce
      BY <2>1 DEF Once
    <2>3. now \in Nat /\ \A a \in Answers : checked[a] \in Nat
      BY <1>0 DEF TypeOK
    <2>4. FreshAnswer'
      BY <2>1, <2>2, <2>3, TtlAssumption DEF FreshAnswer
    <2>5. ASSUME NEW u \in Tokens, NEW b \in Answers, <<u, b>> \in spent,
                 token[u].run = restarts
          PROVE  LET over == token[u].at + NonceTtl IN
                 now + 1 >= over \/ (used[u] # None /\ used[u] >= over)
      <3>1. token[u] # None
        BY <1>0, <2>5 DEF SpentBy
      <3>2. token[u].at + NonceTtl \in Nat
        BY <1>1, <3>1, TtlAssumption
      <3> QED
        BY <2>2, <2>3, <2>5, <3>2 DEF SpentRemembered
    <2>6. SpentRemembered' /\ SpentOnce'
      BY <2>1, <2>2, <2>5 DEF SpentRemembered, SpentOnce
    <2> QED
      BY <2>4, <2>6
  <1>10. CASE SetBack
    BY <1>0, <1>10 DEF SetBack, TypeOK
  <1>11. CASE Restart
    <2>1. /\ backs = 0 /\ restarts' = restarts + 1
          /\ UNCHANGED <<now, token, spent>>
          /\ \A a \in Answers : pc'[a] # "nonce"
      BY <1>0, <1>11 DEF Restart, history, TypeOK
    <2>2. SpentOnce'
      BY <2>1 DEF Once, SpentOnce
    <2>3. FreshAnswer'
      BY <2>1 DEF FreshAnswer
    <2>4. \A t \in Tokens, a \in Answers :
            <<t, a>> \in spent => token[t].run <= restarts /\ token[t].run \in Nat
      BY <1>0, <1>1 DEF SpentBy, Asked
    <2>5. restarts \in Nat
      BY <1>0 DEF TypeOK
    <2>6. SpentRemembered'
      BY <2>1, <2>4, <2>5 DEF SpentRemembered
    <2> QED
      BY <2>2, <2>3, <2>6
  <1>12. CASE UNCHANGED vars
    BY <1>2, <1>12 DEF vars, clock, stores, calls, history
  <1> QED
    BY <1>3, <1>4, <1>5, <1>6, <1>7, <1>8, <1>9, <1>10, <1>11, <1>12 DEF Next

\* In the first states no nonce is spent.
LEMMA InitOnce == Init => Once
  BY DEF Init, Once, FreshAnswer, SpentRemembered, SpentOnce

\* The shape of what an answer carries is invariant, whatever the lives are.
LEMMA ShapeInvariant == Spec => []Shape
  BY InitShape, NextShape, PTL DEF Spec

\* When a nonce outlives its token, the whole invariant holds in every
\* reachable state.
THEOREM TokenInvariant ==
    ASSUME NonceLivesLonger PROVE Spec => []TokenInv
  <1>1. Init => TokenInv
    BY InitShape, InitOnce DEF TokenInv
  <1>2. TokenInv /\ [Next]_vars => TokenInv'
    BY NextShape, NextOnce DEF TokenInv
  <1> QED
    BY <1>1, <1>2, PTL DEF Spec

\* TypeOK holds in every reachable state: a question, a token, a nonce and a
\* proof stay what their stores and their calls hold.
THEOREM ConfirmationTypes == Spec => []TypeOK
  <1>1. Shape => TypeOK
    BY DEF Shape
  <1> QED
    BY <1>1, ShapeInvariant, PTL

\* TokenCountsOnce holds in every reachable state, for any number of answers
\* that run through each other, when a nonce outlives its token: two answers
\* with a proof from one token are one answer.
THEOREM TokenOnce ==
    ASSUME NonceLivesLonger PROVE Spec => []TokenCountsOnce
  <1>1. TokenInv => TokenCountsOnce
    <2> SUFFICES ASSUME TokenInv, backs = 0, NEW a \in Answers, NEW b \in Answers,
                        proof[a] # None, proof[b] # None, brings[a] = brings[b]
                 PROVE  a = b
      BY DEF TokenCountsOnce
    <2>1. <<brings[a], a>> \in spent /\ <<brings[a], b>> \in spent
      BY DEF TokenInv, Shape, SpentFirst
    <2>2. brings[a] \in Tokens
      BY <2>1 DEF TokenInv, Shape, TypeOK
    <2> QED
      BY <2>1, <2>2 DEF TokenInv, Once, SpentOnce
  <1> QED
    BY <1>1, TokenInvariant, PTL

-----------------------------------------------------------------------------
(* The stores keep their bounds.                                           *)

\* A cardinality says something only of a finite set.
StoresFinite == IsFiniteSet(Filled(kept)) /\ IsFiniteSet(Filled(used))
BoundedInv == Shape /\ StoresFinite /\ StoresBounded

\* A set with room for one takes one more element.
LEMMA RoomForOne ==
    ASSUME NEW A, NEW B, NEW k, NEW n \in Nat, IsFiniteSet(A),
           \/ B \subseteq A /\ Cardinality(A) <= n
           \/ B \subseteq A \cup {k} /\ Cardinality(A) < n
    PROVE  IsFiniteSet(B) /\ Cardinality(B) <= n
  <1>1. Cardinality(A) \in Nat
    BY FS_CardinalityType
  <1>2. CASE B \subseteq A /\ Cardinality(A) <= n
    <2>1. IsFiniteSet(B) /\ Cardinality(B) <= Cardinality(A)
      BY <1>2, FS_Subset
    <2>2. Cardinality(B) \in Nat
      BY <2>1, FS_CardinalityType
    <2> QED
      BY <1>1, <1>2, <2>1, <2>2
  <1>3. CASE B \subseteq A \cup {k} /\ Cardinality(A) < n
    <2>1. /\ IsFiniteSet(A \cup {k})
          /\ Cardinality(A \cup {k}) \in {Cardinality(A), Cardinality(A) + 1}
      BY FS_AddElement
    <2>2. IsFiniteSet(B) /\ Cardinality(B) <= Cardinality(A \cup {k})
      BY <1>3, <2>1, FS_Subset
    <2>3. Cardinality(B) \in Nat
      BY <2>2, FS_CardinalityType
    <2> QED
      BY <1>1, <1>3, <2>1, <2>2, <2>3
  <1> QED
    BY <1>2, <1>3

\* A sweep fills no place, and writing one place fills at most that one.
LEMMA FilledPlaces ==
    ASSUME NEW S, NEW f \in [S -> Nat \cup {None}], NEW k \in S, NEW v
    PROVE  /\ Filled(Swept(f)) \subseteq Filled(f)
           /\ Filled([f EXCEPT ![k] = v]) \subseteq Filled(f) \cup {k}
           /\ f[k] # None => Filled([f EXCEPT ![k] = v]) \subseteq Filled(f)
           /\ v = None => Filled([f EXCEPT ![k] = v]) \subseteq Filled(f)
  BY DEF Filled, Swept

\* No step fills a store over its bound.
LEMMA NextBounded ==
    ASSUME TypeOK, SpentFirst, SpentBy, StoresFinite, StoresBounded, [Next]_vars
    PROVE  StoresFinite' /\ StoresBounded'
  <1> USE CapacityAssumption
  <1> DEFINE Goal == StoresFinite' /\ StoresBounded'
             KeptBounded == IsFiniteSet(Filled(kept')) /\ Cardinality(Filled(kept')) <= PlanCapacity
             UsedBounded == IsFiniteSet(Filled(used')) /\ Cardinality(Filled(used')) <= NonceCapacity
  <1>0. SUFFICES KeptBounded /\ UsedBounded
    BY DEF StoresFinite, StoresBounded, Filled
  <1>1. kept' = kept => KeptBounded
    BY DEF StoresFinite, StoresBounded
  <1>2. used' = used => UsedBounded
    BY DEF StoresFinite, StoresBounded
  <1>3. IsFiniteSet(Filled(Swept(kept))) /\ Cardinality(Filled(Swept(kept))) <= PlanCapacity
    <2>1. Filled(Swept(kept)) \subseteq Filled(kept)
      BY DEF Filled, Swept, TypeOK
    <2> QED
      BY <2>1, RoomForOne DEF StoresFinite, StoresBounded
  <1>4. IsFiniteSet(Filled(Room)) /\ Cardinality(Filled(Room)) <= NonceCapacity
    <2>1. Filled(Room) \subseteq Filled(used)
      BY DEF Room, Filled, Swept, TypeOK
    <2> QED
      BY <2>1, RoomForOne DEF StoresFinite, StoresBounded
  <1>5. ASSUME NEW p \in Plans, AskFull(p) PROVE KeptBounded /\ UsedBounded
    BY <1>2, <1>3, <1>5 DEF AskFull
  <1>6. ASSUME NEW p \in Plans, NEW t \in Tokens, Ask(t, p) PROVE KeptBounded /\ UsedBounded
    <2> DEFINE open == Swept(kept)
    <2>1. /\ open[p] # None \/ Cardinality(Filled(open)) < PlanCapacity
          /\ kept' = [open EXCEPT ![p] = now + PlanTtl]
          /\ used' = used
      BY <1>6 DEF Ask
    <2>2. open \in [Plans -> Nat \cup {None}]
      BY SweptType DEF TypeOK
    <2>3. IsFiniteSet(Filled(open)) /\ Cardinality(Filled(open)) <= PlanCapacity
      BY <1>3
    <2> HIDE DEF open
    <2>4. /\ Filled(kept') \subseteq Filled(open) \cup {p}
          /\ open[p] # None => Filled(kept') \subseteq Filled(open)
      BY <2>1, <2>2, FilledPlaces
    <2>5. KeptBounded
      BY <2>1, <2>3, <2>4, RoomForOne
    <2> QED
      BY <1>2, <2>1, <2>5
  <1>7. ASSUME NEW a \in Answers, NEW t \in Tokens, Answer(a, t) PROVE KeptBounded /\ UsedBounded
    BY <1>1, <1>2, <1>7 DEF Answer, stores
  <1>8. ASSUME NEW a \in Answers, Consume(a) PROVE KeptBounded /\ UsedBounded
    <2>1. /\ Cardinality(Filled(Room)) < NonceCapacity
          /\ used' = [Room EXCEPT ![brings[a]] = now + NonceTtl]
          /\ kept' = kept
          /\ brings[a] \in Tokens
      BY <1>8 DEF Consume, SpentFirst
    <2>2. Room \in [Tokens -> Nat \cup {None}]
      BY SweptType DEF Room, TypeOK
    <2>3. Filled(used') \subseteq Filled(Room) \cup {brings[a]}
      BY <2>1, <2>2, FilledPlaces
    <2>4. UsedBounded
      BY <1>4, <2>1, <2>3, RoomForOne
    <2> QED
      BY <1>1, <2>1, <2>4
  <1>9. ASSUME NEW a \in Answers, Replayed(a) PROVE KeptBounded /\ UsedBounded
    BY <1>1, <1>2, <1>4, <1>9 DEF Replayed
  <1>10. ASSUME NEW a \in Answers, Take(a) PROVE KeptBounded /\ UsedBounded
    <2>1. kept' = [kept EXCEPT ![PlanOf(a)] = None] /\ used' = used
      BY <1>10 DEF Take
    <2>2. Filled(kept') \subseteq Filled(kept)
      BY <2>1 DEF Filled, TypeOK
    <2>3. KeptBounded
      BY <2>2, RoomForOne DEF StoresFinite, StoresBounded
    <2> QED
      BY <1>2, <2>1, <2>3
  <1>11. ASSUME NEW a \in Answers, Commit(a) PROVE KeptBounded /\ UsedBounded
    BY <1>1, <1>2, <1>11 DEF Commit, stores
  <1>12. ASSUME Tick \/ SetBack PROVE KeptBounded /\ UsedBounded
    BY <1>1, <1>2, <1>12 DEF Tick, SetBack, stores
  <1>13. ASSUME Restart PROVE KeptBounded /\ UsedBounded
    <2>1. Filled(kept') = {} /\ Filled(used') = {}
      BY <1>13 DEF Restart, Filled
    <2> QED
      BY <2>1, FS_EmptySet
  <1>14. ASSUME UNCHANGED vars PROVE KeptBounded /\ UsedBounded
    BY <1>1, <1>2, <1>14 DEF vars, stores
  <1> QED
    BY <1>5, <1>6, <1>7, <1>8, <1>9, <1>10, <1>11, <1>12, <1>13, <1>14 DEF Next

\* StoresBounded holds in every reachable state: neither open plans nor used
\* nonces ever take more than their capacity, also after the clock ran back.
THEOREM StoresKeepBounds == Spec => []StoresBounded
  <1>1. Init => BoundedInv
    <2>1. ASSUME Init PROVE Filled(kept) = {} /\ Filled(used) = {}
      BY <2>1 DEF Init, Filled
    <2> QED
      BY <2>1, InitShape, FS_EmptySet, CapacityAssumption
      DEF BoundedInv, StoresFinite, StoresBounded
  <1>2. BoundedInv /\ [Next]_vars => BoundedInv'
    BY NextShape, NextBounded DEF BoundedInv, Shape
  <1>3. BoundedInv => StoresBounded
    BY DEF BoundedInv
  <1> QED
    BY <1>1, <1>2, <1>3, PTL DEF Spec

-----------------------------------------------------------------------------
(* How old what is committed can be.                                       *)

\* While the clock did not run back, a plan lies in its store for one life
\* after it was last asked about, and a proof waiting for its commit was made
\* within that life.
InLives ==
    /\ \A p \in Plans :
        /\ askedAt[p] <= now
        /\ kept[p] # None => kept[p] <= askedAt[p] + PlanTtl
    /\ \A a \in Answers : pc[a] = "commit" =>
        /\ proof[a] \in Proof
        /\ proof[a].at <= askedAt[proof[a].plan] + PlanTtl

LivesInv == Shape /\ (backs = 0 => InLives)

\* Each step keeps the plans and the proofs within their lives.
LEMMA NextInLives ==
    ASSUME LivesInv, Shape', [Next]_vars
    PROVE  backs' = 0 => InLives'
  <1> SUFFICES ASSUME backs' = 0 PROVE InLives'
    OBVIOUS
  <1> USE TtlAssumption
  <1>1. backs = 0
    BY DEF LivesInv, Shape, TypeOK, Next, vars, AskFull, Ask, Answer, Consume,
           Replayed, Take, Commit, Tick, SetBack, Restart, clock
  <1>2. TypeOK /\ TypeOK' /\ SpentFirst /\ SpentBy /\ InLives
    BY <1>1 DEF LivesInv, Shape
  <1>3. ASSUME NEW p \in Plans, AskFull(p) PROVE InLives'
    BY <1>2, <1>3 DEF AskFull, Swept, InLives, TypeOK, clock, calls, history
  <1>4. ASSUME NEW p \in Plans, NEW t \in Tokens, Ask(t, p) PROVE InLives'
    <2>1. /\ now' = now /\ pc' = pc /\ proof' = proof
          /\ kept' = [Swept(kept) EXCEPT ![p] = now + PlanTtl]
          /\ askedAt' = [askedAt EXCEPT ![p] = now]
      BY <1>4 DEF Ask, clock, calls
    <2>2. ASSUME NEW q \in Plans
          PROVE  /\ askedAt'[q] <= now' /\ askedAt[q] <= askedAt'[q]
                 /\ kept'[q] # None => kept'[q] <= askedAt'[q] + PlanTtl
      BY <1>2, <2>1 DEF Swept, InLives, TypeOK
    <2>3. ASSUME NEW a \in Answers, pc'[a] = "commit"
          PROVE  /\ proof'[a] \in Proof
                 /\ proof'[a].at <= askedAt'[proof'[a].plan] + PlanTtl
      <3>1. /\ proof[a] \in Proof /\ proof[a].plan \in Plans
            /\ proof[a].at \in Nat
            /\ proof[a].at <= askedAt[proof[a].plan] + PlanTtl
        BY <1>2, <2>1, <2>3 DEF InLives, Proof
      <3> QED
        BY <1>2, <2>1, <2>2, <3>1 DEF TypeOK
    <2> QED
      BY <2>2, <2>3 DEF InLives
  <1>5. ASSUME NEW a \in Answers, NEW t \in Tokens, Answer(a, t) PROVE InLives'
    BY <1>2, <1>5 DEF Answer, Goto, InLives, TypeOK, clock, stores, history
  <1>6. ASSUME NEW a \in Answers, Consume(a) PROVE InLives'
    BY <1>2, <1>6 DEF Consume, Goto, InLives, TypeOK, clock
  <1>7. ASSUME NEW a \in Answers, Replayed(a) PROVE InLives'
    BY <1>2, <1>7 DEF Replayed, Goto, InLives, TypeOK, clock, history
  <1>8. ASSUME NEW a \in Answers, Take(a) PROVE InLives'
    <2>1. PlanOf(a) \in Plans
      BY <1>2, <1>8 DEF Take, SpentFirst, SpentBy, PlanOf, TypeOK, Token
    <2>2. \A p \in Plans : /\ askedAt'[p] <= now'
                           /\ kept'[p] # None => kept'[p] <= askedAt'[p] + PlanTtl
      BY <1>2, <1>8 DEF Take, InLives, TypeOK, clock
    <2>3. ASSUME NEW b \in Answers, pc'[b] = "commit"
          PROVE  /\ proof'[b] \in Proof
                 /\ proof'[b].at <= askedAt'[proof'[b].plan] + PlanTtl
      <3>1. CASE b = a
        <4>1. /\ CanTake(a)
              /\ proof'[a] = [plan |-> PlanOf(a), at |-> now]
          BY <1>2, <1>8, <2>3, <3>1 DEF Take, Goto, TypeOK
        <4>2. now <= askedAt[PlanOf(a)] + PlanTtl
          BY <1>2, <2>1, <4>1 DEF CanTake, InLives, TypeOK
        <4> QED
          BY <1>2, <1>8, <2>1, <3>1, <4>1, <4>2 DEF Proof, Take, TypeOK
      <3>2. CASE b # a
        BY <1>2, <1>8, <2>3, <3>2 DEF Take, Goto, InLives, TypeOK
      <3> QED
        BY <3>1, <3>2
    <2> QED
      BY <2>2, <2>3 DEF InLives
  <1>9. ASSUME NEW a \in Answers, Commit(a) PROVE InLives'
    BY <1>2, <1>9 DEF Commit, Goto, InLives, TypeOK, clock, stores, history
  <1>10. CASE Tick
    BY <1>2, <1>10 DEF Tick, InLives, TypeOK, stores, calls, history
  <1>11. CASE SetBack
    BY <1>1, <1>2, <1>11 DEF SetBack, TypeOK
  <1>12. CASE Restart
    BY <1>2, <1>12 DEF Restart, InLives, TypeOK, history
  <1>13. CASE UNCHANGED vars
    BY <1>2, <1>13 DEF vars, InLives, clock, stores, calls, history
  <1> QED
    BY <1>3, <1>4, <1>5, <1>6, <1>7, <1>8, <1>9, <1>10, <1>11, <1>12, <1>13
       DEF Next

\* Only a proof that still counts is committed, so what it confirms was asked
\* about at most two lives of a plan ago.
LEMMA CommitInLives ==
    ASSUME LivesInv, [Next]_vars, backs = 0,
           NEW a \in Answers, a \in Committed' \ Committed
    PROVE  now <= askedAt[proof[a].plan] + 2 * PlanTtl
  <1>1. TypeOK /\ InLives
    BY DEF LivesInv, Shape
  <1>2. pc'[a] = "committed" /\ pc[a] # "committed"
    BY DEF Committed
  <1>3. pc[a] = "commit" /\ ProofCounts(a)
    <2>1. ASSUME NEW b \in Answers, Commit(b) PROVE pc[a] = "commit" /\ ProofCounts(a)
      BY <1>1, <1>2, <2>1 DEF Commit, Goto, TypeOK
    <2>2. ASSUME NEW b \in Answers,
                 Consume(b) \/ Replayed(b) \/ Take(b) \/ (\E t \in Tokens : Answer(b, t))
          PROVE  FALSE
      BY <1>1, <1>2, <2>2 DEF Consume, Replayed, Take, Answer, Goto, TypeOK
    <2> QED
      BY <1>1, <1>2, <2>1, <2>2
         DEF Next, vars, calls, AskFull, Ask, Tick, SetBack, Restart, TypeOK
  <1>4. /\ proof[a].at \in Nat /\ proof[a].plan \in Plans
        /\ proof[a].at <= askedAt[proof[a].plan] + PlanTtl
    BY <1>1, <1>3 DEF InLives, Proof
  <1> QED
    BY <1>1, <1>3, <1>4, TtlAssumption DEF ProofCounts, TypeOK

\* CommitIsRecent holds in every behaviour: a yes that waits for its target,
\* its count or its turn never commits a plan nobody was asked about lately.
THEOREM CommitsAreRecent == Spec => CommitIsRecent
  <1>1. Init => LivesInv
    BY InitShape, TtlAssumption DEF Init, LivesInv, InLives
  <1>2. LivesInv /\ [Next]_vars => LivesInv'
    BY NextShape, NextInLives DEF LivesInv
  <1>3. LivesInv /\ [Next]_vars =>
            [\A a \in Answers : a \in Committed' \ Committed /\ backs = 0
                => now <= askedAt[proof[a].plan] + 2 * PlanTtl]_vars
    BY CommitInLives
  <1> QED
    BY <1>1, <1>2, <1>3, PTL DEF Spec, CommitIsRecent
-----------------------------------------------------------------------------
(* A plan is asked about for each commit and each no.  An open plan is one *)
(* question nobody used up yet; taking it closes the plan and makes one    *)
(* proof or one no of it.  Nothing here reads the clock.                   *)

No(p) == {a \in declined : PlanOf(a) = p}
Open(p) == IF kept[p] = None THEN 0 ELSE 1

\* An answer that has not taken its plan has neither proof nor no, and each
\* no spent a nonce.
NotYetTaken ==
    /\ \A a \in Answers : pc[a] \in {"idle", "nonce", "take"} =>
        a \notin declined /\ proof[a] = None
    /\ \A a \in declined : <<brings[a], a>> \in spent

UsedUp(p) ==
    /\ IsFiniteSet(About(p)) /\ IsFiniteSet(No(p))
    /\ Cardinality(About(p)) + Cardinality(No(p)) + Open(p) <= asks[p]

AsksInv == Shape /\ NotYetTaken /\ \A p \in Plans : UsedUp(p)

\* At the start nothing was asked and nothing taken.
LEMMA InitAsks == Init => AsksInv
  <1> SUFFICES ASSUME Init PROVE AsksInv
    OBVIOUS
  <1>1. Shape
    BY InitShape
  <1>2. NotYetTaken
    BY DEF Init, NotYetTaken
  <1>3. ASSUME NEW p \in Plans PROVE UsedUp(p)
    <2>1. About(p) = {} /\ No(p) = {}
      BY DEF Init, About, No
    <2>2. Open(p) = 0 /\ asks[p] = 0
      BY DEF Init, Open
    <2> QED
      BY <2>1, <2>2, FS_EmptySet DEF UsedUp
  <1> QED
    BY <1>1, <1>2, <1>3 DEF AsksInv

\* A sweep opens no plan.
LEMMA SweepOpensNone ==
    ASSUME TypeOK, NEW p \in Plans
    PROVE  Swept(kept)[p] # None => kept[p] # None
  BY DEF Swept, TypeOK

\* Proofs, answers that said no, and who they are about, stay as they are:
\* then a plan is used up no further, unless it opens.
LEMMA SameUse ==
    ASSUME NEW p \in Plans, UsedUp(p), asks \in [Plans -> Nat],
           proof' = proof, No(p)' = No(p), asks'[p] = asks[p],
           kept'[p] # None => kept[p] # None
    PROVE  UsedUp(p)'
  <1>1. About(p)' = About(p)
    BY DEF About
  <1>2. Open(p)' <= Open(p) /\ Open(p) \in Nat /\ Open(p)' \in Nat
    BY DEF Open
  <1>3. Cardinality(About(p)) \in Nat /\ Cardinality(No(p)) \in Nat
    BY FS_CardinalityType DEF UsedUp
  <1> QED
    BY <1>1, <1>2, <1>3 DEF UsedUp

\* Every step keeps the count of questions above what they were used up for.
LEMMA NextAsks == AsksInv /\ [Next]_vars => AsksInv'
  <1> SUFFICES ASSUME AsksInv, [Next]_vars PROVE AsksInv'
    OBVIOUS
  <1>0. /\ TypeOK /\ SpentFirst /\ SpentBy /\ NotYetTaken
        /\ \A p \in Plans : UsedUp(p)
    BY DEF AsksInv, Shape
  <1> DEFINE Goal == NotYetTaken' /\ \A p \in Plans : UsedUp(p)'
  <1>a. /\ declined \subseteq Answers /\ asks \in [Plans -> Nat]
        /\ \A a \in declined : brings[a] \in Tokens /\ token[brings[a]] # None
    BY <1>0 DEF NotYetTaken, SpentBy, TypeOK
  \* Steps that only move an answer on, or close plans.
  <1>1. ASSUME UNCHANGED <<proof, declined, brings, token, asks>>,
               spent \subseteq spent',
               \A a \in Answers : pc'[a] \in {"idle", "nonce", "take"} =>
                                      pc[a] \in {"idle", "nonce", "take"},
               \A p \in Plans : kept'[p] # None => kept[p] # None
        PROVE  Goal
    <2>1. NotYetTaken'
      BY <1>0, <1>1 DEF NotYetTaken
    <2>2. \A p \in Plans : No(p)' = No(p)
      BY <1>1 DEF No, PlanOf
    <2> QED
      BY <1>0, <1>a, <1>1, <2>1, <2>2, SameUse
  <1>2. ASSUME NEW p \in Plans, AskFull(p) PROVE Goal
    BY <1>0, <1>1, <1>2, SweepOpensNone DEF AskFull, clock, calls, history
  <1>3. ASSUME NEW p \in Plans, NEW t \in Tokens, Ask(t, p) PROVE Goal
    <2>1. /\ token[t] = None /\ UNCHANGED <<pc, brings, proof, declined, spent>>
          /\ kept' = [Swept(kept) EXCEPT ![p] = now + PlanTtl]
          /\ asks' = [asks EXCEPT ![p] = @ + 1]
      BY <1>3 DEF Ask, calls
    <2>2. \A u \in Tokens : token[u] # None => token'[u] = token[u]
      BY <1>0, <1>3, <2>1 DEF Ask, TypeOK
    <2>3. NotYetTaken'
      BY <1>0, <2>1 DEF NotYetTaken
    <2>4. \A q \in Plans : No(q)' = No(q)
      BY <1>a, <2>1, <2>2 DEF No, PlanOf
    <2>5. ASSUME NEW q \in Plans, q # p PROVE UsedUp(q)'
      <3>1. asks'[q] = asks[q] /\ (kept'[q] # None => kept[q] # None)
        BY <1>0, <1>a, <2>1, <2>5, SweepOpensNone, SweptType DEF TypeOK
      <3> QED
        BY <1>0, <1>a, <2>1, <2>4, <3>1, SameUse
    <2>6. UsedUp(p)'
      <3>1. About(p)' = About(p) /\ asks'[p] = asks[p] + 1
        BY <1>a, <2>1 DEF About
      <3>2. Open(p) \in {0, 1} /\ Open(p)' \in {0, 1}
        BY DEF Open
      <3>3. Cardinality(About(p)) \in Nat /\ Cardinality(No(p)) \in Nat
        BY <1>0, FS_CardinalityType DEF UsedUp
      <3> QED
        BY <1>0, <1>a, <2>4, <3>1, <3>2, <3>3 DEF UsedUp
    <2> QED
      BY <2>3, <2>5, <2>6
  <1>4. ASSUME NEW a \in Answers, NEW t \in Tokens, Answer(a, t) PROVE Goal
    <2>1. /\ pc[a] = "idle" /\ brings' = [brings EXCEPT ![a] = t]
          /\ UNCHANGED <<kept, token, proof, asks, declined, spent>>
      BY <1>4 DEF Answer, stores, history
    <2>2. a \notin declined /\ proof[a] = None
      BY <1>0, <2>1 DEF NotYetTaken
    <2>3. \A b \in Answers \ {a} : pc'[b] = pc[b] /\ brings'[b] = brings[b]
      BY <1>0, <1>4, <2>1 DEF Answer, Goto, TypeOK
    <2>4. NotYetTaken'
      BY <1>0, <1>a, <2>1, <2>2, <2>3 DEF NotYetTaken
    <2>5. \A q \in Plans : No(q)' = No(q)
      BY <1>a, <2>1, <2>2, <2>3 DEF No, PlanOf
    <2> QED
      BY <1>0, <1>a, <2>1, <2>4, <2>5, SameUse
  <1>5. ASSUME NEW a \in Answers, Consume(a) PROVE Goal
    <2>1. /\ pc[a] = "nonce" /\ pc' = [pc EXCEPT ![a] = "take"]
          /\ UNCHANGED <<kept, token, proof, brings, asks, declined>>
          /\ spent \subseteq spent'
      BY <1>5 DEF Consume, Goto
    <2> QED
      BY <1>0, <1>1, <2>1 DEF TypeOK
  <1>6. ASSUME NEW a \in Answers, Replayed(a) PROVE Goal
    <2>1. /\ pc' = [pc EXCEPT ![a] = "refused"]
          /\ UNCHANGED <<kept, token, proof, brings, asks, declined, spent>>
      BY <1>6 DEF Replayed, Goto, history
    <2> QED
      BY <1>0, <1>1, <2>1 DEF TypeOK
  <1>7. ASSUME NEW a \in Answers, Take(a) PROVE Goal
    <2>0. PICK p \in Plans : p = PlanOf(a)
      <3>1. <<brings[a], a>> \in spent
        BY <1>0, <1>7 DEF Take, SpentFirst
      <3>2. brings[a] \in Tokens /\ token[brings[a]] # None
        BY <1>0, <3>1 DEF SpentBy, TypeOK
      <3>3. token[brings[a]] \in Token
        BY <1>0, <3>2 DEF TypeOK
      <3> QED
        BY <3>3 DEF PlanOf, Token
    <2>1. /\ pc[a] = "take" /\ UNCHANGED <<brings, token, asks, spent>>
          /\ kept' = [kept EXCEPT ![p] = None]
      BY <1>7, <2>0 DEF Take
    <2>2. <<brings[a], a>> \in spent /\ a \notin declined /\ proof[a] = None
      BY <1>0, <2>1 DEF SpentFirst, NotYetTaken
    <2>4. \A b \in Answers \ {a} : pc'[b] = pc[b]
      BY <1>0, <1>7 DEF Take, Goto, TypeOK
    <2>5. pc'[a] \notin {"idle", "nonce", "take"}
      BY <1>0, <1>7 DEF Take, Goto, TypeOK
    <2>6. \A q \in Plans : kept'[q] # None => kept[q] # None
      BY <1>0, <2>1, <2>0 DEF TypeOK
    <2>7. \A b \in Answers : PlanOf(b)' = PlanOf(b)
      BY <2>1 DEF PlanOf
    <2>8. ASSUME NEW q \in Plans
          PROVE  /\ Cardinality(About(q)) \in Nat /\ Cardinality(No(q)) \in Nat
                 /\ Cardinality(About(q)) + Cardinality(No(q)) + Open(q) <= asks[q]
                 /\ IsFiniteSet(About(q)) /\ IsFiniteSet(No(q))
      BY <1>0, FS_CardinalityType DEF UsedUp
    <2>9. Open(p)' = 0
      BY <1>0, <2>1, <2>0 DEF Open, TypeOK
    \* It was over, or is gone already.
    <2>10. CASE ~CanTake(a)
      <3>1. proof' = proof /\ declined' = declined
        BY <1>7, <2>10 DEF Take
      <3>2. NotYetTaken'
        BY <1>0, <1>a, <2>1, <2>2, <2>4, <2>5, <3>1 DEF NotYetTaken
      <3>3. \A q \in Plans : No(q)' = No(q)
        BY <2>1, <3>1 DEF No, PlanOf
      <3> QED
        BY <1>0, <1>a, <2>1, <2>6, <3>1, <3>2, <3>3, SameUse
    \* A yes: the question becomes a proof.
    <2>11. CASE CanTake(a) /\ yes[a]
      <3>1. /\ proof' = [proof EXCEPT ![a] = [plan |-> p, at |-> now]]
            /\ declined' = declined
        BY <1>7, <2>0, <2>11 DEF Take
      <3>2. NotYetTaken'
        BY <1>0, <1>a, <2>1, <2>2, <2>4, <2>5, <3>1 DEF NotYetTaken, TypeOK
      <3>3. \A q \in Plans : No(q)' = No(q)
        BY <2>1, <3>1 DEF No, PlanOf
      <3>4. [plan |-> p, at |-> now] # None
        BY <1>0, NothingAssumption DEF Proof, TypeOK
      <3>5. About(p)' = About(p) \cup {a}
        BY <1>0, <3>1, <3>4 DEF About, TypeOK
      <3>6. \A q \in Plans \ {p} : About(q)' = About(q)
        BY <1>0, <2>2, <3>1, <3>4 DEF About, TypeOK
      <3>7. a \notin About(p) /\ Open(p) = 1
        BY <2>0, <2>2, <2>11 DEF About, Open, CanTake
      <3>8. UsedUp(p)'
        <4>1. Cardinality(About(p)') = Cardinality(About(p)) + 1
              /\ IsFiniteSet(About(p)')
          BY <2>0, <2>8, <3>5, <3>7, FS_AddElement
        <4> QED
          BY <1>a, <2>1, <2>0, <2>8, <2>9, <3>3, <3>7, <4>1 DEF UsedUp
      <3>9. ASSUME NEW q \in Plans \ {p} PROVE UsedUp(q)'
        <4>1. Open(q)' = Open(q)
          BY <1>0, <2>1, <2>0 DEF Open, TypeOK
        <4> QED
          BY <1>0, <2>1, <3>3, <3>6, <4>1 DEF UsedUp
      <3> QED
        BY <3>2, <3>8, <3>9
    \* A no: the question is used up.
    <2>12. CASE CanTake(a) /\ ~yes[a]
      <3>1. proof' = proof /\ declined' = declined \cup {a}
        BY <1>7, <2>12 DEF Take
      <3>2. NotYetTaken'
        BY <1>0, <1>a, <2>1, <2>2, <2>4, <2>5, <3>1 DEF NotYetTaken
      <3>3. About(p)' = About(p)
        BY <3>1 DEF About
      <3>4. No(p)' = No(p) \cup {a}
        BY <1>a, <2>0, <2>7, <3>1 DEF No
      <3>5. \A q \in Plans \ {p} : No(q)' = No(q)
        BY <1>a, <2>0, <2>7, <3>1 DEF No
      <3>6. a \notin No(p) /\ Open(p) = 1
        BY <2>0, <2>2, <2>12 DEF No, Open, CanTake
      <3>7. UsedUp(p)'
        <4>1. Cardinality(No(p)') = Cardinality(No(p)) + 1
              /\ IsFiniteSet(No(p)')
          BY <2>0, <2>8, <3>4, <3>6, FS_AddElement
        <4> QED
          BY <1>a, <2>1, <2>0, <2>8, <2>9, <3>3, <3>6, <4>1 DEF UsedUp
      <3>8. \A q \in Plans \ {p} : UsedUp(q)'
        BY <1>0, <1>a, <2>1, <2>6, <3>1, <3>5, SameUse
      <3> QED
        BY <3>2, <3>7, <3>8
    <2> QED
      BY <2>10, <2>11, <2>12
  <1>8. ASSUME NEW a \in Answers, Commit(a) PROVE Goal
    <2>1. /\ \E s \in {"committed", "refused"} : pc' = [pc EXCEPT ![a] = s]
          /\ UNCHANGED <<kept, token, proof, brings, asks, declined, spent>>
      BY <1>8 DEF Commit, Goto, stores, history
    <2> QED
      BY <1>0, <1>1, <2>1 DEF TypeOK
  <1>9. ASSUME Tick \/ SetBack \/ UNCHANGED vars PROVE Goal
    <2>1. UNCHANGED <<pc, kept, token, proof, brings, asks, declined, spent>>
      BY <1>9 DEF Tick, SetBack, vars, stores, calls, history
    <2> QED
      BY <1>1, <2>1
  <1>10. ASSUME Restart PROVE Goal
    <2>1. /\ \A p \in Plans : kept'[p] = None
          /\ \A a \in Answers : pc'[a] = "refused" \/ pc'[a] = pc[a]
          /\ UNCHANGED <<token, proof, brings, asks, declined, spent>>
      BY <1>10 DEF Restart, history
    <2>2. \A a \in Answers : pc'[a] \in {"idle", "nonce", "take"} =>
                                  pc[a] \in {"idle", "nonce", "take"}
      BY <2>1
    <2> QED
      BY <1>1, <2>1, <2>2
  <1> HIDE DEF Goal
  <1>11. Goal
    BY <1>2, <1>3, <1>4, <1>5, <1>6, <1>7, <1>8, <1>9, <1>10 DEF Next
  <1>12. Shape'
    BY NextShape DEF AsksInv
  <1> QED
    BY <1>11, <1>12 DEF AsksInv, Goal

\* However the clock is set and however often the process restarts, a plan is
\* committed at most as often as it was asked about, and every no uses up a
\* question too.
THEOREM QuestionForEach == Spec => []AskedForEach
  <1>1. AsksInv => AskedForEach
    <2> SUFFICES ASSUME AsksInv, NEW p \in Plans
                 PROVE  Cardinality(About(p)) + Cardinality(No(p)) <= asks[p]
      BY DEF AskedForEach, No
    <2>1. UsedUp(p) /\ asks[p] \in Nat
      BY DEF AsksInv, Shape, TypeOK
    <2>2. Cardinality(About(p)) \in Nat /\ Cardinality(No(p)) \in Nat
      BY <2>1, FS_CardinalityType DEF UsedUp
    <2>3. Open(p) \in {0, 1}
      BY DEF Open
    <2> QED
      BY <2>1, <2>2, <2>3 DEF UsedUp
  <1> QED
    BY <1>1, InitAsks, NextAsks, PTL DEF Spec
=============================================================================
