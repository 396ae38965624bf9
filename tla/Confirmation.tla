---------------------------- MODULE Confirmation ----------------------------
(***************************************************************************)
(* From a sealed plan to one commit: the questions and tokens of           *)
(* packages/core/src/write/confirm.ts over the store of plans              *)
(* (plan-store.ts), the store of used nonces (nonce-store.ts) and the      *)
(* proof (proof.ts).                                                       *)
(*                                                                         *)
(* The stores answer in a turn of the event loop of their own, so several  *)
(* answers, also two with one token, run through each other between the    *)
(* nonce, the plan, the proof and the commit.  The clock is the one of the *)
(* process and may be set back.                                            *)
(***************************************************************************)
EXTENDS Naturals, FiniteSets

CONSTANTS
    Plans,          \* hashes of plans of one tenant and actor
    Tokens,         \* nonces: one for each question and token of the echo
    Answers,        \* second rounds that bring a token back
    TokenTtl,       \* life of a question and of a token of the echo
    PlanTtl,        \* life of a plan in its store, and of a proof
    NonceTtl,       \* time a used nonce is remembered
    PlanCapacity,   \* open plans at most (maxOpenPlans)
    NonceCapacity,  \* remembered nonces at most (maxNonces)
    Stall,          \* time an answer may take from its check to its nonce
    None,
    MaxTime,        \* bound: the latest time
    MaxBack,        \* bound: times the clock is set back
    MaxRestarts     \* bound: restarts of the process

ASSUME TtlAssumption ==
    /\ TokenTtl \in Nat \ {0} /\ PlanTtl \in Nat \ {0}
    /\ NonceTtl \in Nat \ {0} /\ MaxTime \in Nat
    /\ Stall \in Nat

ASSUME CapacityAssumption ==
    /\ PlanCapacity \in Nat \ {0} /\ NonceCapacity \in Nat \ {0}
    /\ MaxBack \in Nat /\ MaxRestarts \in Nat

Token == [plan : Plans, at : Nat, run : Nat]
Proof == [plan : Plans, at : Nat]

ASSUME NothingAssumption ==
    /\ None \notin Plans /\ None \notin Tokens /\ None \notin Nat
    /\ None \notin Token /\ None \notin Proof

VARIABLES
    now,        \* the clock
    backs,      \* times it was set back
    restarts,   \* restarts so far
    kept,       \* store of plans: until when each can be taken, or None
    used,       \* store of nonces: until when each is remembered, or None
    token,      \* what each token carries, and the run whose key signed it
    pc,         \* where each answer is
    brings,     \* the token an answer brings back
    checked,    \* when its age was checked
    yes,        \* whether it is an accept with the right summary
    proof,      \* the proof an answer was given, or None
    askedAt,    \* history: when each plan was last asked about
    asks,       \* history: how often each plan was put into the store
    declined,   \* history: answers that took a plan and said no
    spent       \* history: nonces that counted as fresh, with their answer

stores  == <<kept, used>>
clock   == <<now, backs, restarts>>
calls   == <<pc, brings, checked, yes, proof>>
history == <<askedAt, asks, declined, spent>>
vars == <<clock, stores, token, calls, history>>

TypeOK ==
    /\ now \in Nat /\ backs \in Nat /\ restarts \in Nat
    /\ kept \in [Plans -> Nat \cup {None}]
    /\ used \in [Tokens -> Nat \cup {None}]
    /\ token \in [Tokens -> Token \cup {None}]
    /\ pc \in [Answers -> {"idle", "nonce", "take", "commit", "refused",
                           "committed"}]
    /\ brings \in [Answers -> Tokens \cup {None}]
    /\ checked \in [Answers -> Nat]
    /\ yes \in [Answers -> BOOLEAN]
    /\ proof \in [Answers -> Proof \cup {None}]
    /\ askedAt \in [Plans -> Nat]
    /\ asks \in [Plans -> Nat]
    /\ declined \subseteq Answers
    /\ spent \subseteq Tokens \X Answers

Init ==
    /\ now = 0 /\ backs = 0 /\ restarts = 0
    /\ kept = [p \in Plans |-> None]
    /\ used = [t \in Tokens |-> None]
    /\ token = [t \in Tokens |-> None]
    /\ pc = [a \in Answers |-> "idle"]
    /\ brings = [a \in Answers |-> None]
    /\ checked = [a \in Answers |-> 0]
    /\ yes = [a \in Answers |-> FALSE]
    /\ proof = [a \in Answers |-> None]
    /\ askedAt = [p \in Plans |-> 0]
    /\ asks = [p \in Plans |-> 0]
    /\ declined = {} /\ spent = {}

Goto(a, step) == pc' = [pc EXCEPT ![a] = step]
Filled(store) == {k \in DOMAIN store : store[k] # None}
Swept(store) ==
    [k \in DOMAIN store |->
        IF store[k] # None /\ now < store[k] THEN store[k] ELSE None]

-----------------------------------------------------------------------------
(* ask and echo: the plan is put into its store and a token names it.      *)

\* A plan asked about again takes its own place and lives on.
Ask(t, p) ==
    LET open == Swept(kept) IN
    /\ token[t] = None
    /\ open[p] # None \/ Cardinality(Filled(open)) < PlanCapacity
    /\ kept' = [open EXCEPT ![p] = now + PlanTtl]
    /\ token' = [token EXCEPT ![t] = [plan |-> p, at |-> now, run |-> restarts]]
    /\ askedAt' = [askedAt EXCEPT ![p] = now]
    /\ asks' = [asks EXCEPT ![p] = @ + 1]
    /\ UNCHANGED <<clock, used, calls, declined, spent>>

\* Too many plans are open: no question, and only the sweep is left.
AskFull(p) ==
    /\ Swept(kept)[p] = None
    /\ Cardinality(Filled(Swept(kept))) >= PlanCapacity
    /\ kept' = Swept(kept)
    /\ UNCHANGED <<clock, used, token, calls, history>>

-----------------------------------------------------------------------------
(* answer and confirmEcho.                                                 *)

\* The codec of the mount, or the token of the echo, checks the age.
InTime(t) ==
    /\ token[t] # None /\ token[t].run = restarts
    /\ token[t].at <= now /\ now < token[t].at + TokenTtl

Answer(a, t) ==
    /\ pc[a] = "idle" /\ token[t] # None
    /\ brings' = [brings EXCEPT ![a] = t]
    /\ checked' = [checked EXCEPT ![a] = now]
    /\ \E b \in BOOLEAN : yes' = [yes EXCEPT ![a] = InTime(t) /\ b]
    /\ Goto(a, IF InTime(t) THEN "nonce" ELSE "refused")
    /\ UNCHANGED <<clock, stores, token, proof, history>>

\* The nonce counts once; only a full store forgets what is over, and a store
\* still full calls every nonce used.
Remembered(t) == used[t] # None /\ now < used[t]

Room == IF Cardinality(Filled(used)) >= NonceCapacity THEN Swept(used) ELSE used

\* Mutant: a nonce is noted, never looked up.
ConsumeAny(a) ==
    LET t == brings[a] IN
    /\ pc[a] = "nonce"
    /\ used' = [Room EXCEPT ![t] = now + NonceTtl]
    /\ spent' = spent \cup {<<t, a>>}
    /\ Goto(a, "take")
    /\ UNCHANGED <<clock, kept, token, brings, checked, yes, proof, askedAt,
                   asks, declined>>

Consume(a) ==
    LET t == brings[a] IN
    /\ pc[a] = "nonce"
    /\ ~Remembered(t) /\ Cardinality(Filled(Room)) < NonceCapacity
    /\ used' = [Room EXCEPT ![t] = now + NonceTtl]
    /\ spent' = spent \cup {<<t, a>>}
    /\ Goto(a, "take")
    /\ UNCHANGED <<clock, kept, token, brings, checked, yes, proof, askedAt,
                   asks, declined>>

Replayed(a) ==
    /\ pc[a] = "nonce"
    /\ \/ Remembered(brings[a]) /\ UNCHANGED used
       \/ /\ ~Remembered(brings[a])
          /\ Cardinality(Filled(Room)) >= NonceCapacity
          /\ used' = Room
    /\ Goto(a, "refused")
    /\ UNCHANGED <<clock, kept, token, brings, checked, yes, proof, history>>

PlanOf(a) == token[brings[a]].plan

CanTake(a) == kept[PlanOf(a)] # None /\ now < kept[PlanOf(a)]

\* Mutant: a no leaves the plan in its store.
TakeForYes(a) ==
    /\ pc[a] = "take"
    /\ IF CanTake(a) /\ yes[a]
         THEN /\ proof' = [proof EXCEPT ![a] = [plan |-> PlanOf(a), at |-> now]]
              /\ kept' = [kept EXCEPT ![PlanOf(a)] = None]
              /\ Goto(a, "commit")
         ELSE Goto(a, "refused") /\ UNCHANGED <<proof, kept>>
    /\ declined' = IF CanTake(a) /\ ~yes[a] THEN declined \cup {a} ELSE declined
    /\ UNCHANGED <<clock, used, token, brings, checked, yes, askedAt, asks, spent>>

\* The plan is taken, also for a no and when it is over; only a yes gets a
\* proof.
Take(a) ==
    /\ pc[a] = "take"
    /\ kept' = [kept EXCEPT ![PlanOf(a)] = None]
    /\ IF CanTake(a) /\ yes[a]
         THEN /\ proof' = [proof EXCEPT ![a] = [plan |-> PlanOf(a), at |-> now]]
              /\ Goto(a, "commit")
         ELSE Goto(a, "refused") /\ UNCHANGED proof
    /\ declined' = IF CanTake(a) /\ ~yes[a] THEN declined \cup {a} ELSE declined
    /\ UNCHANGED <<clock, used, token, brings, checked, yes, askedAt, asks, spent>>

\* useProof, after the guard read the target: once, and not too old.  A call
\* its client gave up meanwhile commits nothing.
ProofCounts(a) == proof[a].at <= now /\ now <= proof[a].at + PlanTtl

Commit(a) ==
    /\ pc[a] = "commit"
    /\ (ProofCounts(a) /\ Goto(a, "committed")) \/ Goto(a, "refused")
    /\ UNCHANGED <<clock, stores, token, brings, checked, yes, proof, history>>

-----------------------------------------------------------------------------
(* Time and restarts.                                                      *)

Tick ==
    /\ now < MaxTime
    /\ \A a \in Answers : pc[a] = "nonce" => now < checked[a] + Stall
    /\ now' = now + 1
    /\ UNCHANGED <<backs, restarts, stores, token, calls, history>>

SetBack ==
    /\ backs < MaxBack
    /\ backs' = backs + 1
    /\ now' \in 0 .. now
    /\ UNCHANGED <<restarts, stores, token, calls, history>>

\* Both stores and the keys of the process are gone: no token is valid, and
\* an answer in between ends.
Restart ==
    /\ restarts < MaxRestarts
    /\ restarts' = restarts + 1
    /\ kept' = [p \in Plans |-> None]
    /\ used' = [t \in Tokens |-> None]
    /\ pc' = [a \in Answers |->
                IF pc[a] \in {"nonce", "take", "commit"} THEN "refused" ELSE pc[a]]
    /\ UNCHANGED <<now, backs, token, brings, checked, yes, proof, history>>

Next ==
    \/ \E p \in Plans : AskFull(p) \/ \E t \in Tokens : Ask(t, p)
    \/ \E a \in Answers :
        \/ \E t \in Tokens : Answer(a, t)
        \/ Consume(a) \/ Replayed(a) \/ Take(a) \/ Commit(a)
    \/ Tick \/ SetBack \/ Restart

Spec == Init /\ [][Next]_vars

-----------------------------------------------------------------------------
(* Properties.                                                             *)

Committed == {a \in Answers : pc[a] = "committed"}
About(p) == {a \in Answers : proof[a] # None /\ proof[a].plan = p}

\* While the clock never ran back, a token confirms at most once, also when
\* two answers bring it at the same time or one brings it again after the
\* plan was asked about anew.
TokenCountsOnce == backs = 0 =>
    \A a, b \in Answers :
        proof[a] # None /\ proof[b] # None /\ brings[a] = brings[b] => a = b

\* Also when the clock is set back, a plan is committed at most as often as it
\* was asked about, and each no uses up a question as well: a question asked
\* before a no is not confirmed after it unless the plan is asked about again.
AskedForEach ==
    \A p \in Plans :
        Cardinality(About(p)) + Cardinality({a \in declined : PlanOf(a) = p}) <= asks[p]

\* Neither store grows over its bound.
StoresBounded ==
    /\ Cardinality(Filled(kept)) <= PlanCapacity
    /\ Cardinality(Filled(used)) <= NonceCapacity

\* A commit comes at most two lives of a plan after the plan was last asked
\* about, by a clock that never ran back: one in the store and one with its
\* proof.
CommitIsRecent ==
    [][\A a \in Answers : a \in Committed' \ Committed /\ backs = 0
        => now <= askedAt[proof[a].plan] + 2 * PlanTtl]_vars
=============================================================================
