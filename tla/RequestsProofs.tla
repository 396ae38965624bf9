--------------------------- MODULE RequestsProofs ---------------------------
(***************************************************************************)
(* Proofs about TokenBucket and Requests, for every rate, length of a      *)
(* minute and of a second, number of connections and bounds of the worlds. *)
(***************************************************************************)
EXTENDS Requests, FiniteSetTheorems, TLAPS

-----------------------------------------------------------------------------
(* Arithmetic of the bucket.                                               *)

\* A division rounded up, times its divisor, is not less than the dividend.
LEMMA CeilDivReaches ==
    ASSUME NEW a \in Int, NEW b \in Nat \ {0}
    PROVE  /\ CeilDiv(a, b) \in Int
           /\ b * CeilDiv(a, b) >= a
BY DEF CeilDiv

\* The bucket holds at least one place.
LEMMA CapacityHoldsAPlace == capacity \in Nat /\ capacity >= costOfRequest
<1>1. CeilDiv(Rate, 6) \in Nat /\ CeilDiv(Rate, 6) >= 1
  BY BucketAssumption DEF CeilDiv
<1>2. \A n, m \in Nat : n >= 1 => n * m \in Nat /\ n * m >= m
  OBVIOUS
<1> QED
  BY <1>1, <1>2, BucketAssumption DEF capacity, costOfRequest

-----------------------------------------------------------------------------
(* What holds of the bucket in every state.                                *)

\* What was given in the window and what is left was there when it began or
\* came in since.
Balanced ==
    given * costOfRequest + credit <=
        capacity + (IF since = NoTime THEN 0 ELSE (last - since) * Rate)

\* When the wait is over enough has come in for a place.
Announced ==
    due # NoTime =>
        /\ last # NoTime /\ due >= last
        /\ credit + (due - last) * Rate >= costOfRequest

BucketInv ==
    /\ BucketTypeOK
    /\ peak = last
    /\ since = NoTime <=> last = NoTime
    /\ Balanced
    /\ Announced

LEMMA BucketInvInit == BucketInit => BucketInv
BY CapacityHoldsAPlace, BucketAssumption
   DEF BucketInit, BucketInv, BucketTypeOK, Balanced, Announced, costOfRequest

\* A reading fills the bucket by what the time brought, and no further than
\* it holds.
LEMMA RefilledBounds ==
    ASSUME BucketInv, NEW r \in Int \cup {NoTime}
    PROVE  /\ Refilled(r) \in 0 .. capacity
           /\ Refilled(r) >= credit
           /\ Latest(last, r) \in Int \cup {NoTime}
           /\ last # NoTime => /\ Latest(last, r) # NoTime
                               /\ Latest(last, r) >= last
                               /\ Refilled(r) <= credit + (Latest(last, r) - last) * Rate
           /\ last = NoTime => Refilled(r) = credit
<1>1. CASE r = NoTime \/ last = NoTime \/ r < last
  BY <1>1, CapacityHoldsAPlace, BucketAssumption
     DEF Refilled, Latest, BucketInv, BucketTypeOK
<1>2. CASE ~(r = NoTime \/ last = NoTime \/ r < last)
  <2>1. r \in Int /\ last \in Int /\ r - last \in Nat /\ credit \in 0 .. capacity
    BY <1>2 DEF BucketInv, BucketTypeOK
  <2>2. (r - last) * Rate \in Nat
    BY <2>1, BucketAssumption
  <2>3. Latest(last, r) = r
    BY <1>2, <2>1 DEF Latest
  <2>4. Refilled(r) = IF credit + (r - last) * Rate < capacity
                      THEN credit + (r - last) * Rate ELSE capacity
    BY <1>2 DEF Refilled
  <2> QED
    BY <1>2, <2>1, <2>2, <2>3, <2>4, CapacityHoldsAPlace, BucketAssumption
<1> QED
  BY <1>1, <1>2

\* With what a reading brings, the window is still in balance.
LEMMA FillBalanced ==
    ASSUME BucketInv, NEW r \in Int \cup {NoTime}
    PROVE  given * costOfRequest + Refilled(r) <=
             capacity + (IF since = NoTime THEN 0
                         ELSE (Latest(last, r) - since) * Rate)
<1> DEFINE t == Latest(last, r)
           g == given * costOfRequest
           p == (t - last) * Rate
           q == (last - since) * Rate
<1>1. /\ costOfRequest \in Nat /\ given \in Nat /\ Rate \in Nat /\ NoTime \notin Int
      /\ g \in Int /\ credit \in Int /\ capacity \in Int /\ Refilled(r) \in Int
  BY BucketAssumption, RefilledBounds, CapacityHoldsAPlace
     DEF costOfRequest, BucketInv, BucketTypeOK
<1>2. CASE last = NoTime
  BY <1>2, <1>1, RefilledBounds DEF BucketInv, Balanced
<1>3. CASE last # NoTime
  <2>1. since # NoTime /\ since \in Int /\ last \in Int /\ t \in Int
    BY <1>3, RefilledBounds DEF BucketInv, BucketTypeOK
  <2>2. p \in Int /\ q \in Int /\ p + q = (t - since) * Rate
    BY <2>1, <1>1
  <2>3. Refilled(r) <= credit + p
    BY <1>3, RefilledBounds
  <2>4. g + credit <= capacity + q
    BY <2>1 DEF BucketInv, Balanced
  <2>5. g + Refilled(r) <= capacity + (p + q)
    <3> HIDE DEF g, p, q
    <3> QED
      BY <1>1, <2>2, <2>3, <2>4
  <2> QED
    BY <2>1, <2>2, <2>5
<1> QED
  BY <1>2, <1>3

LEMMA TakeKeeps ==
    ASSUME BucketInv, NEW r \in Int \cup {NoTime}, Take(r)
    PROVE  BucketInv'
<1> DEFINE t == Latest(last, r)
<1>1. /\ last' = t /\ peak' = t
      /\ since' = IF since = NoTime THEN t ELSE since
      /\ credit' = Refilled(r) - costOfRequest /\ Refilled(r) >= costOfRequest
      /\ due' = NoTime /\ given' = given + 1 /\ clock' = clock
  BY DEF Take, Refill, BucketInv
<1>2. costOfRequest \in Nat /\ given \in Nat /\ Rate \in Nat /\ NoTime \notin Int
  BY BucketAssumption DEF costOfRequest, BucketInv, BucketTypeOK
<1>3. BucketTypeOK'
  BY <1>1, <1>2, RefilledBounds, CapacityHoldsAPlace
     DEF BucketInv, BucketTypeOK, capacity, costOfRequest
<1>4. since' = NoTime <=> last' = NoTime
  BY <1>1, RefilledBounds DEF BucketInv
<1>5. Balanced'
  <2>1. given' * costOfRequest + credit' = given * costOfRequest + Refilled(r)
    BY <1>1, <1>2, RefilledBounds, CapacityHoldsAPlace
  <2>2. since' # NoTime => /\ since # NoTime => since' = since
                           /\ since = NoTime => since' = last' /\ last' \in Int
    BY <1>1, <1>3 DEF BucketTypeOK
  <2> QED
    BY <2>1, <2>2, <1>1, <1>2, FillBalanced, RefilledBounds, CapacityHoldsAPlace
       DEF BucketInv, Balanced, capacity, costOfRequest
<1>6. Announced'
  BY <1>1 DEF Announced
<1> QED
  BY <1>1, <1>3, <1>4, <1>5, <1>6 DEF BucketInv

LEMMA RefuseKeeps ==
    ASSUME BucketInv, NEW r \in Int \cup {NoTime}, Refuse(r)
    PROVE  BucketInv'
<1> DEFINE t == Latest(last, r)
           w == waitSeconds(credit')
<1>1. /\ last' = t /\ peak' = t
      /\ since' = IF since = NoTime THEN t ELSE since
      /\ credit' = Refilled(r) /\ Refilled(r) < costOfRequest
      /\ due' = IF r # NoTime /\ r = t THEN r + Second * w ELSE NoTime
      /\ given' = given /\ clock' = clock
  BY DEF Refuse, Refill, BucketInv
<1>2. /\ costOfRequest \in Nat /\ given \in Nat /\ Rate \in Nat \ {0}
      /\ Second \in Nat \ {0} /\ NoTime \notin Int
  BY BucketAssumption DEF costOfRequest, BucketInv, BucketTypeOK
<1>3. w \in Int /\ (Rate * Second) * w >= costOfRequest - credit' /\ w >= 1
  <2>1. Rate * Second \in Nat \ {0}
    BY <1>2
  <2>2. costOfRequest - credit' \in Int /\ costOfRequest - credit' >= 1
    BY <1>1, <1>2, RefilledBounds, CapacityHoldsAPlace
  <2>3. w = CeilDiv(costOfRequest - credit', Rate * Second)
    BY DEF waitSeconds
  <2>4. w \in Int /\ (Rate * Second) * w >= costOfRequest - credit'
    BY <2>1, <2>2, <2>3, CeilDivReaches
  <2>5. \A b \in Nat \ {0}, x \in Int : b * x >= 1 => x >= 1
    OBVIOUS
  <2> QED
    BY <2>1, <2>2, <2>4, <2>5
<1>4. BucketTypeOK'
  BY <1>1, <1>2, <1>3, RefilledBounds, CapacityHoldsAPlace
     DEF BucketInv, BucketTypeOK, capacity, costOfRequest
<1>5. since' = NoTime <=> last' = NoTime
  BY <1>1, RefilledBounds DEF BucketInv
<1>6. Balanced'
  <2>1. since' # NoTime => /\ since # NoTime => since' = since
                           /\ since = NoTime => since' = last' /\ last' \in Int
    BY <1>1, <1>4 DEF BucketTypeOK
  <2> QED
    BY <2>1, <1>1, <1>2, FillBalanced, RefilledBounds, CapacityHoldsAPlace
       DEF BucketInv, Balanced, capacity, costOfRequest
<1>7. Announced'
  <2> SUFFICES ASSUME due' # NoTime
               PROVE  /\ last' # NoTime /\ due' >= last'
                      /\ credit' + (due' - last') * Rate >= costOfRequest
    BY DEF Announced, costOfRequest
  <2>1. r \in Int /\ t = r /\ due' = r + Second * w /\ last' = r
    BY <1>1
  <2>2. Second * w \in Nat
    BY <1>2, <1>3
  <2>3. (due' - last') * Rate = (Rate * Second) * w
    BY <2>1, <1>2, <1>3
  <2>4. credit' \in Int
    BY <1>1, RefilledBounds, CapacityHoldsAPlace
  <2>5. (Rate * Second) * w \in Int
    BY <1>2, <1>3
  <2> QED
    BY <2>1, <2>2, <2>3, <2>4, <2>5, <1>2, <1>3
<1> QED
  BY <1>1, <1>4, <1>5, <1>6, <1>7 DEF BucketInv

LEMMA WatchKeeps == BucketInv /\ Watch => BucketInv'
BY CapacityHoldsAPlace, BucketAssumption
   DEF Watch, bucket, BucketInv, BucketTypeOK, Balanced, Announced, capacity,
       costOfRequest

LEMMA ClockKeeps ==
    ASSUME BucketInv, NEW t \in Int, ClockTo(t)
    PROVE  BucketInv'
BY DEF ClockTo, bucket, window, BucketInv, BucketTypeOK, Balanced, Announced,
       capacity, costOfRequest

LEMMA BucketRests ==
    BucketInv /\ UNCHANGED <<clock, bucket, window>> => BucketInv'
BY DEF bucket, window, BucketInv, BucketTypeOK, Balanced, Announced, capacity,
       costOfRequest

-----------------------------------------------------------------------------
(* The bucket in every run of Requests.                                    *)

RunInv == world \in Worlds /\ BucketInv

LEMMA RunInvNext == RunInv /\ [Next]_vars => RunInv'
<1> SUFFICES ASSUME RunInv, [Next]_vars PROVE RunInv'
  OBVIOUS
<1> USE RequestsAssumption DEF RunInv
<1>0. world' \in Worlds
  BY DEF Next, Own, vars, Stops, Dispatch, StopEnds, Failed, Answered, Ends,
         Headers, BodyFails, Connects, Lands, Breaks, Close, Tick, SetClock,
         WatchNow, Begin, NotEntered, RefusedTarget, Enter
<1>1. ASSUME NEW c \in Calls, NotEntered(c) \/ RefusedTarget(c) \/ Enter(c)
      PROVE  BucketInv'
  <2>1. \A r \in Readings : r \in Int \cup {NoTime}
    BY DEF Readings, BucketInv, BucketTypeOK
  <2>2. CASE NoClock
    BY <2>2, BucketRests DEF NoClock
  <2>3. CASE \E r \in Readings : Refuse(r) \/ Take(r)
    BY <2>1, <2>3, TakeKeeps, RefuseKeeps
  <2> QED
    BY <1>1, <2>2, <2>3 DEF NotEntered, RefusedTarget, Enter
<1>2. CASE SetClock
  BY <1>2, ClockKeeps DEF SetClock
<1>3. CASE Tick
  BY <1>3, ClockKeeps DEF Tick, BucketInv, BucketTypeOK
<1>4. CASE WatchNow
  BY <1>4, WatchKeeps DEF WatchNow
<1>5. CASE UNCHANGED clocks
  BY <1>0, <1>5, BucketRests DEF clocks, bucket, window
<1> QED
  BY <1>0, <1>1, <1>2, <1>3, <1>4, <1>5
     DEF Next, Own, vars, Stops, Dispatch, StopEnds, Failed, Answered, Ends,
         Headers, BodyFails, Connects, Lands, Breaks, Close

LEMMA RunInvHolds == Spec => []RunInv
<1>1. Init => RunInv
  BY BucketInvInit DEF Init, RunInv
<1> QED
  BY <1>1, RunInvNext, PTL DEF Spec

\* No stretch of time sees more requests than the bucket holds and the rate
\* allows, whatever the clock of the computer does (createRequestThrottle).
THEOREM RateHolds == Spec => []NeverOverRate
<1>1. RunInv => NeverOverRate
  BY CapacityHoldsAPlace, BucketAssumption
     DEF RunInv, BucketInv, BucketTypeOK, Balanced, NeverOverRate, costOfRequest
<1> QED
  BY <1>1, RunInvHolds, PTL

\* The wait a call is told is long enough (take of createRequestThrottle).
THEOREM WaitHolds == Spec => []WaitSuffices
<1>1. ASSUME BucketInv, due # NoTime, clock >= due
      PROVE  Refilled(clock) >= costOfRequest
  <2>1. /\ last \in Int /\ due \in Int /\ clock \in Int /\ due >= last
        /\ credit \in Int /\ Rate \in Nat /\ NoTime \notin Int
        /\ credit + (due - last) * Rate >= costOfRequest
    BY <1>1, CapacityHoldsAPlace, BucketAssumption
       DEF BucketInv, BucketTypeOK, Announced
  <2>2. (clock - last) * Rate >= (due - last) * Rate
    <3>1. clock - last \in Nat /\ due - last \in Nat /\ clock - due \in Nat
      BY <1>1, <2>1
    <3>2. (clock - due) * Rate >= 0
      BY <2>1, <3>1
    <3>3. (clock - last) * Rate = (clock - due) * Rate + (due - last) * Rate
      BY <2>1
    <3> QED
      BY <2>1, <3>1, <3>2, <3>3
  <2>3. credit + (clock - last) * Rate >= costOfRequest
    BY <2>1, <2>2, BucketAssumption DEF costOfRequest
  <2> QED
    BY <1>1, <2>1, <2>3, CapacityHoldsAPlace DEF Refilled
<1>2. RunInv => WaitSuffices
  BY <1>1 DEF RunInv, WaitSuffices
<1> QED
  BY <1>2, RunInvHolds, PTL

-----------------------------------------------------------------------------
(* The places of the transport.                                            *)

Held == {c \in Calls : pc[c] \in Holding}

\* A call waits once, and the calls that wait are those in the queue.
Queued ==
    /\ waiting \in Seq(Calls)
    /\ \A i, j \in DOMAIN waiting : waiting[i] = waiting[j] => i = j
    /\ \A i \in DOMAIN waiting : pc[waiting[i]] = "waiting"
    /\ \A c \in Calls : pc[c] = "waiting" => \E i \in DOMAIN waiting : waiting[i] = c

PlaceInv ==
    /\ pc \in [Calls -> Free \cup Holding \cup {"waiting", "stopped"}]
    /\ busy \in 0 .. Connections
    /\ busy = Cardinality(Held)
    /\ Queued
    /\ waiting # <<>> => busy = Connections

LEMMA HeldFinite == IsFiniteSet(Held)
BY FS_Subset, RequestsAssumption DEF Held

LEMMA PlaceInvInit == Init => PlaceInv
<1> SUFFICES ASSUME Init PROVE PlaceInv
  OBVIOUS
<1>1. Held = {}
  BY DEF Init, Held, Holding
<1>2. Cardinality(Held) = 0
  BY <1>1, FS_EmptySet
<1> QED
  BY <1>2, RequestsAssumption DEF Init, PlaceInv, Queued, Free

\* A step of one call that neither gives back nor takes a place.
LEMMA SamePlaces ==
    ASSUME PlaceInv, NEW c \in Calls, NEW p, Goto(c, p), UNCHANGED places,
           \/ pc[c] \in Holding /\ p \in Holding
           \/ pc[c] \in Free \cup {"stopped"} /\ p \in Free
    PROVE  PlaceInv'
<1> USE DEF PlaceInv, Goto, places, Free, Holding
<1>1. pc' \in [Calls -> Free \cup Holding \cup {"waiting", "stopped"}]
  OBVIOUS
<1>2. Held' = Held
  BY DEF Held
<1>3. Queued'
  BY DEF Queued
<1> QED
  BY <1>1, <1>2, <1>3

LEMMA EnterPlaces ==
    ASSUME PlaceInv, NEW c \in Calls, Enter(c)
    PROVE  PlaceInv'
<1> USE RequestsAssumption
<1>1. pc[c] \in Free
  BY DEF Enter, Begin
<1>2. CASE busy < Connections
  <2>1. busy' = busy + 1 /\ Goto(c, "placed") /\ UNCHANGED waiting
    BY <1>2 DEF Enter
  <2>2. Held' = Held \cup {c} /\ c \notin Held
    BY <1>1, <2>1 DEF PlaceInv, Held, Goto, Free, Holding
  <2>3. Cardinality(Held') = Cardinality(Held) + 1
    BY <2>2, HeldFinite, FS_AddElement
  <2>4. waiting = <<>>
    BY <1>2 DEF PlaceInv
  <2>5. Queued'
    BY <1>1, <2>1, <2>4 DEF PlaceInv, Queued, Goto, Free
  <2> QED
    BY <1>1, <1>2, <2>1, <2>3, <2>4, <2>5 DEF PlaceInv, Goto, Free, Holding
<1>3. CASE ~(busy < Connections)
  <2>1. UNCHANGED busy /\ Goto(c, "waiting") /\ waiting' = Append(waiting, c)
    BY <1>3 DEF Enter
  <2>2. Held' = Held
    BY <1>1, <2>1 DEF PlaceInv, Held, Goto, Free, Holding
  <2>3. Queued'
    <3>1. /\ waiting' \in Seq(Calls) /\ Len(waiting') = Len(waiting) + 1
          /\ \A i \in DOMAIN waiting : waiting'[i] = waiting[i] /\ i \in DOMAIN waiting'
          /\ waiting'[Len(waiting) + 1] = c
          /\ DOMAIN waiting' = DOMAIN waiting \cup {Len(waiting) + 1}
          /\ Len(waiting) + 1 \notin DOMAIN waiting
      BY <2>1 DEF PlaceInv, Queued
    <3>2. \A i \in DOMAIN waiting : waiting[i] # c /\ waiting[i] \in Calls
      BY <1>1 DEF PlaceInv, Queued, Free
    <3>3. pc' = [pc EXCEPT ![c] = "waiting"] /\ pc \in [Calls -> Free \cup Holding \cup {"waiting", "stopped"}]
      BY <2>1 DEF Goto, PlaceInv
    <3>4. \A i, j \in DOMAIN waiting' : waiting'[i] = waiting'[j] => i = j
      BY <3>1, <3>2 DEF PlaceInv, Queued
    <3>5. \A i \in DOMAIN waiting' : pc'[waiting'[i]] = "waiting"
      BY <3>1, <3>2, <3>3 DEF PlaceInv, Queued
    <3>6. \A d \in Calls : pc'[d] = "waiting" =>
              \E i \in DOMAIN waiting' : waiting'[i] = d
      BY <3>1, <3>3 DEF PlaceInv, Queued
    <3> QED
      BY <3>1, <3>4, <3>5, <3>6 DEF Queued
  <2> QED
    BY <1>1, <1>3, <2>1, <2>2, <2>3 DEF PlaceInv, Goto, Free, Holding
<1> QED
  BY <1>2, <1>3

\* An abort takes a call out of the queue and leaves the others in their order.
LEMMA StopsPlaces ==
    ASSUME PlaceInv, NEW c \in Calls, Stops(c)
    PROVE  PlaceInv'
<1>1. CASE pc[c] # "waiting"
  BY <1>1 DEF Stops, PlaceInv, Queued, Held
<1>2. CASE pc[c] = "waiting"
  <2>1. PICK k \in DOMAIN waiting : waiting[k] = c /\ waiting' = Spliced(waiting, k)
    BY <1>2 DEF Stops
  <2>2. UNCHANGED busy /\ pc' = [pc EXCEPT ![c] = "stopped"]
    BY <1>2 DEF Stops, Goto
  <2>3. waiting \in Seq(Calls) /\ Len(waiting) \in Nat /\ DOMAIN waiting = 1 .. Len(waiting)
    BY DEF PlaceInv, Queued
  <2>4. /\ DOMAIN waiting' = 1 .. Len(waiting) - 1
        /\ \A j \in 1 .. Len(waiting) - 1 :
             waiting'[j] = IF j < k THEN waiting[j] ELSE waiting[j + 1]
    BY <2>1 DEF Spliced
  <2>5. waiting' \in Seq(Calls)
    <3>1. \A j \in 1 .. Len(waiting) - 1 : waiting'[j] \in Calls
      BY <2>3, <2>4
    <3>2. waiting' = [j \in 1 .. Len(waiting) - 1 |->
                       IF j < k THEN waiting[j] ELSE waiting[j + 1]]
      BY <2>1 DEF Spliced
    <3>3. Len(waiting) - 1 \in Nat
      BY <2>1, <2>3
    <3> QED
      BY <2>4, <3>1, <3>2, <3>3
  <2>6. \A i, j \in DOMAIN waiting' : waiting'[i] = waiting'[j] => i = j
    <3> SUFFICES ASSUME NEW i \in DOMAIN waiting', NEW j \in DOMAIN waiting',
                        waiting'[i] = waiting'[j]
                 PROVE  i = j
      OBVIOUS
    <3> DEFINE old(n) == IF n < k THEN n ELSE n + 1
    <3>1. \A n \in DOMAIN waiting' : waiting'[n] = waiting[old(n)] /\ old(n) \in DOMAIN waiting
      BY <2>1, <2>3, <2>4
    <3>2. old(i) = old(j)
      BY <3>1 DEF PlaceInv, Queued
    <3> QED
      BY <2>1, <2>3, <2>4, <3>2
  <2>7. \A i \in DOMAIN waiting' : pc'[waiting'[i]] = "waiting"
    <3>1. \A i \in DOMAIN waiting' :
            \E j \in DOMAIN waiting : waiting'[i] = waiting[j] /\ j # k
      BY <2>1, <2>3, <2>4
    <3>2. \A j \in DOMAIN waiting : j # k => waiting[j] # c /\ pc[waiting[j]] = "waiting"
      BY <2>1 DEF PlaceInv, Queued
    <3> QED
      BY <3>1, <3>2, <2>2, <2>3 DEF PlaceInv
  <2>8. \A d \in Calls : pc'[d] = "waiting" =>
            \E i \in DOMAIN waiting' : waiting'[i] = d
    <3> SUFFICES ASSUME NEW d \in Calls, pc'[d] = "waiting"
                 PROVE  \E i \in DOMAIN waiting' : waiting'[i] = d
      OBVIOUS
    <3>1. d # c /\ pc[d] = "waiting"
      BY <2>2 DEF PlaceInv
    <3>2. PICK j \in DOMAIN waiting : waiting[j] = d
      BY <3>1 DEF PlaceInv, Queued
    <3>3. j # k /\ j \in 1 .. Len(waiting) /\ k \in 1 .. Len(waiting)
      BY <2>1, <2>3, <3>1, <3>2
    <3>4. CASE j < k
      <4>1. j \in DOMAIN waiting' /\ waiting'[j] = d
        BY <2>3, <2>4, <3>2, <3>3, <3>4
      <4> QED
        BY <4>1
    <3>5. CASE j > k
      <4>1. j - 1 \in DOMAIN waiting' /\ waiting'[j - 1] = d
        BY <2>3, <2>4, <3>2, <3>3, <3>5
      <4> QED
        BY <4>1
    <3> QED
      BY <2>3, <3>3, <3>4, <3>5
  <2>9. Held' = Held
    BY <1>2, <2>2 DEF Held, Holding, PlaceInv
  <2>10. waiting # <<>>
    BY <2>1
  <2> QED
    BY <2>2, <2>5, <2>6, <2>7, <2>8, <2>9, <2>10 DEF PlaceInv, Queued
<1> QED
  BY <1>1, <1>2

\* The end of a call hands its place to the first call that waits.
LEMMA EndsPlaces ==
    ASSUME PlaceInv, NEW c \in Calls, NEW kind, Ends(c, kind), pc[c] # "waiting"
    PROVE  PlaceInv'
<1> USE RequestsAssumption
<1>1. CASE pc[c] \notin Holding
  <2>1. Goto(c, "done") /\ UNCHANGED places /\ pc[c] \in Free \cup {"stopped"}
    BY <1>1 DEF Ends, PlaceInv
  <2> QED
    BY <2>1, SamePlaces DEF Free
<1>2. CASE pc[c] \in Holding /\ waiting = <<>>
  <2>1. busy' = busy - 1 /\ waiting' = <<>> /\ pc' = [pc EXCEPT ![c] = "done"]
    BY <1>2 DEF Ends, Leave, Handed, PlaceInv
  <2>2. Held' = Held \ {c} /\ c \in Held
    BY <1>2, <2>1 DEF PlaceInv, Held, Holding
  <2>3. Cardinality(Held') = Cardinality(Held) - 1 /\ Cardinality(Held) \in Nat
        /\ Cardinality(Held') \in Nat
    BY <2>2, HeldFinite, FS_RemoveElement, FS_CardinalityType, FS_Subset
  <2>4. Queued'
    BY <1>2, <2>1 DEF PlaceInv, Queued
  <2> QED
    BY <2>1, <2>3, <2>4 DEF PlaceInv, Free
<1>3. CASE pc[c] \in Holding /\ waiting # <<>>
  <2> DEFINE h == Head(waiting)
  <2>1. /\ UNCHANGED busy /\ waiting' = Tail(waiting)
        /\ pc' = [d \in Calls |-> IF d = c THEN "done"
                                   ELSE IF d = h THEN "placed" ELSE pc[d]]
    BY <1>3 DEF Ends, Leave, Handed
  <2>2. waiting \in Seq(Calls) /\ Len(waiting) \in Nat \ {0} /\ h = waiting[1]
        /\ DOMAIN waiting = 1 .. Len(waiting) /\ h \in Calls /\ pc[h] = "waiting"
    BY <1>3 DEF PlaceInv, Queued
  <2>3. h # c /\ h \notin Held /\ c \in Held
    BY <1>3, <2>2 DEF Held, Holding
  <2>4. Held' = (Held \ {c}) \cup {h}
    BY <2>1, <2>2, <2>3 DEF Held, Holding
  <2>5. Cardinality(Held') = Cardinality(Held)
    <3>1. IsFiniteSet(Held \ {c}) /\ Cardinality(Held \ {c}) = Cardinality(Held) - 1
      BY <2>3, HeldFinite, FS_RemoveElement
    <3>2. Cardinality((Held \ {c}) \cup {h}) = Cardinality(Held \ {c}) + 1
      BY <2>3, <3>1, FS_AddElement
    <3> QED
      BY <2>4, <3>1, <3>2, HeldFinite, FS_CardinalityType
  <2>6. /\ waiting' \in Seq(Calls)
        /\ DOMAIN waiting' = 1 .. Len(waiting) - 1
        /\ \A j \in 1 .. Len(waiting) - 1 : waiting'[j] = waiting[j + 1]
    BY <1>3, <2>1, <2>2
  <2>7. \A i, j \in DOMAIN waiting' : waiting'[i] = waiting'[j] => i = j
    <3> SUFFICES ASSUME NEW i \in DOMAIN waiting', NEW j \in DOMAIN waiting',
                        waiting'[i] = waiting'[j]
                 PROVE  i = j
      OBVIOUS
    <3>1. \A n \in DOMAIN waiting' : waiting'[n] = waiting[n + 1] /\ n + 1 \in DOMAIN waiting
      BY <2>2, <2>6
    <3>2. i + 1 = j + 1
      BY <3>1 DEF PlaceInv, Queued
    <3> QED
      BY <2>2, <2>6, <3>2
  <2>8. \A i \in DOMAIN waiting' : pc'[waiting'[i]] = "waiting"
    <3> SUFFICES ASSUME NEW i \in DOMAIN waiting' PROVE pc'[waiting'[i]] = "waiting"
      OBVIOUS
    <3>1. i + 1 \in DOMAIN waiting /\ 1 \in DOMAIN waiting /\ i + 1 # 1 /\ i \in Nat
      BY <2>2, <2>6
    <3>2. waiting'[i] = waiting[i + 1] /\ waiting[i + 1] \in Calls
      BY <2>2, <2>6, <3>1
    <3>3. waiting[i + 1] # h /\ pc[waiting[i + 1]] = "waiting"
      BY <2>2, <3>1 DEF PlaceInv, Queued
    <3>4. waiting[i + 1] # c
      BY <1>3, <3>3 DEF Holding
    <3> QED
      BY <2>1, <3>2, <3>3, <3>4
  <2>9. \A d \in Calls : pc'[d] = "waiting" =>
            \E i \in DOMAIN waiting' : waiting'[i] = d
    <3> SUFFICES ASSUME NEW d \in Calls, pc'[d] = "waiting"
                 PROVE  \E i \in DOMAIN waiting' : waiting'[i] = d
      OBVIOUS
    <3>1. d # h /\ pc[d] = "waiting"
      BY <2>1
    <3>2. PICK j \in DOMAIN waiting : waiting[j] = d
      BY <3>1 DEF PlaceInv, Queued
    <3>3. j # 1 /\ j \in 1 .. Len(waiting)
      BY <2>2, <3>1, <3>2
    <3>4. j - 1 \in DOMAIN waiting' /\ waiting'[j - 1] = waiting[j]
      BY <2>2, <2>6, <3>3
    <3> QED
      BY <3>2, <3>4
  <2>10. pc' \in [Calls -> Free \cup Holding \cup {"waiting", "stopped"}]
    BY <2>1 DEF PlaceInv, Free, Holding
  <2> QED
    BY <1>3, <2>1, <2>5, <2>6, <2>7, <2>8, <2>9, <2>10 DEF PlaceInv, Queued
<1> QED
  BY <1>1, <1>2, <1>3

LEMMA PlaceInvNext == PlaceInv /\ [Next]_vars => PlaceInv'
<1> SUFFICES ASSUME PlaceInv, [Next]_vars PROVE PlaceInv'
  OBVIOUS
<1>1. ASSUME NEW c \in Calls, NotEntered(c) \/ RefusedTarget(c)
      PROVE  PlaceInv'
  BY <1>1, SamePlaces DEF NotEntered, RefusedTarget, Begin, Free
<1>2. ASSUME NEW c \in Calls, Enter(c) PROVE PlaceInv'
  BY <1>2, EnterPlaces
<1>3. ASSUME NEW c \in Calls, Stops(c) PROVE PlaceInv'
  BY <1>3, StopsPlaces
<1>4. ASSUME NEW c \in Calls, Dispatch(c) \/ Headers(c) \/ BodyFails(c) \/ Breaks(c)
      PROVE  PlaceInv'
  BY <1>4, SamePlaces DEF Dispatch, Headers, BodyFails, Breaks, Holding
<1>5. ASSUME NEW c \in Calls, StopEnds(c) \/ Failed(c) \/ Answered(c)
      PROVE  PlaceInv'
  BY <1>5, EndsPlaces DEF StopEnds, Failed, Answered
<1>6. CASE UNCHANGED <<places, pc>>
  BY <1>6 DEF PlaceInv, Queued, Held, places
<1> QED
  BY <1>1, <1>2, <1>3, <1>4, <1>5, <1>6
     DEF Next, Own, vars, Connects, Lands, Close, Tick, SetClock, WatchNow

LEMMA PlaceInvHolds == Spec => []PlaceInv
BY PlaceInvInit, PlaceInvNext, PTL DEF Spec

\* Each place is held by one call, and the queue is never left standing with a
\* place free (enter and leave of createTransport).
THEOREM PlacesHoldAlways == Spec => []PlacesHold
<1>1. PlaceInv => PlacesHold
  BY DEF PlaceInv, Queued, PlacesHold, Held
<1> QED
  BY <1>1, PlaceInvHolds, PTL

-----------------------------------------------------------------------------
(* What the guard is told.                                                 *)

RestOK ==
    /\ begun \in 0 .. world.calls /\ set \in BOOLEAN /\ closed \in BOOLEAN
    /\ stop \in [Calls -> BOOLEAN]
    /\ wire \in [Calls -> {"none", "queued", "sent", "landed", "denied"}]
    /\ answer \in [Calls -> {"none", "success", "definite", "other"}]
    /\ told \in [Calls -> {"none", "sent", "notSent", "refused", "unknown"}]

\* An answer says what ChurchTools did and is there only while its call reads
\* it; what was told stands only while the call is over.
ToldInv ==
    /\ RestOK
    /\ \A c \in Calls :
        /\ answer[c] = "success"  => wire[c] = "landed"
        /\ answer[c] = "definite" => wire[c] = "denied"
        /\ answer[c] # "none" => pc[c] \in {"body", "failed"}
        /\ told[c] # "none" => pc[c] \in Free
    /\ ToldAsItWas

LEMMA ToldInvInit == Init => ToldInv
<1> SUFFICES ASSUME Init PROVE ToldInv
  OBVIOUS
<1>1. world.calls \in Nat
  BY RequestsAssumption DEF Init
<1>2. RestOK
  <2>1. begun \in 0 .. world.calls
    BY <1>1 DEF Init
  <2>2. set \in BOOLEAN /\ closed \in BOOLEAN /\ stop \in [Calls -> BOOLEAN]
    BY DEF Init
  <2>3. /\ wire \in [Calls -> {"none", "queued", "sent", "landed", "denied"}]
        /\ answer \in [Calls -> {"none", "success", "definite", "other"}]
        /\ told \in [Calls -> {"none", "sent", "notSent", "refused", "unknown"}]
    BY DEF Init
  <2> QED
    BY <2>1, <2>2, <2>3 DEF RestOK
<1> QED
  BY <1>2 DEF Init, ToldInv, ToldAsItWas

LEMMA ToldInvNext == RunInv /\ PlaceInv /\ ToldInv /\ [Next]_vars => ToldInv'
<1> SUFFICES ASSUME RunInv, PlaceInv, ToldInv, [Next]_vars PROVE ToldInv'
  OBVIOUS
<1>0. pc \in [Calls -> Free \cup Holding \cup {"waiting", "stopped"}]
  BY DEF PlaceInv
<1> USE DEF ToldInv, RestOK, ToldAsItWas, Free
<1>1. ASSUME NEW c \in Calls, NotEntered(c) \/ RefusedTarget(c) \/ Enter(c)
      PROVE  ToldInv'
  <2>1. world.calls \in Nat /\ world' = world
    BY <1>1, RequestsAssumption DEF RunInv, NotEntered, RefusedTarget, Enter, Begin
  <2>2. /\ pc[c] \in Free /\ begun < world.calls /\ begun' = begun + 1
        /\ UNCHANGED <<set, answer, closed>>
        /\ stop' = [stop EXCEPT ![c] = FALSE]
        /\ wire' = [wire EXCEPT ![c] = "none"]
    BY <1>1 DEF NotEntered, RefusedTarget, Enter, Begin
  <2>3. PICK p \in {"done", "placed", "waiting"}, k \in {"none", "notSent", "unknown"} :
          /\ pc' = [pc EXCEPT ![c] = p] /\ told' = [told EXCEPT ![c] = k]
          /\ k # "none" => p = "done"
    BY <1>1 DEF NotEntered, RefusedTarget, Enter, Goto, Told
  <2> QED
    BY <1>0, <2>1, <2>2, <2>3
<1>2. ASSUME NEW c \in Calls, Stops(c) PROVE ToldInv'
  <2>1. pc' = pc \/ (pc[c] = "waiting" /\ pc' = [pc EXCEPT ![c] = "stopped"])
    BY <1>2 DEF Stops, Goto
  <2>2. stop' = [stop EXCEPT ![c] = TRUE]
        /\ UNCHANGED <<world, begun, set, closed, wire, answer, told>>
    BY <1>2 DEF Stops, clocks, remote
  <2> QED
    BY <1>0, <2>1, <2>2
<1>3. ASSUME NEW c \in Calls, Dispatch(c) \/ BodyFails(c) \/ Breaks(c)
      PROVE  ToldInv'
  BY <1>0, <1>3 DEF Dispatch, BodyFails, Breaks, Goto, clocks, remote
<1>4. ASSUME NEW c \in Calls, Headers(c) PROVE ToldInv'
  BY <1>0, <1>4 DEF Headers, Goto, clocks
<1>5. ASSUME NEW c \in Calls, NEW kind \in {"sent", "refused", "unknown"},
             Ends(c, kind), pc[c] \notin Free \cup {"waiting"},
             kind = "sent" => answer[c] = "success",
             kind = "refused" => answer[c] = "definite"
      PROVE  ToldInv'
  <2>1. /\ told' = [told EXCEPT ![c] = kind]
        /\ answer' = [answer EXCEPT ![c] = "none"]
        /\ stop' = [stop EXCEPT ![c] = FALSE]
        /\ UNCHANGED <<world, begun, set, wire, closed>>
    BY <1>5 DEF Ends, Told, clocks
  <2>2. /\ pc'[c] = "done"
        /\ \A d \in Calls : d # c => pc'[d] = pc[d] \/ pc[d] = "waiting"
    <3>1. \A d \in Handed : pc[d] = "waiting"
      BY DEF Handed, PlaceInv, Queued
    <3> QED
      BY <1>0, <1>5, <3>1 DEF Ends, Goto
  <2> QED
    BY <1>0, <1>5, <2>1, <2>2
<1>6. ASSUME NEW c \in Calls, StopEnds(c) \/ Failed(c) \/ Answered(c)
      PROVE  ToldInv'
  BY <1>5, <1>6 DEF StopEnds, Failed, Answered
<1>7. ASSUME NEW c \in Calls, Connects(c) \/ Lands(c) PROVE ToldInv'
  BY <1>0, <1>7 DEF Connects, Lands, clocks
<1>8. CASE Close \/ Tick \/ SetClock \/ WatchNow \/ UNCHANGED vars
  BY <1>8 DEF Close, Tick, SetClock, WatchNow, vars, clocks, remote
<1> QED
  BY <1>1, <1>2, <1>3, <1>4, <1>6, <1>7, <1>8 DEF Next, Own

LEMMA ToldInvHolds == Spec => []ToldInv
BY ToldInvInit, ToldInvNext, RunInvHolds, PlaceInvHolds, PTL DEF Spec

\* What the guard is told of a write is so, and stays so (failureOf and the
\* categories of the transport).
THEOREM ToldHolds == Spec => []ToldAsItWas
<1>1. ToldInv => ToldAsItWas
  BY DEF ToldInv
<1> QED
  BY <1>1, ToldInvHolds, PTL

\* Every variable has its type, the places taken are never more than there are
\* connections, and the bucket is never over its capacity.
THEOREM TypeCorrect == Spec => []TypeOK
<1>1. RunInv /\ PlaceInv /\ ToldInv => TypeOK
  BY DEF RunInv, BucketInv, PlaceInv, Queued, ToldInv, RestOK, TypeOK
<1> QED
  BY <1>1, RunInvHolds, PlaceInvHolds, ToldInvHolds, PTL
=============================================================================
