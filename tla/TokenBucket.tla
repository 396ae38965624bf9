---------------------------- MODULE TokenBucket ----------------------------
(***************************************************************************)
(* The throttle of the requests to one ChurchTools instance:               *)
(* packages/core/src/throttle/token-bucket.ts.                             *)
(*                                                                         *)
(* A call takes a place or is told how long to wait.  The clock is the     *)
(* clock of the computer: it may be set back or ahead, and a reading of it *)
(* may fail.  Ticks are the smallest step of time here; in the code they   *)
(* are milliseconds.                                                       *)
(***************************************************************************)
EXTENDS Integers

CONSTANTS
    Rate,       \* requestsPerMinute
    Minute,     \* ticks of a minute
    Second,     \* ticks of a second
    NoTime      \* no reading of the clock

ASSUME BucketAssumption ==
    /\ Rate \in Nat \ {0} /\ Minute \in Nat \ {0} /\ Second \in Nat \ {0}
    /\ NoTime \notin Int

VARIABLES
    clock,      \* the clock as it stands
    credit,     \* what the bucket holds
    last,       \* the last reading it counted, or NoTime
    due,        \* history: when the wait told last is over, or NoTime
    peak,       \* history: the largest reading so far, or NoTime
    since,      \* history: the reading a window of time began with
    given       \* history: places given in that window

bucket == <<credit, last>>
window == <<due, peak, since, given>>

\* Each place costs a minute, each tick adds the rate.
costOfRequest == Minute
CeilDiv(a, b) == (a + b - 1) \div b
capacity == CeilDiv(Rate, 6) * costOfRequest

BucketTypeOK ==
    /\ clock \in Int
    /\ credit \in 0 .. capacity
    /\ last \in Int \cup {NoTime}
    /\ due \in Int \cup {NoTime}
    /\ peak \in Int \cup {NoTime}
    /\ since \in Int \cup {NoTime}
    /\ given \in Nat

\* The bucket starts full, and the window with it.
BucketInit ==
    /\ clock = 0
    /\ credit = capacity /\ last = NoTime
    /\ due = NoTime /\ peak = NoTime /\ since = NoTime /\ given = 0

-----------------------------------------------------------------------------
(* refill and take.                                                        *)

\* Mutant: what the bucket holds has no bound.
Overfilled(r) ==
    IF r = NoTime \/ last = NoTime \/ r < last THEN credit
    ELSE credit + (r - last) * Rate

\* What the bucket holds after a reading: it fills to its capacity and no
\* further, and not at all on a clock that failed or runs back.
Refilled(r) ==
    IF r = NoTime \/ last = NoTime \/ r < last THEN credit
    ELSE LET sum == credit + (r - last) * Rate IN
         IF sum < capacity THEN sum ELSE capacity

Latest(t, r) ==
    IF r = NoTime THEN t ELSE IF t = NoTime \/ t < r THEN r ELSE t

Refill(r) ==
    /\ last' = Latest(last, r)
    /\ peak' = Latest(peak, r)
    /\ since' = IF since = NoTime THEN Latest(peak, r) ELSE since

\* A place is taken.
Take(r) ==
    /\ Refilled(r) >= costOfRequest
    /\ credit' = Refilled(r) - costOfRequest
    /\ Refill(r)
    /\ due' = NoTime
    /\ given' = given + 1
    /\ UNCHANGED clock

\* Whole seconds until the next place, at least one.
waitSeconds(held) == CeilDiv(costOfRequest - held, Rate * Second)

\* There is none: the call is told how long to wait, as far as the clock goes
\* on from what the bucket counted last.
Refuse(r) ==
    /\ Refilled(r) < costOfRequest
    /\ credit' = Refilled(r)
    /\ Refill(r)
    /\ due' = IF r # NoTime /\ r = last'
              THEN r + Second * waitSeconds(credit') ELSE NoTime
    /\ UNCHANGED <<clock, given>>

-----------------------------------------------------------------------------
(* The clock, and where the window begins that is looked at.               *)

\* Time goes on, or the clock is set.
ClockTo(t) ==
    /\ clock' = t
    /\ UNCHANGED <<bucket, window>>

\* From here on places are counted: the window may begin at any reading.
Watch ==
    /\ since # peak
    /\ since' = peak /\ given' = 0
    /\ UNCHANGED <<clock, bucket, due, peak>>

-----------------------------------------------------------------------------
(* Properties.                                                             *)

\* In any stretch of time, between the readings of the clock, no more places
\* are given than the bucket holds and the rate allows, also when the clock is
\* set back, comes again to the same time, or jumps far ahead.
NeverOverRate ==
    given * costOfRequest <=
        capacity + (IF peak = NoTime \/ since = NoTime THEN 0
                    ELSE (peak - since) * Rate)

\* When the wait a call was told is over, by the clock, there is a place, as
\* long as no other call took it.
WaitSuffices ==
    due # NoTime /\ clock >= due => Refilled(clock) >= costOfRequest
=============================================================================
