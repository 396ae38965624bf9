------------------------------ MODULE Requests ------------------------------
(***************************************************************************)
(* One write on its way to ChurchTools and back:                           *)
(*                                                                         *)
(*   packages/core/src/churchtools/request.ts   enter, sendWrite           *)
(*   packages/core/src/http/transport.ts        the places and `send`      *)
(*   packages/core/src/http/failure.ts          the category of a failure  *)
(*   packages/core/src/write/calendar-plan.ts   failureOf, what the guard  *)
(*                                              makes of the error         *)
(*                                                                         *)
(* Calls run side by side in one process: what runs between two awaits is  *)
(* one step.  The agent of undici and ChurchTools are as the transport     *)
(* uses them: a request waits in the agent for a connection, goes out      *)
(* once, and may have its effect without an answer.  A read goes the same  *)
(* way and has none.                                                       *)
(***************************************************************************)
EXTENDS TokenBucket, Sequences, FiniteSets

CONSTANTS
    Calls,          \* calls that may run at the same time
    Connections,    \* limits.connections
    Worlds          \* bounds: calls and changes of the clock in all

ASSUME RequestsAssumption ==
    /\ IsFiniteSet(Calls)
    /\ Connections \in Nat \ {0}
    /\ \A w \in Worlds :
        /\ w.calls \in Nat /\ w.ticks \in Nat /\ w.sets \subseteq Int
        /\ w.made \subseteq Calls /\ w.fails \subseteq {NoTime}

VARIABLES
    world,      \* bounds: how many calls there are, by whom, how many ticks
                \* pass, what the clock is set to once, whether it fails
    begun,      \* calls so far
    set,        \* whether the clock was set
    busy,       \* places taken
    waiting,    \* calls that wait for a place, in their order
    pc,         \* where each call is
    stop,       \* its controller has aborted
    wire,       \* its request: not sent, in the agent, sent, or what
                \* ChurchTools made of it
    answer,     \* the answer that came back
    told,       \* how the send ended for the guard (SendOutcome)
    closed      \* the transport was closed

clocks == <<clock, bucket, window, set>>
places == <<busy, waiting>>
remote == <<wire, answer>>
vars   == <<world, begun, clocks, places, pc, stop, remote, told, closed>>

Free    == {"idle", "done"}
Holding == {"placed", "request", "body", "failed"}

TypeOK ==
    /\ BucketTypeOK
    /\ world \in Worlds /\ begun \in 0 .. world.calls /\ set \in BOOLEAN
    /\ busy \in 0 .. Connections
    /\ waiting \in Seq(Calls)
    /\ pc \in [Calls -> Free \cup Holding \cup {"waiting", "stopped"}]
    /\ stop \in [Calls -> BOOLEAN]
    /\ wire \in [Calls -> {"none", "queued", "sent", "landed", "denied"}]
    /\ answer \in [Calls -> {"none", "success", "definite", "other"}]
    /\ told \in [Calls -> {"none", "sent", "notSent", "refused", "unknown"}]
    /\ closed \in BOOLEAN

Init ==
    /\ BucketInit /\ set = FALSE
    /\ world \in Worlds /\ begun = 0
    /\ busy = 0 /\ waiting = <<>>
    /\ pc = [c \in Calls |-> "idle"]
    /\ stop = [c \in Calls |-> FALSE]
    /\ wire = [c \in Calls |-> "none"]
    /\ answer = [c \in Calls |-> "none"]
    /\ told = [c \in Calls |-> "none"]
    /\ closed = FALSE

Goto(c, step) == pc' = [pc EXCEPT ![c] = step]
Told(c, kind) == told' = [told EXCEPT ![c] = kind]
NoClock == UNCHANGED <<clock, window, bucket>>

-----------------------------------------------------------------------------
(* The start of a call, up to its first await: the tenant, the throttle,   *)
(* the checks of the transport, and a place or the queue.                  *)

Readings == {clock} \cup world.fails

Begin(c) ==
    /\ c \in world.made /\ begun < world.calls
    /\ pc[c] \in Free /\ wire[c] \notin {"queued", "sent"}
    /\ begun' = begun + 1
    /\ stop' = [stop EXCEPT ![c] = FALSE]
    /\ wire' = [wire EXCEPT ![c] = "none"]
    /\ UNCHANGED <<world, set, answer, closed>>

\* The context is of another tenant, the throttle has no place, or the signal
\* of the caller has aborted before.
NotEntered(c) ==
    /\ Begin(c)
    /\ NoClock \/ \E r \in Readings : Refuse(r) \/ Take(r)
    /\ Goto(c, "done") /\ Told(c, "unknown")
    /\ UNCHANGED places

\* A target, a body or a limit the transport refuses before any socket.
RefusedTarget(c) ==
    /\ Begin(c) /\ \E r \in Readings : Take(r)
    /\ Goto(c, "done") /\ Told(c, "notSent")
    /\ UNCHANGED places

\* A place is free, or the call goes to the end of the queue.
Enter(c) ==
    /\ Begin(c) /\ \E r \in Readings : Take(r)
    /\ IF busy < Connections
         THEN busy' = busy + 1 /\ Goto(c, "placed") /\ UNCHANGED waiting
         ELSE waiting' = Append(waiting, c) /\ Goto(c, "waiting") /\ UNCHANGED busy
    /\ Told(c, "none")

-----------------------------------------------------------------------------
(* Aborts: the signal of the caller and the own deadline both abort the    *)
(* controller of the call.  In the queue that takes the call out at once.  *)

Spliced(s, i) == [j \in 1 .. Len(s) - 1 |-> IF j < i THEN s[j] ELSE s[j + 1]]

\* Mutant: a call that waits stays in the queue.
StopsInQueue(c) ==
    /\ pc[c] \notin Free /\ ~stop[c]
    /\ stop' = [stop EXCEPT ![c] = TRUE]
    /\ UNCHANGED waiting
    /\ IF pc[c] = "waiting" THEN Goto(c, "stopped") ELSE UNCHANGED pc
    /\ UNCHANGED <<world, begun, clocks, busy, remote, told, closed>>

Stops(c) ==
    /\ pc[c] \notin Free /\ ~stop[c]
    /\ stop' = [stop EXCEPT ![c] = TRUE]
    /\ IF pc[c] = "waiting"
         THEN /\ \E i \in DOMAIN waiting :
                    waiting[i] = c /\ waiting' = Spliced(waiting, i)
              /\ Goto(c, "stopped")
         ELSE UNCHANGED <<waiting, pc>>
    /\ UNCHANGED <<world, begun, clocks, busy, remote, told, closed>>

-----------------------------------------------------------------------------
(* From its place on: the request, the answer, and the place it gives on.  *)

\* leave: the place goes to the first call that waits, or is free.
Leave ==
    IF waiting = <<>> THEN busy' = busy - 1 /\ UNCHANGED waiting
    ELSE waiting' = Tail(waiting) /\ UNCHANGED busy

Handed == IF waiting = <<>> THEN {} ELSE {Head(waiting)}

\* The call ends: its place, if it has one, goes on, and the guard has the
\* outcome of its send.
Ends(c, kind) ==
    /\ Told(c, kind)
    /\ IF pc[c] \in Holding
         THEN /\ Leave
              /\ pc' = [d \in Calls |-> IF d = c THEN "done"
                                        ELSE IF d \in Handed THEN "placed" ELSE pc[d]]
         ELSE UNCHANGED places /\ Goto(c, "done")
    /\ answer' = [answer EXCEPT ![c] = "none"]
    /\ stop' = [stop EXCEPT ![c] = FALSE]
    /\ UNCHANGED <<world, begun, clocks, wire, closed>>

\* The request goes to the agent: one that is closed takes none, nor one
\* whose signal has aborted.
Dispatch(c) ==
    /\ pc[c] = "placed"
    /\ IF closed \/ stop[c]
         THEN Goto(c, "failed") /\ UNCHANGED wire
         ELSE Goto(c, "request") /\ wire' = [wire EXCEPT ![c] = "queued"]
    /\ UNCHANGED <<world, begun, clocks, places, stop, answer, told, closed>>

\* Mutant: the call waits until the agent took the abort.
StopWaits(c) ==
    /\ stop[c] /\ pc[c] \in {"stopped", "request", "body"}
    /\ wire[c] # "queued"
    /\ Ends(c, "unknown")

\* An abort ends the call wherever it waits: in the queue, in the race of the
\* answer with `stopped`, or in the body, which undici breaks off.
StopEnds(c) ==
    /\ stop[c] /\ pc[c] \in {"stopped", "request", "body"}
    /\ Ends(c, "unknown")

\* The headers are in: an answer that is not taken fails the call.
Headers(c) ==
    /\ pc[c] = "request" /\ wire[c] \in {"landed", "denied"}
    /\ \/ \E a \in {IF wire[c] = "landed" THEN "success" ELSE "definite", "other"} :
            answer' = [answer EXCEPT ![c] = a] /\ Goto(c, "body")
       \/ Goto(c, "failed") /\ UNCHANGED answer
    /\ UNCHANGED <<world, begun, clocks, places, stop, wire, told, closed>>

\* The body breaks off, comes too late or is too large.
BodyFails(c) ==
    /\ pc[c] = "body"
    /\ Goto(c, "failed")
    /\ UNCHANGED <<world, begun, clocks, places, stop, remote, told, closed>>

\* Mutant: without an answer the write counts as not sent.
FailedNotSent(c) ==
    /\ pc[c] = "failed"
    /\ Ends(c, IF answer[c] = "none" THEN "notSent" ELSE "unknown")

\* A failure of the network or of the answer has a category other than
\* refused: the write may have its effect.
Failed(c) ==
    /\ pc[c] = "failed"
    /\ Ends(c, "unknown")

\* The whole answer is there.  Success, unless its body is not what was asked
\* for; a refusal of ChurchTools; any other status says nothing.
Answered(c) ==
    /\ pc[c] = "body"
    /\ \/ answer[c] = "success" /\ (Ends(c, "sent") \/ Ends(c, "unknown"))
       \/ answer[c] = "definite" /\ Ends(c, "refused")
       \/ answer[c] = "other" /\ Ends(c, "unknown")

-----------------------------------------------------------------------------
(* The agent and ChurchTools.                                              *)

OnConnection == {c \in Calls : pc[c] \in {"request", "body"}
                               /\ wire[c] \in {"sent", "landed", "denied"}}

\* A connection takes the request, or drops one that was aborted.
Connects(c) ==
    /\ wire[c] = "queued" /\ Cardinality(OnConnection) < Connections
    /\ wire' = [wire EXCEPT ![c] = IF ~stop[c] /\ pc[c] = "request"
                                   THEN "sent" ELSE "none"]
    /\ UNCHANGED <<world, begun, clocks, places, pc, stop, answer, told,
                   closed>>

\* ChurchTools does what it was asked for or refuses it, also long after the
\* call has ended; or it never gets it.
Lands(c) ==
    /\ wire[c] = "sent"
    /\ \E w \in {"landed", "denied"} : wire' = [wire EXCEPT ![c] = w]
    /\ UNCHANGED <<world, begun, clocks, places, pc, stop, answer, told,
                   closed>>

\* No connection, or it breaks before the headers: the request is not written
\* a second time.
Breaks(c) ==
    /\ pc[c] = "request"
    /\ Goto(c, "failed")
    /\ wire' = [wire EXCEPT ![c] = IF @ = "queued" THEN "none" ELSE @]
    /\ UNCHANGED <<world, begun, clocks, places, stop, answer, told, closed>>

\* The end of the server, or of a command: running calls go on.
Close ==
    /\ ~closed /\ closed' = TRUE
    /\ UNCHANGED <<world, begun, clocks, places, pc, stop, remote, told>>

Tick ==
    /\ clock < world.ticks /\ ClockTo(clock + 1)
    /\ UNCHANGED <<world, begun, set, places, pc, stop, remote, told, closed>>

SetClock ==
    /\ ~set /\ set' = TRUE
    /\ \E t \in world.sets : ClockTo(t)
    /\ UNCHANGED <<world, begun, places, pc, stop, remote, told, closed>>

WatchNow ==
    /\ Watch
    /\ UNCHANGED <<world, begun, set, places, pc, stop, remote, told, closed>>

Own(c) == Dispatch(c) \/ StopEnds(c) \/ Failed(c) \/ Answered(c)

Next ==
    \/ \E c \in Calls :
        \/ NotEntered(c) \/ RefusedTarget(c) \/ Enter(c)
        \/ Stops(c) \/ Own(c)
        \/ Headers(c) \/ BodyFails(c)
        \/ Connects(c) \/ Lands(c) \/ Breaks(c)
    \/ Close \/ Tick \/ SetClock \/ WatchNow

Spec == Init /\ [][Next]_vars

\* The timer of a call fires, and what runs in the process goes on.  Neither
\* the agent, nor the network, nor ChurchTools need ever answer.
FairSpec ==
    /\ Spec
    /\ \A c \in Calls : WF_vars(Stops(c)) /\ WF_vars(Own(c))

-----------------------------------------------------------------------------
(* Properties.                                                             *)

\* A place is held by a call that is on its way, and by no other; a call waits
\* only while all are taken: no place is lost with a call that was aborted
\* while it waited or was just handed one, and none is given to two.
PlacesHold ==
    /\ busy = Cardinality({c \in Calls : pc[c] \in Holding})
    /\ {waiting[i] : i \in DOMAIN waiting} = {c \in Calls : pc[c] = "waiting"}
    /\ waiting # <<>> => busy = Connections

\* What the guard is told holds, and goes on to hold after the call: not sent
\* means that nothing left, refused that ChurchTools did nothing, and sent
\* that it did.  Whatever else went out may have its effect.
ToldAsItWas == \A c \in Calls :
    /\ told[c] = "notSent" => wire[c] = "none"
    /\ told[c] = "refused" => wire[c] = "denied"
    /\ told[c] = "sent"    => wire[c] = "landed"

\* Every call ends by its deadline at the latest, wherever it waits, though
\* no connection and no answer ever comes (docs/adr/0056 on the deadline).
EveryCallEnds == \A c \in Calls : pc[c] \notin Free ~> pc[c] \in Free
=============================================================================
