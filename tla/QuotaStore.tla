----------------------------- MODULE QuotaStore -----------------------------
(***************************************************************************)
(* The file store of quotas, packages/core/src/quota/file-store.ts: one    *)
(* file of counters, changed under a lock file by several processes.       *)
(*                                                                         *)
(* One action is one call of the file system another process can see.      *)
(* Within a process the changes run one after the other (`serial`), and    *)
(* everything between two such calls is synchronous.  Time is kept as      *)
(* ages: the age of each lock file and the time a call has waited, both    *)
(* counted in ticks and only up to the age that decides something.         *)
(*                                                                         *)
(* The names of its specification begin with Store, so that a module can   *)
(* extend it together with ToolCall, which asks this store for its budget. *)
(***************************************************************************)
EXTENDS Naturals, FiniteSets

CONSTANTS
    Procs,          \* processes that share the folder of state
    Keys,           \* the counters asked for in one file
    MaxKeys,        \* the counters one file holds (maxApprovalKeys and others)
    LockWait,       \* ticks a call waits for the lock (lockWaitMs)
    OrphanAge,      \* a lock older than this was left behind (orphanLockMs)
    None,           \* no file, no lock
    MaxCalls,       \* bound: calls of all processes together
    LeftBehind,     \* TRUE: a lock of an earlier process may lie at the start
    Worlds          \* bounds: what may happen around the calls

ASSUME BoundsAssumption ==
    /\ IsFiniteSet(Procs)
    /\ MaxKeys \in Nat \ {0} /\ LockWait \in Nat \ {0}
    /\ OrphanAge \in Nat \ {0}
    /\ MaxCalls \in Nat /\ LeftBehind \in BOOLEAN
    /\ \A w \in Worlds :
        /\ w.prompt \in BOOLEAN /\ w.fails \in BOOLEAN
        /\ w.crashes \in Nat /\ w.keys \subseteq Keys

\* What tells one lock file from another: device, inode and time of the last
\* change when a lock is judged, and the random ID in its bytes when it is
\* removed.  Enough names that one is always free: a process can hold on to
\* three, and one lies at the path.
LockIds == 1 .. 3 * Cardinality(Procs) + 2

ASSUME NoneAssumption == None \notin LockIds

VARIABLES
    world,      \* whether no process holds a lock longer than OrphanAge,
                \* whether calls of the file system on a lock fail, how many
                \* crashes there are, and the counters asked for
    lockFile,   \* the lock file at its path, or None
    age,        \* [LockIds -> 0..OrphanAge+1], the age of a lock file
    counts,     \* [Keys -> Nat], the file of counters
    at,         \* where each process is inside `increment`
    key,        \* the counter a call adds to
    attempt,    \* whether the loop of `lock` ran before
    waited,     \* ticks since the call asked for the lock, up to LockWait
    mine,       \* the lock a process made (HeldLock), or None
    judged,     \* the lock a process saw and found too old (`held`), or None
    aside,      \* the lock a process moved aside, under a name of its own
    seen,       \* the counters a process read under its lock
    answered,   \* what the last call of a process answered; 0 is a failure
    calls,      \* calls so far
    crashes,    \* crashes so far
    renamed     \* history: [Keys -> Nat], changes written so far

fileVars  == <<lockFile, age, counts>>
localVars == <<at, key, attempt, waited, mine, judged, aside, seen, answered>>
storeVars == <<world, fileVars, localVars, calls, crashes, renamed>>

Old == OrphanAge + 1

\* A name for a lock file nobody refers to.
FreeId == CHOOSE i \in LockIds :
            /\ i # lockFile
            /\ \A p \in Procs : i \notin {mine[p], judged[p], aside[p]}

Steps == {"idle", "open", "verify", "unmake", "look", "takeover", "inspect",
          "putback", "drop", "read", "write", "unlock", "remove"}

StoreTypeOK ==
    /\ world \in Worlds
    /\ lockFile \in LockIds \cup {None}
    /\ age \in [LockIds -> 0 .. Old]
    /\ counts \in [Keys -> Nat]
    /\ at \in [Procs -> Steps]
    /\ key \in [Procs -> Keys]
    /\ attempt \in [Procs -> BOOLEAN]
    /\ waited \in [Procs -> 0 .. LockWait]
    /\ mine \in [Procs -> LockIds \cup {None}]
    /\ judged \in [Procs -> LockIds \cup {None}]
    /\ aside \in [Procs -> LockIds \cup {None}]
    /\ seen \in [Procs -> [Keys -> Nat]]
    /\ answered \in [Procs -> Nat]
    /\ calls \in 0 .. MaxCalls
    /\ crashes \in 0 .. world.crashes
    /\ renamed \in [Keys -> Nat]

NoCounts == [k \in Keys |-> 0]

StoreInit ==
    /\ world \in Worlds
    /\ lockFile \in IF LeftBehind THEN {None, 1} ELSE {None}
    /\ age = [i \in LockIds |-> 0]
    /\ counts = NoCounts
    /\ at = [p \in Procs |-> "idle"]
    /\ key \in {[p \in Procs |-> k] : k \in world.keys}
    /\ attempt = [p \in Procs |-> FALSE]
    /\ waited = [p \in Procs |-> 0]
    /\ mine = [p \in Procs |-> None]
    /\ judged = [p \in Procs |-> None]
    /\ aside = [p \in Procs |-> None]
    /\ seen = [p \in Procs |-> NoCounts]
    /\ answered = [p \in Procs |-> 0]
    /\ calls = 0
    /\ crashes = 0
    /\ renamed = NoCounts

Reach(p, step) == at' = [at EXCEPT ![p] = step]

\* The loop of `lock` starts over.
Retry(p) ==
    /\ Reach(p, "open")
    /\ attempt' = [attempt EXCEPT ![p] = TRUE]

\* The call ends without a count; a lock this process still has is forgotten.
Fail(p) ==
    /\ Reach(p, "idle")
    /\ answered' = [answered EXCEPT ![p] = 0]
    /\ mine' = [mine EXCEPT ![p] = None]

-----------------------------------------------------------------------------
(* increment: the call and its lock.                                       *)

Start(p) ==
    /\ at[p] = "idle" /\ calls < MaxCalls
    /\ \E k \in world.keys : key' = [key EXCEPT ![p] = k]
    /\ Reach(p, "open")
    /\ calls' = calls + 1
    /\ attempt' = [attempt EXCEPT ![p] = FALSE]
    /\ waited' = [waited EXCEPT ![p] = 0]
    /\ answered' = [answered EXCEPT ![p] = 0]
    /\ UNCHANGED <<world, fileVars, mine, judged, aside, seen, crashes,
                   renamed>>

TooLate(p) == attempt[p] /\ waited[p] >= LockWait

\* The deadline is met before another attempt.
GiveUp(p) ==
    /\ at[p] = "open" /\ TooLate(p)
    /\ Fail(p)
    /\ UNCHANGED <<world, fileVars, key, attempt, waited, judged, aside, seen,
                   calls, crashes, renamed>>

\* O_EXCL makes the lock file when there is none.
MakeLock(p) ==
    /\ at[p] = "open" /\ ~TooLate(p) /\ lockFile = None
    /\ lockFile' = FreeId
    /\ age' = [age EXCEPT ![FreeId] = 0]
    /\ mine' = [mine EXCEPT ![p] = FreeId]
    /\ Reach(p, "verify")
    /\ UNCHANGED <<world, counts, key, attempt, waited, judged, aside, seen,
                   answered, calls, crashes, renamed>>

FindLock(p) ==
    /\ at[p] = "open" /\ ~TooLate(p) /\ lockFile # None
    /\ Reach(p, "look")
    /\ UNCHANGED <<world, fileVars, key, attempt, waited, mine, judged, aside,
                   seen, answered, calls, crashes, renamed>>

\* The new lock is written, and must still be what its path leads to
\* (samePlace).
VerifyLock(p) ==
    /\ at[p] = "verify"
    /\ \/ Reach(p, IF lockFile = mine[p] THEN "read" ELSE "unmake")
       \/ world.fails /\ Reach(p, "unmake")
    /\ UNCHANGED <<world, fileVars, key, attempt, waited, mine, judged, aside,
                   seen, answered, calls, crashes, renamed>>

\* It is not: whatever lies at the path is unlinked, and the call fails.
UnmakeLock(p) ==
    /\ at[p] = "unmake"
    /\ lockFile' = None
    /\ Fail(p)
    /\ UNCHANGED <<world, age, counts, key, attempt, waited, judged, aside,
                   seen, calls, crashes, renamed>>

-----------------------------------------------------------------------------
(* A lock of another process: wait, or clear one that was left behind.     *)

\* Mutant: a lock that is gone is looked for again, not made.
LookGoneAgain(p) ==
    /\ at[p] = "look" /\ lockFile = None
    /\ attempt' = [attempt EXCEPT ![p] = TRUE]
    /\ UNCHANGED <<world, fileVars, at, key, waited, mine, judged, aside, seen,
                   answered, calls, crashes, renamed>>

\* lstat of the lock.  Gone: at once again.  Too old: it is cleared.
\* Otherwise the process sleeps, and other steps can come in between.
LookGone(p) ==
    /\ at[p] = "look" /\ lockFile = None
    /\ Retry(p)
    /\ UNCHANGED <<world, fileVars, key, waited, mine, judged, aside, seen,
                   answered, calls, crashes, renamed>>

LookFresh(p) ==
    /\ at[p] = "look" /\ lockFile # None
    /\ age[lockFile] <= OrphanAge
    /\ Retry(p)
    /\ UNCHANGED <<world, fileVars, key, waited, mine, judged, aside, seen,
                   answered, calls, crashes, renamed>>

LookOld(p) ==
    /\ at[p] = "look" /\ lockFile # None
    /\ age[lockFile] > OrphanAge
    /\ judged' = [judged EXCEPT ![p] = lockFile]
    /\ Reach(p, "takeover")
    /\ UNCHANGED <<world, fileVars, key, attempt, waited, mine, aside, seen,
                   answered, calls, crashes, renamed>>

\* rename: whatever lies at the path now moves under a name of this process.
MoveAside(p) ==
    /\ at[p] = "takeover" /\ lockFile # None
    /\ aside' = [aside EXCEPT ![p] = lockFile]
    /\ lockFile' = None
    /\ Reach(p, "inspect")
    /\ UNCHANGED <<world, age, counts, key, attempt, waited, mine, judged, seen,
                   answered, calls, crashes, renamed>>

\* Another process cleared it first.
MoveMissed(p) ==
    /\ at[p] = "takeover" /\ lockFile = None
    /\ judged' = [judged EXCEPT ![p] = None]
    /\ Retry(p)
    /\ UNCHANGED <<world, fileVars, key, waited, mine, aside, seen, answered,
                   calls, crashes, renamed>>

\* Mutant: what was moved aside is dropped without a look.
InspectNothing(p) ==
    /\ at[p] = "inspect"
    /\ Reach(p, "drop")
    /\ UNCHANGED <<world, fileVars, key, attempt, waited, mine, judged, aside,
                   seen, answered, calls, crashes, renamed>>

\* lstat of what was moved: the lock that was judged, or another.
Inspect(p) ==
    /\ at[p] = "inspect"
    /\ Reach(p, IF aside[p] = judged[p] THEN "drop" ELSE "putback")
    /\ UNCHANGED <<world, fileVars, key, attempt, waited, mine, judged, aside,
                   seen, answered, calls, crashes, renamed>>

\* link, not rename: a lock made in the meantime stays.
PutBack(p) ==
    /\ at[p] = "putback"
    /\ lockFile' = IF lockFile = None THEN aside[p] ELSE lockFile
    /\ Reach(p, "drop")
    /\ UNCHANGED <<world, age, counts, key, attempt, waited, mine, judged,
                   aside, seen, answered, calls, crashes, renamed>>

Drop(p) ==
    /\ at[p] = "drop"
    /\ aside' = [aside EXCEPT ![p] = None]
    /\ judged' = [judged EXCEPT ![p] = None]
    /\ Retry(p)
    /\ UNCHANGED <<world, fileVars, key, waited, mine, seen, answered, calls,
                   crashes, renamed>>

\* A call of the file system fails in another way than by the lock's being
\* there or gone: the call ends, and a lock moved aside stays aside.
LockFails(p) ==
    /\ world.fails
    /\ at[p] \in {"open", "look", "takeover", "inspect", "putback", "drop"}
    /\ Fail(p)
    /\ judged' = [judged EXCEPT ![p] = None]
    /\ aside' = [aside EXCEPT ![p] = None]
    /\ UNCHANGED <<world, fileVars, key, attempt, waited, seen, calls, crashes,
                   renamed>>

-----------------------------------------------------------------------------
(* The change under the lock.                                              *)

ReadCounts(p) ==
    /\ at[p] = "read"
    /\ seen' = [seen EXCEPT ![p] = counts]
    /\ Reach(p, "write")
    /\ UNCHANGED <<world, fileVars, key, attempt, waited, mine, judged, aside,
                   answered, calls, crashes, renamed>>

\* A file with more counters than MaxKeys is never written.
Counted(f) == {k \in Keys : f[k] > 0}

Fits(p) == Cardinality(Counted(seen[p]) \cup {key[p]}) <= MaxKeys

\* Mutant: what was read is added to what the file holds now.
WriteMerged(p) ==
    LET value == counts[key[p]] + seen[p][key[p]] + 1 IN
    /\ at[p] = "write" /\ Fits(p)
    /\ counts' = [counts EXCEPT ![key[p]] = value]
    /\ renamed' = [renamed EXCEPT ![key[p]] = @ + 1]
    /\ answered' = [answered EXCEPT ![p] = value]
    /\ Reach(p, "unlock")
    /\ UNCHANGED <<world, lockFile, age, key, attempt, waited, mine, judged,
                   aside, seen, calls, crashes>>

\* writeRecord: a file of its own, fsync, and rename over the counters.  The
\* whole file is replaced by what was read, one counter higher.
WriteCounts(p) ==
    LET value == seen[p][key[p]] + 1 IN
    /\ at[p] = "write" /\ Fits(p)
    /\ counts' = [seen[p] EXCEPT ![key[p]] = value]
    /\ renamed' = [renamed EXCEPT ![key[p]] = @ + 1]
    /\ answered' = [answered EXCEPT ![p] = value]
    /\ Reach(p, "unlock")
    /\ UNCHANGED <<world, lockFile, age, key, attempt, waited, mine, judged,
                   aside, seen, calls, crashes>>

\* The file system refuses, or the file would hold too many counters; the
\* lock is removed all the same.
WriteFails(p) ==
    /\ at[p] = "write"
    /\ Reach(p, "unlock")
    /\ UNCHANGED <<world, fileVars, key, attempt, waited, mine, judged, aside,
                   seen, answered, calls, crashes, renamed>>

\* unlock compares the lock at the path with its own before it removes it.
\* Another lock stays, and so does one that cannot be read or removed.
Unlock(p) ==
    /\ at[p] = "unlock"
    /\ \/ /\ lockFile = mine[p]
          /\ Reach(p, "remove") /\ UNCHANGED mine
       \/ /\ lockFile # mine[p] \/ world.fails
          /\ Reach(p, "idle") /\ mine' = [mine EXCEPT ![p] = None]
    /\ UNCHANGED <<world, fileVars, key, attempt, waited, judged, aside, seen,
                   answered, calls, crashes, renamed>>

\* The unlink itself names the path, not the file compared.
RemoveLock(p) ==
    /\ at[p] = "remove"
    /\ lockFile' = None
    /\ mine' = [mine EXCEPT ![p] = None]
    /\ Reach(p, "idle")
    /\ UNCHANGED <<world, age, counts, key, attempt, waited, judged, aside,
                   seen, answered, calls, crashes, renamed>>

-----------------------------------------------------------------------------
(* The surroundings: time and crashes.                                     *)

Tick ==
    /\ world.prompt =>
        \A p \in Procs : mine[p] # None => age[mine[p]] < OrphanAge
    /\ age' = [i \in LockIds |-> IF age[i] < Old THEN age[i] + 1 ELSE Old]
    /\ waited' = [p \in Procs |->
                    IF waited[p] < LockWait THEN waited[p] + 1 ELSE LockWait]
    /\ UNCHANGED <<world, lockFile, counts, at, key, attempt, mine, judged,
                   aside, seen, answered, calls, crashes, renamed>>

\* A process ends at any step and is started again: its lock, and a lock it
\* moved aside, stay in the folder.
Crash(p) ==
    /\ at[p] # "idle" /\ crashes < world.crashes
    /\ crashes' = crashes + 1
    /\ Reach(p, "idle")
    /\ mine' = [mine EXCEPT ![p] = None]
    /\ judged' = [judged EXCEPT ![p] = None]
    /\ aside' = [aside EXCEPT ![p] = None]
    /\ answered' = [answered EXCEPT ![p] = 0]
    /\ UNCHANGED <<world, fileVars, key, attempt, waited, seen, calls, renamed>>

Lock(p) ==
    \/ GiveUp(p) \/ MakeLock(p) \/ FindLock(p) \/ VerifyLock(p) \/ UnmakeLock(p)
    \/ LookGone(p) \/ LookFresh(p) \/ LookOld(p)
    \/ MoveAside(p) \/ MoveMissed(p) \/ Inspect(p) \/ PutBack(p) \/ Drop(p)

Change(p) ==
    \/ ReadCounts(p) \/ WriteCounts(p) \/ WriteFails(p)
    \/ Unlock(p) \/ RemoveLock(p)

StoreNext ==
    \/ Tick
    \/ \E p \in Procs :
        Start(p) \/ Lock(p) \/ LockFails(p) \/ Change(p) \/ Crash(p)

StoreSpec == StoreInit /\ [][StoreNext]_storeVars

\* A process that runs goes on, and time passes; no failure is needed for it.
FairSpec ==
    /\ StoreSpec
    /\ WF_storeVars(Tick)
    /\ \A p \in Procs : WF_storeVars(Lock(p) \/ Change(p))

-----------------------------------------------------------------------------
(* Properties.                                                             *)

\* The counters never claim more than was counted: whatever happens to the
\* locks, nobody loses budget, or a decision, to a count nobody made.
NeverOvercounts ==
    /\ \A k \in Keys : counts[k] <= renamed[k]
    /\ \A p \in Procs : answered[p] <= renamed[key[p]]

\* Every call ends, with a count or without, whatever lies at the path of the
\* lock (the comment on `lock`: each path waits, ends or meets the deadline).
EveryCallEnds == \A p \in Procs : at[p] # "idle" ~> at[p] = "idle"

\* Where no process holds a lock too long, none crashes and the file system
\* does not fail, each call of two processes counts at one instant: the store
\* is the counter the port promises.
calm == world.prompt /\ ~world.fails /\ world.crashes = 0
Phase(p) ==
    IF ~calm THEN "idle"
    ELSE IF answered[p] > 0 THEN "counted"
    ELSE IF at[p] \in {"idle", "unlock", "remove"} THEN "idle" ELSE "asked"
Called(p) ==
    [key |-> IF calm THEN key[p] ELSE CHOOSE k \in Keys : TRUE,
     phase |-> Phase(p), value |-> IF calm THEN answered[p] ELSE 0]
Counter == INSTANCE QuotaCounter WITH
    total <- IF calm THEN counts ELSE NoCounts,
    call <- [p \in Procs |-> Called(p)]
CountsOneByOne == Counter!Spec
=============================================================================
