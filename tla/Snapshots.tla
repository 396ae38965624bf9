------------------------------ MODULE Snapshots ------------------------------
(***************************************************************************)
(* The snapshots of writes and the day keys that open them:                *)
(* packages/core/src/snapshots (keeper.ts, file-store.ts, seal.ts),        *)
(* packages/core/src/keys/day-keys.ts, the files under both                *)
(* (files/private-files.ts), and the sweeper of the server with its timer  *)
(* (packages/cli/src/stdio/serve.ts).                                      *)
(*                                                                         *)
(* Several processes share the folder of state and the folder of keys: a   *)
(* server saves and sweeps, a command of the operator saves and loads.     *)
(* Each system call on a shared file is a step, and a process may stop     *)
(* between any two.  A sealed record is the key it was sealed with: it     *)
(* opens with that key and with no other.                                  *)
(***************************************************************************)
EXTENDS Naturals, FiniteSets

CONSTANTS
    Procs,          \* processes over the same folders
    Servers,        \* those that sweep: servers, not commands
    Events,         \* IDs of audit events, one for each write
    Creates,        \* those of writes that create an object
    Retention,      \* snapshotRetentionDays
    MaxDay,         \* bound: the last day that is looked at
    MaxCrashes,     \* bound: processes that stop at any point
    Stuck,          \* bound: entries a sweep may be unable to remove
    None            \* no key, no file, no entry

Days  == 0 .. MaxDay
Parts == (Events \X {"before"}) \cup (Creates \X {"after"})
Lost  == <<"zeros">>    \* what is left of a key under zeros

\* What a sweep removes: records, day keys, and files under temporary names.
Entries == ({"record"} \X Parts) \cup ({"key"} \X Days) \cup ({"temp"} \X (Days \X Parts))

ASSUME SnapshotsAssumption ==
    /\ Servers \subseteq Procs /\ Creates \subseteq Events /\ Retention \in Nat \ {0}
    /\ MaxDay \in Nat /\ MaxCrashes \in Nat
    /\ \A bad \in Stuck : bad \subseteq Entries
    /\ None \notin Parts /\ Lost \notin Parts

VARIABLES
    today,      \* the UTC day, the same for all processes
    keys,       \* the day key of each day: the part it was made for
    temps,      \* keys under temporary names: day and key
    records,    \* the file of each part: its day, its key, and whether whole
    stuck,      \* entries that cannot be removed
    used,       \* IDs of events that a save has taken: none is given twice
    call,       \* the save or the load of each process: its step, part and
                \* day, the day key it holds and that of a part after
    spc,        \* where its sweep is
    cut,        \* the day of that sweep
    todo,       \* entries the sweep still has to remove
    stayed,     \* whether one of them stayed
    swept,      \* the last day swept to the end, or None
    crashes

files == <<keys, temps, records, stuck>>
sweep == <<spc, cut, todo, stayed, swept>>
vars  == <<today, files, used, call, sweep, crashes>>

NoCall == [at |-> "idle", part |-> None, day |-> 0, key |-> None,
           second |-> None]
Ends   == {"missing", "expired", "damaged", "found", "named"}
Calls  == [at : {"down", "idle", "look", "make", "linked", "keep", "kept", "open",
                 "openAfter"} \cup Ends,
           part : Parts \cup {None}, day : Days, key : Parts \cup {None},
           second : Parts \cup {None}]
Record == [day : Days, key : Parts, whole : BOOLEAN]

TypeOK ==
    /\ today \in Days
    /\ keys \in [Days -> Parts \cup {None, Lost}]
    /\ temps \subseteq Days \X Parts
    /\ records \in [Parts -> Record \cup {None}]
    /\ stuck \in Stuck
    /\ used \subseteq Events
    /\ call \in [Procs -> Calls]
    /\ spc \in [Procs -> {"idle", "records", "keys"}]
    /\ cut \in [Procs -> Days]
    /\ todo \in [Procs -> SUBSET Entries]
    /\ stayed \in [Procs -> BOOLEAN]
    /\ swept \in [Procs -> Days \cup {None}]
    /\ crashes \in 0 .. MaxCrashes

Init ==
    /\ today = 0
    /\ keys = [d \in Days |-> None] /\ temps = {}
    /\ records = [x \in Parts |-> None]
    /\ stuck \in Stuck
    /\ used = {}
    /\ call = [p \in Procs |-> NoCall]
    /\ spc = [p \in Procs |-> "idle"] /\ cut = [p \in Procs |-> 0]
    /\ todo = [p \in Procs |-> {}] /\ stayed = [p \in Procs |-> FALSE]
    /\ swept = [p \in Procs |-> None]
    /\ crashes = 0

Become(p, new) == call' = [call EXCEPT ![p] = new]

\* Inside one process a loop over the files, and the making of a key, run
\* without a pause: other work of it waits until they end.
At(p, step) == todo[p] = {} /\ call[p].at = step
Free(p)     == call[p].at \notin {"down", "make", "linked"}

-----------------------------------------------------------------------------
(* Saving a part: sealSnapshot wraps its key with the day key, put keeps   *)
(* the record.  The part after goes under the day of the part before.      *)

SaveBefore(p, e) ==
    /\ At(p, "idle") /\ e \notin used
    /\ Become(p, [NoCall EXCEPT !.at = "look", !.part = <<e, "before">>,
                                !.day = today])
    /\ used' = used \cup {e}
    /\ UNCHANGED <<today, files, sweep, crashes>>

\* The part before is kept, and the write went out: a new object is named in
\* the part after; a change has none, or it could not be kept.
SaveAfter(p) ==
    LET c == call[p] IN
    /\ At(p, "kept")
    /\ \/ /\ c.part[1] \in Creates
          /\ Become(p, [c EXCEPT !.at = "look", !.part = <<c.part[1], "after">>,
                                 !.key = None])
       \/ Become(p, NoCall)
    /\ UNCHANGED <<today, files, used, sweep, crashes>>

\* dayKey finds a key, or writes a fresh one under a temporary name.
LookForKey(p) ==
    LET c == call[p] IN
    /\ At(p, "look") /\ keys[c.day] # Lost
    /\ \/ /\ keys[c.day] = None
          /\ temps' = temps \cup {<<c.day, c.part>>}
          /\ Become(p, [c EXCEPT !.at = "make"])
       \/ /\ keys[c.day] # None
          /\ Become(p, [c EXCEPT !.at = "keep", !.key = keys[c.day]])
          /\ UNCHANGED temps
    /\ UNCHANGED <<today, keys, records, stuck, used, sweep, crashes>>

\* Mutant: the fresh key counts, whether it got the name or not.
NameOrTakeKey(p) ==
    LET c == call[p] IN
    /\ c.at = "make"
    /\ keys' = [keys EXCEPT ![c.day] = IF @ = None THEN c.part ELSE @]
    /\ Become(p, [c EXCEPT !.at = "linked", !.key = c.part])
    /\ UNCHANGED <<today, temps, records, stuck, used, sweep, crashes>>

\* The fresh key gets its name, unless another process named one first.
NameKey(p) ==
    LET c == call[p] IN
    /\ c.at = "make"
    /\ \/ /\ keys[c.day] = None
          /\ keys' = [keys EXCEPT ![c.day] = c.part]
          /\ Become(p, [c EXCEPT !.at = "linked", !.key = c.part])
       \/ /\ keys[c.day] # None
          /\ Become(p, [c EXCEPT !.at = "linked"])
          /\ UNCHANGED keys
    /\ UNCHANGED <<today, temps, records, stuck, used, sweep, crashes>>

\* The temporary name goes, and the key of the other process is read: one
\* that was destroyed in between fails the save.
TakeKey(p) ==
    LET c == call[p]
        key == IF c.key # None THEN c.key ELSE keys[c.day] IN
    /\ c.at = "linked"
    /\ temps' = temps \ {<<c.day, c.part>>}
    /\ Become(p, IF key \in Parts THEN [c EXCEPT !.at = "keep", !.key = key]
                 ELSE NoCall)
    /\ UNCHANGED <<today, keys, records, stuck, used, sweep, crashes>>

\* put: whole under its name, or not at all.
KeepRecord(p) ==
    LET c == call[p] IN
    /\ At(p, "keep")
    /\ records' = [records EXCEPT ![c.part] =
                      [day |-> c.day, key |-> c.key, whole |-> TRUE]]
    /\ Become(p, IF c.part[2] = "before" THEN [c EXCEPT !.at = "kept"]
                 ELSE NoCall)
    /\ UNCHANGED <<today, keys, temps, stuck, used, sweep, crashes>>

\* A file or folder refuses, or the day key is damaged: without the part
\* before nothing is sent, without the part after the write stays.
SaveFails(p) ==
    /\ At(p, "look") \/ At(p, "keep")
    /\ Become(p, NoCall)
    /\ UNCHANGED <<today, files, used, sweep, crashes>>

-----------------------------------------------------------------------------
(* Loading the parts of a write: get reads the files of both, then         *)
(* openSnapshot opens one after the other.                                 *)

Read(x) == IF x \notin Parts THEN None
           ELSE IF records[x] = None THEN None ELSE records[x].key

LoadStart(p, e) ==
    LET x == <<e, "before">>
        found == {y \in Parts : y[1] = e /\ records[y] # None} IN
    /\ p \notin Servers /\ At(p, "idle")
    /\ \/ /\ \E y \in found : /\ ~records[y].whole
                             /\ Become(p, [NoCall EXCEPT !.at = "damaged",
                                                         !.day = records[y].day])
       \/ /\ x \notin found /\ \A y \in found : records[y].whole
          /\ Become(p, [NoCall EXCEPT !.at = "missing"])
       \/ /\ x \in found /\ \A y \in found : records[y].whole
          /\ Become(p, [at |-> "open", part |-> None, day |-> records[x].day,
                        key |-> Read(x), second |-> Read(<<e, "after">>)])
    /\ UNCHANGED <<today, files, used, sweep, crashes>>

\* A day key that is gone opens nothing, one that does not fit is an error.
Opened(p, key) == CASE keys[call[p].day] = None -> "expired"
                    [] keys[call[p].day] = key  -> "found"
                    [] OTHER                    -> "damaged"

OpenBefore(p) ==
    LET c == call[p]  end == Opened(p, c.key) IN
    /\ At(p, "open")
    /\ Become(p, [c EXCEPT !.at = IF end = "found" /\ c.second # None
                                     THEN "openAfter" ELSE end])
    /\ UNCHANGED <<today, files, used, sweep, crashes>>

\* A part after whose key went in between counts as none.
OpenAfter(p) ==
    LET c == call[p]  end == Opened(p, c.second) IN
    /\ At(p, "openAfter")
    /\ Become(p, [c EXCEPT !.at = CASE end = "expired" -> "found"
                                    [] end = "found"   -> "named"
                                    [] OTHER           -> "damaged"])
    /\ UNCHANGED <<today, files, used, sweep, crashes>>

\* The caller has its answer: undo and its command go on with it.
LoadEnds(p) ==
    /\ todo[p] = {} /\ call[p].at \in Ends
    /\ Become(p, NoCall)
    /\ UNCHANGED <<today, files, used, sweep, crashes>>

-----------------------------------------------------------------------------
(* The sweeper: at the start, and at each look of the timer while the day  *)
(* of the sweep is a new one or the last sweep could not remove all.       *)

\* Days before firstKeptSnapshotDay.
Past(d, now) == d + Retention < now

PastRecords(now) == {<<"record", x>> : x \in {y \in Parts :
                        records[y] # None /\ Past(records[y].day, now)}}
PastKeys(now)    == {<<"key", d>> : d \in {c \in Days :
                        keys[c] # None /\ Past(c, now)}}
PastTemps(now)   == {<<"temp", t>> : t \in {u \in temps : Past(u[1], now)}}

StartSweep(p) ==
    /\ p \in Servers /\ Free(p)
    /\ spc[p] = "idle" /\ swept[p] # today
    /\ spc' = [spc EXCEPT ![p] = "records"]
    /\ cut' = [cut EXCEPT ![p] = today]
    /\ todo' = [todo EXCEPT ![p] = PastRecords(today)]
    /\ stayed' = [stayed EXCEPT ![p] = FALSE]
    /\ UNCHANGED <<today, files, used, call, swept, crashes>>

\* Mutant: only the keys under their own names are destroyed.
SweepNamedKeys(p) ==
    /\ Free(p) /\ spc[p] = "records" /\ todo[p] = {}
    /\ spc' = [spc EXCEPT ![p] = "keys"]
    /\ todo' = [todo EXCEPT ![p] = PastKeys(cut[p])]
    /\ UNCHANGED <<today, files, used, call, cut, stayed, swept, crashes>>

\* The records first, then the keys, also when a record stayed.
SweepKeys(p) ==
    /\ Free(p) /\ spc[p] = "records" /\ todo[p] = {}
    /\ spc' = [spc EXCEPT ![p] = "keys"]
    /\ todo' = [todo EXCEPT ![p] = PastKeys(cut[p]) \cup PastTemps(cut[p])]
    /\ UNCHANGED <<today, files, used, call, cut, stayed, swept, crashes>>

\* destroyPrivateFile writes zeros over a file ...
Zero(p) ==
    /\ Free(p) /\ spc[p] # "idle"
    /\ \/ \E x \in Parts :
            /\ <<"record", x>> \in todo[p] \ stuck
            /\ records[x] # None /\ records[x].whole
            /\ records' = [records EXCEPT ![x].whole = FALSE]
            /\ UNCHANGED keys
       \/ \E d \in Days :
            /\ <<"key", d>> \in todo[p] \ stuck
            /\ keys[d] \in Parts
            /\ keys' = [keys EXCEPT ![d] = Lost]
            /\ UNCHANGED records
    /\ UNCHANGED <<today, temps, stuck, used, call, sweep, crashes>>

\* ... and removes its name, also when the zeros failed or another process
\* was first.
Unname(p) ==
    /\ Free(p) /\ spc[p] # "idle"
    /\ \E x \in todo[p] \ stuck :
        /\ records' = [y \in Parts |-> IF <<"record", y>> = x THEN None ELSE records[y]]
        /\ keys' = [d \in Days |-> IF <<"key", d>> = x THEN None ELSE keys[d]]
        /\ temps' = {t \in temps : <<"temp", t>> # x}
        /\ todo' = [todo EXCEPT ![p] = @ \ {x}]
    /\ UNCHANGED <<today, stuck, used, call, spc, cut, stayed, swept, crashes>>

\* Mutant: the first entry that stays ends the loop.
Stop(p) ==
    /\ Free(p) /\ spc[p] # "idle"
    /\ todo[p] \cap stuck # {}
    /\ todo' = [todo EXCEPT ![p] = {}]
    /\ stayed' = [stayed EXCEPT ![p] = TRUE]
    /\ UNCHANGED <<today, files, used, call, spc, cut, swept, crashes>>

\* An entry that stays does not stop the others.
Stay(p) ==
    /\ Free(p) /\ spc[p] # "idle"
    /\ \E x \in todo[p] \cap stuck : todo' = [todo EXCEPT ![p] = @ \ {x}]
    /\ stayed' = [stayed EXCEPT ![p] = TRUE]
    /\ UNCHANGED <<today, files, used, call, spc, cut, swept, crashes>>

\* The sweep ends: the day counts as swept when nothing stayed.
EndSweep(p) ==
    /\ Free(p) /\ spc[p] = "keys" /\ todo[p] = {}
    /\ spc' = [spc EXCEPT ![p] = "idle"]
    /\ swept' = [swept EXCEPT ![p] = IF stayed[p] THEN @ ELSE cut[p]]
    /\ stayed' = [stayed EXCEPT ![p] = FALSE]
    /\ UNCHANGED <<today, files, used, call, cut, todo, crashes>>

-----------------------------------------------------------------------------
(* Days and stops.                                                         *)

\* Bound: a save or a load that runs at midnight ends on the next day.
Midnight ==
    /\ today < MaxDay
    /\ \A p \in Procs : call[p].part # None => call[p].day = today
    /\ today' = today + 1
    /\ UNCHANGED <<files, used, call, sweep, crashes>>

Crash(p) ==
    /\ call[p].at # "down" /\ crashes < MaxCrashes
    /\ crashes' = crashes + 1
    /\ Become(p, [NoCall EXCEPT !.at = "down"])
    /\ spc' = [spc EXCEPT ![p] = "idle"]
    /\ cut' = [cut EXCEPT ![p] = 0]
    /\ todo' = [todo EXCEPT ![p] = {}]
    /\ stayed' = [stayed EXCEPT ![p] = FALSE]
    /\ swept' = [swept EXCEPT ![p] = None]
    /\ UNCHANGED <<today, files, used>>

Restart(p) ==
    /\ call[p].at = "down"
    /\ Become(p, NoCall)
    /\ UNCHANGED <<today, files, used, sweep, crashes>>

CallStep(p)  == \/ SaveAfter(p) \/ LookForKey(p) \/ NameKey(p) \/ TakeKey(p)
                \/ KeepRecord(p) \/ SaveFails(p) \/ OpenBefore(p)
                \/ OpenAfter(p) \/ LoadEnds(p)
SweepStep(p) == \/ StartSweep(p) \/ SweepKeys(p) \/ Zero(p) \/ Unname(p)
                \/ Stay(p) \/ EndSweep(p)

Next ==
    \/ \E p \in Procs, e \in Events : SaveBefore(p, e) \/ LoadStart(p, e)
    \/ \E p \in Procs : CallStep(p) \/ SweepStep(p) \/ Crash(p) \/ Restart(p)
    \/ Midnight

Spec == Init /\ [][Next]_vars

\* The timer of a server looks at the day within the hour, and a sweep runs
\* to its end; the system calls of a save or a load return.
FairSpec == /\ Spec
            /\ \A p \in Procs : WF_vars(SweepStep(p)) /\ WF_vars(CallStep(p))

-----------------------------------------------------------------------------
(* Properties.                                                             *)

\* The retention as docs/adr/0031-persistenz-und-tagesschluessel.md:50 counts
\* it: a snapshot of day T is readable until day T plus the retention.
InTime(d) == today \in d .. d + Retention

\* A kept part within the retention opens: the key of its day is the one it
\* was sealed with, though two processes made that key at the same moment.
KeptOpens == \A x \in Parts :
    records[x] # None /\ InTime(records[x].day)
        => records[x].whole /\ keys[records[x].day] = records[x].key

\* After a sweep without an entry that stayed, no record, no day key and no
\* copy of a key under a temporary name of the days before is left, also
\* none of a process that stopped in between.
Shredded == \A p \in Procs : swept[p] # None =>
    PastRecords(swept[p]) \cup PastKeys(swept[p]) \cup PastTemps(swept[p]) = {}

\* While a server runs, what is past the retention goes, though an entry
\* that cannot be removed stays with every sweep.
Over == PastRecords(today) \cup PastKeys(today) \cup PastTemps(today)
ExpiredGoes == (\E p \in Servers : <>[](call[p].at # "down")) => <>[](Over \subseteq stuck)

=============================================================================
