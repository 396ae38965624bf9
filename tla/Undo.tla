-------------------------------- MODULE Undo --------------------------------
(***************************************************************************)
(* Taking back a write with `ecclium undo`: undoStages, undoWith and undo  *)
(* of packages/core/src/pipeline/pipeline.ts, undo, undoPage and           *)
(* undoCalendar of write/guard.ts, the rules of write/undo.ts, and what    *)
(* reads and sends in write/calendar-plan.ts.                              *)
(*                                                                         *)
(* A write Write of one page, appointment or booking was begun; what is    *)
(* known of it is its snapshot.  Commands of the operator take back the    *)
(* write or each other, side by side, while people edit, approve or delete *)
(* the same object in ChurchTools, and while a request that nobody waits   *)
(* for any more may still be carried out.                                  *)
(***************************************************************************)
EXTENDS Naturals, FiniteSets

CONSTANTS
    Undos,      \* commands, each with the ID of its audit event
    Write,      \* the audit event of the write
    Old, Left,  \* what the object held before the write, and what it wrote
    Note,       \* the sentence a withdrawn page holds
    Person,     \* what a person writes
    None,       \* nothing: no object, no snapshot, no value
    MaxEdits,   \* bound: edits of people
    Worlds      \* what differs between runs: kind, create and overwrite

Events == Undos \cup {Write}
Values == {Old, Left, Note, Person}
Kinds  == {"page", "appointment", "booking"}
Object == [version : Nat, value : Values, approved : BOOLEAN]

ASSUME UndoAssumption ==
    /\ Write \notin Undos /\ None \notin Undos \cup {Write} \cup Values
    /\ Cardinality(Values) = 4 /\ MaxEdits \in Nat
    /\ Worlds \subseteq [kind : Kinds, create : BOOLEAN, overwrite : BOOLEAN]

VARIABLES
    world,      \* the kind of the object, whether the write created it, and
                \* whether the commands carry --overwrite
    object,     \* the object in ChurchTools, None when there is none
    edits,      \* edits of people
    snaps,      \* the snapshot under the ID of each event
    call,       \* each command
    flight,     \* its request at ChurchTools
    replaced,   \* the object as it was when that request was carried out
    recorded,   \* commands whose line is in the audit
    told        \* commands that say that their line is not

vars == <<world, object, edits, snaps, call, flight, replaced, recorded, told>>
cloud == <<world, object, edits, flight, replaced>>

\* A snapshot: whether it is one of a new object, the value before, the
\* version and value after, and whether the part after names the object.
Snap == [new : BOOLEAN, before : Values \cup {None}, version : Nat,
         value : Values, named : BOOLEAN]
NoCall == [at |-> "new", of |-> None, base |-> 0, was |-> None, to |-> None,
           failure |-> "none", result |-> "none", sent |-> FALSE]

Steps   == {"new", "load", "read", "commit", "look", "save", "send", "wait",
            "readback", "audit", "done"}
Results == {"none", "crashed", "refused", "missing", "incomplete", "unchanged",
            "changed", "conflict", "failed", "deleted", "done"}
Calls   == [at : Steps, of : Events \cup {None}, base : Nat,
            was : Values \cup {None}, to : Values \cup {None},
            failure : {"none", "definite", "open"}, result : Results,
            sent : BOOLEAN]

TypeOK ==
    /\ world \in Worlds
    /\ object \in Object \cup {None}
    /\ edits \in 0 .. MaxEdits
    /\ snaps \in [Events -> Snap \cup {None}]
    /\ call \in [Undos -> Calls]
    /\ flight \in [Undos -> {"none", "open", "landed", "refused"}]
    /\ replaced \in [Undos -> Object \cup {None}]
    /\ recorded \subseteq Undos /\ told \subseteq Undos

\* The write was carried out or not, and its process may have stopped between
\* the two parts of its snapshot.
Init ==
    /\ world \in Worlds
    /\ \E landed, named \in BOOLEAN :
        /\ named => landed /\ world.create
        /\ object = IF landed
                      THEN [version |-> 2, value |-> Left, approved |-> FALSE]
                    ELSE IF world.create THEN None
                    ELSE [version |-> 1, value |-> Old, approved |-> FALSE]
        /\ snaps = [e \in Events |-> IF e # Write THEN None
                      ELSE [new |-> world.create,
                            before |-> IF world.create THEN None ELSE Old,
                            version |-> 2, value |-> Left, named |-> named]]
    /\ edits = 0
    /\ call = [u \in Undos |-> NoCall]
    /\ flight = [u \in Undos |-> "none"]
    /\ replaced = [u \in Undos |-> None]
    /\ recorded = {} /\ told = {}

Become(u, new) == call' = [call EXCEPT ![u] = new]
Goto(u, step) == Become(u, [call[u] EXCEPT !.at = step])
Ends(u, result, sent) ==
    Become(u, [call[u] EXCEPT !.at = "audit", !.result = result, !.sent = sent])

-----------------------------------------------------------------------------
(* From the ID of a write to its snapshot, and what that allows.           *)

Start(u, e) ==
    /\ call[u].at = "new" /\ e # u
    /\ Become(u, [NoCall EXCEPT !.at = "load", !.of = e])
    /\ UNCHANGED <<cloud, snaps, recorded, told>>

\* Wrong mode, no tenant, the audit not ready, a switch, no right, the clock,
\* a record that does not open, or a read that fails: all before the send.
Refused(u) ==
    /\ call[u].at \in {"load", "read", "commit", "look"}
    /\ Ends(u, "refused", FALSE)
    /\ UNCHANGED <<cloud, snaps, recorded, told>>

\* A new object whose part after was never kept cannot be found again.
Load(u) ==
    LET snap == snaps[call[u].of] IN
    /\ call[u].at = "load"
    /\ \/ snap = None /\ Ends(u, "missing", FALSE)
       \/ snap # None /\ snap.new /\ ~snap.named /\ Ends(u, "incomplete", FALSE)
       \/ snap # None /\ (snap.new => snap.named) /\ Goto(u, "read")
    /\ UNCHANGED <<cloud, snaps, recorded, told>>

Snapshot(u) == snaps[call[u].of]

\* A new appointment or booking is deleted, a new page is not.
Deletes(u) == Snapshot(u).new /\ world.kind # "page"
Target(u)  == IF ~Snapshot(u).new THEN Snapshot(u).before
              ELSE IF Deletes(u) THEN None ELSE Note

isAsLeft(u) == /\ object.version = Snapshot(u).version
               /\ object.value = Snapshot(u).value
               /\ ~object.approved

\* What is gone is taken back already, where the undo deletes; a booking that
\* does not read may also have been moved.
ReadGone(u) ==
    /\ call[u].at = "read" /\ object = None
    /\ \/ Deletes(u) /\ Ends(u, "unchanged", FALSE)
       \/ (Deletes(u) => world.kind = "booking") /\ Ends(u, "refused", FALSE)
    /\ UNCHANGED <<cloud, snaps, recorded, told>>

ReadTarget(u) ==
    /\ call[u].at = "read" /\ object # None
    /\ \/ object.value = Target(u) /\ Ends(u, "unchanged", FALSE)
       \/ /\ object.value # Target(u)
          /\ ~isAsLeft(u) /\ (Deletes(u) \/ ~world.overwrite)
          /\ Ends(u, "changed", FALSE)
       \/ /\ object.value # Target(u)
          /\ isAsLeft(u) \/ (world.overwrite /\ ~Deletes(u))
          /\ Become(u, [call[u] EXCEPT
                          !.at = IF world.kind = "page" THEN "commit" ELSE "look",
                          !.base = object.version, !.was = object.value,
                          !.to = Target(u)])
    /\ UNCHANGED <<cloud, snaps, recorded, told>>

\* Mutant: the page is planned again on whatever version it has now.
CommitReadAny(u) ==
    /\ call[u].at = "commit" /\ object # None
    /\ Become(u, [call[u] EXCEPT !.at = "look", !.base = object.version,
                                 !.was = object.value])
    /\ UNCHANGED <<cloud, snaps, recorded, told>>

\* A page goes through the commit of every write, which reads it once more
\* and refuses another version than the one planned on.
CommitRead(u) ==
    /\ call[u].at = "commit" /\ object # None
    /\ IF object.version = call[u].base
         THEN Become(u, [call[u] EXCEPT !.at = "look", !.was = object.value])
         ELSE Ends(u, "refused", FALSE)
    /\ UNCHANGED <<cloud, snaps, recorded, told>>

\* Switches and clock once more, after the last read.
LookAgain(u) ==
    /\ call[u].at = "look"
    /\ Goto(u, IF call[u].to = None THEN "send" ELSE "save")
    /\ UNCHANGED <<cloud, snaps, recorded, told>>

Kept(u, before) == [new |-> FALSE, before |-> before,
                    version |-> call[u].base + 1, value |-> call[u].to,
                    named |-> FALSE]

\* Mutant: the snapshot of the undo holds what the write had left.
SaveLeft(u) ==
    /\ call[u].at = "save"
    /\ \/ /\ snaps' = [snaps EXCEPT ![u] = Kept(u, Snapshot(u).value)]
          /\ Goto(u, "send")
       \/ Ends(u, "failed", FALSE) /\ UNCHANGED snaps
    /\ UNCHANGED <<cloud, recorded, told>>

\* An undo that writes back keeps a snapshot of its own; without it nothing
\* is sent.  One that deletes keeps none.
SaveBefore(u) ==
    /\ call[u].at = "save"
    /\ \/ /\ snaps' = [snaps EXCEPT ![u] = Kept(u, call[u].was)]
          /\ Goto(u, "send")
       \/ Ends(u, "failed", FALSE) /\ UNCHANGED snaps
    /\ UNCHANGED <<cloud, recorded, told>>

-----------------------------------------------------------------------------
(* The one send and the read after it.                                     *)

Send(u) ==
    /\ call[u].at = "send"
    /\ flight' = [flight EXCEPT ![u] = "open"]
    /\ Goto(u, "wait")
    /\ UNCHANGED <<world, object, edits, replaced, snaps, recorded, told>>

\* The transport refuses the target before any socket.
NotSent(u) ==
    /\ call[u].at = "send"
    /\ Ends(u, "failed", FALSE)
    /\ UNCHANGED <<cloud, snaps, recorded, told>>

\* An answer, a refusal of ChurchTools, or neither: a request that timed out
\* may still be carried out later.
Answered(u) ==
    /\ call[u].at = "wait"
    /\ \/ flight[u] = "landed" /\ Goto(u, "readback")
       \/ /\ flight[u] = "refused"
          /\ Become(u, [call[u] EXCEPT !.at = "readback", !.failure = "definite"])
       \/ Become(u, [call[u] EXCEPT !.at = "readback", !.failure = "open"])
    /\ UNCHANGED <<cloud, snaps, recorded, told>>

ReadBackFails(u) ==
    /\ call[u].at = "readback"
    /\ Ends(u, "failed", TRUE)
    /\ UNCHANGED <<cloud, snaps, recorded, told>>

\* change of a page and sendChange of an appointment.
AsPlanned(u) == /\ object.version = call[u].base + 1
                /\ object.value = call[u].to

\* Mutant: a version that did not grow shows that nothing was written.
ReadBackVersion(u) ==
    /\ call[u].at = "readback" /\ call[u].to # None /\ object # None
    /\ \/ AsPlanned(u) /\ Ends(u, "done", TRUE)
       \/ /\ object.version = call[u].base /\ call[u].failure # "none"
          /\ Ends(u, "failed", FALSE)
       \/ /\ ~AsPlanned(u)
          /\ object.version # call[u].base \/ call[u].failure = "none"
          /\ Ends(u, "conflict", TRUE)
    /\ UNCHANGED <<cloud, snaps, recorded, told>>

\* Only a refusal of ChurchTools shows that nothing was written.
ReadBackChange(u) ==
    /\ call[u].at = "readback" /\ call[u].to # None /\ object # None
    /\ \/ AsPlanned(u) /\ Ends(u, "done", TRUE)
       \/ /\ object.version = call[u].base /\ call[u].failure # "none"
          /\ Ends(u, "failed", call[u].failure # "definite")
       \/ /\ ~AsPlanned(u)
          /\ object.version # call[u].base \/ call[u].failure = "none"
          /\ Ends(u, "conflict", TRUE)
    /\ UNCHANGED <<cloud, snaps, recorded, told>>

\* What does not read any more is deleted, by whomever.
ReadBackDelete(u) ==
    /\ call[u].at = "readback" /\ call[u].to = None
    /\ \/ object = None /\ Ends(u, "deleted", TRUE)
       \/ object # None /\ call[u].failure = "none" /\ Ends(u, "conflict", TRUE)
       \/ /\ object # None /\ call[u].failure # "none"
          /\ Ends(u, "failed", call[u].failure # "definite")
    /\ UNCHANGED <<cloud, snaps, recorded, told>>

\* Mutant: only an undo that was verified says that its line is missing.
AuditVerified(u) ==
    /\ call[u].at = "audit"
    /\ Goto(u, "done")
    /\ \/ recorded' = recorded \cup {u} /\ UNCHANGED told
       \/ /\ told' = IF call[u].result \in {"done", "deleted"}
                       THEN told \cup {u} ELSE told
          /\ UNCHANGED recorded
    /\ UNCHANGED <<cloud, snaps>>

\* One line, or for an undo that may have written a word that it is missing.
Audit(u) ==
    /\ call[u].at = "audit"
    /\ Goto(u, "done")
    /\ \/ recorded' = recorded \cup {u} /\ UNCHANGED told
       \/ /\ told' = IF call[u].sent THEN told \cup {u} ELSE told
          /\ UNCHANGED recorded
    /\ UNCHANGED <<cloud, snaps>>

Crash(u) ==
    /\ call[u].at \notin {"new", "done"}
    /\ Become(u, [call[u] EXCEPT !.at = "done", !.result = "crashed"])
    /\ UNCHANGED <<cloud, snaps, recorded, told>>

-----------------------------------------------------------------------------
(* ChurchTools and people.                                                 *)

\* The request is carried out on whatever the object holds by then.
Land(u) ==
    /\ flight[u] = "open" /\ object # None
    /\ flight' = [flight EXCEPT ![u] = "landed"]
    /\ replaced' = [replaced EXCEPT ![u] = object]
    /\ object' = IF call[u].to = None THEN None
                 ELSE [object EXCEPT !.version = @ + 1, !.value = call[u].to]
    /\ UNCHANGED <<world, edits, snaps, call, recorded, told>>

Refuse(u) ==
    /\ flight[u] = "open"
    /\ flight' = [flight EXCEPT ![u] = "refused"]
    /\ UNCHANGED <<world, object, edits, replaced, snaps, call, recorded, told>>

\* A person writes something of their own, or back what was there before.
PersonEdits ==
    /\ object # None /\ edits < MaxEdits
    /\ edits' = edits + 1
    /\ \E v \in {Old, Person} :
        object' = [object EXCEPT !.version = @ + 1, !.value = v]
    /\ UNCHANGED <<world, flight, replaced, snaps, call, recorded, told>>

\* An approval of a booking need not raise its version.
PersonApproves ==
    /\ world.kind = "booking" /\ object # None /\ ~object.approved
    /\ \E n \in {0, 1} :
        object' = [object EXCEPT !.version = @ + n, !.approved = TRUE]
    /\ UNCHANGED <<world, edits, flight, replaced, snaps, call, recorded, told>>

PersonDeletes ==
    /\ object # None /\ edits < MaxEdits
    /\ edits' = edits + 1
    /\ object' = None
    /\ UNCHANGED <<world, flight, replaced, snaps, call, recorded, told>>

Step(u) ==
    \/ \E e \in Events : Start(u, e)
    \/ Refused(u) \/ Load(u) \/ ReadGone(u) \/ ReadTarget(u) \/ CommitRead(u)
    \/ LookAgain(u) \/ SaveBefore(u) \/ Send(u) \/ NotSent(u) \/ Answered(u)
    \/ ReadBackFails(u) \/ ReadBackChange(u) \/ ReadBackDelete(u) \/ Audit(u)
    \/ Crash(u)

Next ==
    \/ \E u \in Undos : Step(u) \/ Land(u) \/ Refuse(u)
    \/ PersonEdits \/ PersonApproves \/ PersonDeletes

Spec == Init /\ [][Next]_vars

-----------------------------------------------------------------------------
(* Properties.                                                             *)

\* The undo said it wrote back, and ChurchTools had answered it.
Verified(u) == call[u].result = "done" /\ call[u].failure = "none"

\* docs/security.md:156: without --overwrite, an undo that ends well replaced
\* what the write had left and nothing else, whatever was saved meanwhile.
OverwriteAsked == \A u \in Undos :
    Verified(u) /\ ~world.overwrite =>
        /\ replaced[u].version = Snapshot(u).version
        /\ replaced[u].value = Snapshot(u).value

\* docs/security.md:156: what an undo overwrote comes back with a second undo
\* of the first, an edit that was overwritten on demand as well.
TwiceRestores == \A u \in Undos, first \in Undos :
    Verified(u) /\ call[u].of = first /\ Verified(first) =>
        call[u].to = replaced[first].value

\* An undo that says nothing was sent, as one of a snapshot without the ID of
\* its object, has no effect, neither before nor after it said so.
NotSentNeverLands == \A u \in Undos :
    call[u].at \in {"audit", "done"} /\ ~call[u].sent
        /\ call[u].result # "crashed" => flight[u] \in {"none", "refused"}

\* An undo that changed ChurchTools, even after its end, has its line in the
\* audit or said that it has none, unless its process stopped.
LandedIsTold == \A u \in Undos :
    call[u].at = "done" /\ call[u].result # "crashed" /\ flight[u] = "landed"
        => u \in recorded \cup told

=============================================================================
