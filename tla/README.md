# Verification of mcp-churchtools (Ecclium)

TLA+ models of the parts of this repository whose correctness depends on
interleavings, stops, late answers and clocks, the TLC configurations that
check them on small instances, and TLAPS proofs of the properties that matter
most for every value of the constants.

Ecclium is a server (stdio today, a daemon later) that gives a language model
tools over a ChurchTools instance. A call of a tool runs through one pipeline:
context, input, policy, quota, the tool, redaction, the line of the audit. A
tool that writes only plans a change; a person confirms the plan, in the
dialogue of the client or with `ecclium queue approve`, and the write guard
commits it. ChurchTools knows no conditional write, several processes share one
folder of state (servers of several clients, commands of the operator), and
none of them can assume that the last one ended well.

## Running

    tlc -workers 2 -config QuotaStore_two.cfg MCQuotaStore.tla
    tlapm ToolCallProofs.tla

Each configuration `<Component>_<question>.cfg` belongs to the module
`MC<Component>.tla`, which extends the specification and adds what only TLC
needs (symmetry). The table of runs is below.

## Inventory

Paths are relative to `packages/core/src` unless they name a package.

| Component | State it keeps | Operations | What is hard | Modules |
|---|---|---|---|---|
| Quota store (`quota/file-store.ts`, `quota/budget.ts`) | files of counters, a lock file, a chain of changes per process | `increment`, `incrementApproval`, `lock`, `unlock`, daily clean up | several processes, locks left behind and taken over, stops between two calls of the file system | QuotaStore, QuotaCounter, ToolCallProofs |
| Approval decisions (`queue/keeper.ts`, `queue/file-store.ts`, `decideEntry` in `pipeline/pipeline.ts`) | entry file, decision file, counter of decisions, day key | `load`, `decide`, `approve`, `reject`, `purgeBefore` | two commands about one entry, late counts, stops between decision and destruction, a clock set back | ApprovalDecision, ApprovalDecisionProofs |
| Intake of the queue (`enqueue` in `pipeline/pipeline.ts`, `queue/keeper.ts`) | entries that wait, at most 100 of a tenant | `waiting`, `enqueue` | the bound is read before an await | ToolCall |
| Write guard (`write/guard.ts`, `policy-gate.ts`, `kill-switch.ts`, `rules.ts`) | proofs, a block, the switches, the counts of a day | `planOnce`, `commitPlan` and its steps, `block` | edits by people between any two steps, requests without an answer, a switch flipped meanwhile | WriteGuard, WriteGuardProofs; `undo` in Undo |
| Confirmations (`write/confirm.ts`, `nonce-store.ts`, `plan-store.ts`, `proof.ts`, `request-state.ts`) | open plans, used nonces, proofs | `ask`, `answer`, `confirmEcho`, `useProof` | one token brought twice at the same time, full stores, expiry, a restart | Confirmation, ConfirmationProofs |
| Audit files (`audit/file-writer.ts`, `verify.ts`, `reader.ts`) | one open file per process, its chain, pieces, anchors on the log | `write`, `ready`, `tick`, `anchor`, `close`, `verifyAuditFiles` | short writes, failed repairs, stops, power failures, a new day | AuditLines, AuditVerify, AuditChain, AuditProofs |
| The folder of audit files (`audit/file-writer.ts` `sweep`, `audit/retention.ts`) | files of several processes | `openFile`, `sweep`, `turnDay`, `reopen`, `write`, `close` | one process judges and deletes a file another still writes | AuditLines, AuditFolder, AuditProofs |
| Audit sink (`audit/sink.ts`, `schema.ts`, `summary.ts`) | a count of failures | `record` | a result that is ready when its line fails | ToolCall, its fields as one choice |
| Pipeline (`pipeline/pipeline.ts`, `stages.ts`, `read-api.ts`) | one run per call: access, port, write state; the budget of reads | the stages of a call, `completeWrite`, `enqueue`, the end of a call | calls given up at any await, late counts, results held back | ToolCall, ToolCallProofs; its writes and decisions in WriteGuard, Confirmation and ApprovalDecision |
| Day keys (`keys/day-keys.ts`, `file-provider.ts`) | a key file per day and purpose, copies under temporary names | `dayKey`, `wrap`, `unwrap`, `destroyBefore` | two processes make the key of a day at once, keys go while records stay, stops in a sweep | Snapshots, SnapshotsProofs (purpose snapshot; the queue keys are the same code); ApprovalDecision knows whether the key is gone |
| Snapshots (`snapshots/*`) | sealed records of the versions before and after | `save`, `load`, `purgeBefore` | days that change between key and record, stops, entries that cannot be removed | Snapshots, SnapshotsProofs |
| Undo (`write/undo.ts`, `undo*` of `write/guard.ts`, `pipeline/pipeline.ts`, `write/calendar-plan.ts`) | the snapshot, the object as it is now | `undo` of a page, an appointment, a booking, of an undo | people edit, approve and delete beside it, lost answers, snapshots without their second part | Undo, UndoProofs |
| Private files (`files/private-files.ts`) | files of one owner | write once, zero, unlink | stops between the steps | steps of ApprovalDecision and of Snapshots |
| Requests (`churchtools/request.ts`, `http/transport.ts`, `http/failure.ts`) | places for connections and who waits for one, one controller per call | `enter`, `leave`, `send`, `sendWrite` | aborts in the queue and at the moment of a place, answers that come late, what may be said of a request that failed | Requests, RequestsProofs; `churchtools/client.ts` builds URLs and reads answers, without state |
| Throttle (`throttle/token-bucket.ts`) | credit and last time | `refill`, `take` | a clock that fails, is set back or far ahead | TokenBucket, RequestsProofs |
| Policy (`policy/*`) | none after the start | match, limits | which entry a call falls under | the limit of a day in WriteGuard; the match is left out |
| Diff (`diff/*`) | none | `editScript`, `diffLines`, `applyDiff` | index arithmetic of a search from both ends, hunks that split and join | Diff, UndoProofs |
| Content and markers (`content/*`, `marker/*`) | none | lexer, checks, sections | single characters | not modelled |
| Logger (`logger/*`) | a count of lost lines | `write` | a full pipe | not modelled |
| stdio server (`packages/cli/src/stdio`, `packages/server`) | timers, calls that run, two sweepers | start, day timer, sweep, end by signal or end of input | sweeps over restarts and midnights, an end while calls run | the sweeper in Snapshots, the end in ToolCall |
| Registry, tenants, configuration, redaction, tools, docs index | none that changes, or text only | | | not modelled, see below |

How they meet: the pipeline asks the quota store for a count, the confirmation
for a proof, and hands the guard a plan with it; the guard asks policy gate and
switches, keeps a snapshot, sends through the client and reads back; the
pipeline then writes the line of the audit and blocks the guard if it could
not. A plan without a person who can confirm becomes an entry of the queue,
which a command of the operator decides under a count of the same quota store
and sends through a guard of its own. Processes share state only through files:
counters, entries and decisions, keys, snapshots, audit files.

## Modules

### QuotaStore, QuotaCounter

`QuotaCounter` is what the port in `plugin-api/src/quota.ts` promises: a call
counts at one instant and answers the counter after it, or fails. `QuotaStore`
is the file store: one action for each call of the file system another process
can see. `lockFile` is what lies at the path of the lock, `age` how long; `at`,
`mine`, `judged`, `aside`, `seen` are the local variables of `lock`,
`incrementApproval` and `unlock` in each process. `MakeLock`, `VerifyLock`,
`UnmakeLock`, `LookGone`, `LookFresh`, `LookOld`, `MoveAside`, `Inspect`,
`PutBack` and `Drop` are the branches of the loop in `lock`; `ReadCounts` and
`WriteCounts` the change; `Unlock` and `RemoveLock` its end. `CountsOneByOne`
is the refinement: QuotaStore implements QuotaCounter, with the call of a
process mapped from its `at` and `answered` (`Called`). The names of its
specification begin with Store, so that one module can extend it and ToolCall,
which asks this store for the budget of reads.

### ApprovalDecision, DecidedOnce

One entry of the queue and any number of commands about it. `entry`, `record`,
`count` and `keyGone` are the files; `pc`, `at`, `want`, `own` the locals of
`decideEntry` and of the store's `decide`. `CountAnswered`, `CountLate` and
`CountFails` are the three ends of a count under `inQuotaTime`; a late count
stays in `late` and may land at any time (`LateCountLands`). `LinkRecord` is the
exclusive creation of the decision file; `ZeroEntry` and `UnlinkEntry` the two
steps of the destruction; `Purge*` the daily removal, which any process may run
beside a command. `Crash` ends a command at any step.

`DecidedOnce` is what an operator may rely on: `Decide` once, then one `Write` of
what was approved or one `Refuse` told, by one command. `EntryDecidedOnce` is the
refinement: the decision is the kind that ever stood (`stood`, which the purge of
the files does not forget), the writers are `sent`, and who told of a rejection is
read from `told`.

### WriteGuard

Any number of commits, each by a tool of the server or by `undo` or `approve` of
the operator, about one page of the wiki or a new one. `Start`, `ReadTarget`,
`CheckProof`, `AskCount`, `CheckPolicy`, `CheckAgain`, `SaveBefore`, `Send`,
`Answered` / `Refused` / `Unanswered`, `ReadBack*` and `Audit` are the steps of
`commitPlan` and of the pipeline's end of a call, in the order of the code and with
its early returns. `Land` and `Refuse` are ChurchTools; a request that was not
answered may land at any later time. `PersonEdits`, `FlipSwitch`, `Midnight`,
`CleanUp` and `Restart` may come between any two steps. `SameText` says whether all
commits write one text.

The limit of a day is counted over several steps: `AskCount` fixes the day (`countOf`
in `policy-gate.ts`), `StoreCounts` is the increment of `quota/file-store.ts`, at any
later time and also when nobody waits for it any more, `CheckPolicy` judges the
answer whichever day it is by then, and `PolicyRefuses` is a count that fails or is
late. `counts` are the files of the days, which the first count of a later day may
remove with their locks (`Counted`, or `CleanUp` by another process); the days this
happened to are in `swept`. `afresh` remembers the commits whose count came after
that, and `gone` those whose server stopped (`Restart`).

### Confirmation

Plans, the tokens that name them, and answers that bring a token back. `kept` is
the store of plans, `used` the store of nonces, both with their lives and bounds;
`Answer`, `Consume` / `Replayed`, `Take` and `Commit` are separate steps because
the stores answer in turns of the event loop of their own. A token cannot be
forged (its seal is one value). The time between checking the age of a token and
remembering its nonce is at most `Stall`: the minute by which `NonceTtl` exceeds
`TokenTtl` (ADR 0029) is this assumption, and the code does not enforce it.

### ToolCall

The way of a call from its first stage to its line in the audit and its answer,
for any number of calls side by side. `pc` is the stage a call waits in: `count`
(the budget's store against its timer), `run` (the tool), `waiting` and `enqueue`
(the queue counted, the entry not yet kept), `end`. The stages up to the input are
one action each (`Refuse`, `NotReady`, `Pass`, `PassToBudget`), as they run in one
turn of the event loop. `ToolReads` and `ToolPlans` are the code of a tool, which
may go on after its call ended as far as `open` (access and port) lets it;
`Routed`, `RefusedPlan` and `Threw` are what becomes of its end, `ClientAborts` the
race it loses. `End` is the `finally` of `call` with `record` of the sink, in one
turn: `LineOutcome` and `CopyOutcome` are what file and log say, `HeldBack` whether
the result goes out. The second round of a question runs no tool and is in
Confirmation and WriteGuard.

The budget of a day is counted in the same store as the limit of WriteGuard, and in
the same steps: `PassToBudget` fixes the day, `StoreCounts` and `StoreFails` come at
any later time, and a count of a later day removes the counters before it (`Stored`,
`CleanUp`, `swept`, `afresh`). A line names the first 100 objects a call read and
counts the others as left out (`audit/object-ref.ts`); `named` is how many it accounts
for in one of the two ways.

The end of the server (`serve`) is part of it: `ServerCloses` is a signal, the end
of the input or an error of the output, whereby the connection aborts every call
that has begun; `FileCloses` is what follows once the transport is closed: the
line `audit_file_closed` with the number of lines lost so far, and the file
closes. Neither waits for a call. A call whose last await is over reaches its line
in a few turns of the event loop and closing the transport takes more of them, so
`FileCloses` comes after those (`AtTheirLine`).

### AuditLines, AuditVerify, AuditChain

`AuditLines` declares what lines say, for all modules about audit files.
`AuditVerify` holds the pure operators of `audit verify`: the check of a line,
the comparison with an anchor, the collector of anchors. A hash is what it was
taken of. `Reading`, the state of the check after each line of a file, is a recursive
function, so that proofs can follow it. `AuditChain` is the writer, process after process: `lines` and `tail`
of each file (what stands after the last line break), what is flushed, the head
of the chain, and what `send` may leave: a whole line, a part of one, all but its
line break, the tilde of a repair. `PowerFails` keeps of each file at least what
was flushed and cuts the rest anywhere. AuditProofs extends AuditChain and
AuditFolder, so where both have an operation of one name (a start, a close, a new
day) AuditChain calls it otherwise: `StartProcess` is the construction of the writer,
`CloseFile` its `close`, `DayStays` and `DayChanges` the two ends of `turnDay`,
`OpenAnother` its `reopen`, `Retire` its `giveUp`.

### AuditFolder

The folder those files lie in: several processes, each with a file of its own and
a sweep of everybody's files at its start and on each new day. `Begin` is a call
of the writer (a line, `ready`, `tick` of the day timer); `SameDay` and `TurnDay`
are `turnDay`, `Look` and `Unlink` the two calls between which a sweep judges a
file and deletes it, `Attempt` and `Check` those between which a line is written
and the file is asked whether it still has a name; `Reopen` uses up one of the
files for lost ones. What lines look like is left to AuditChain. The clock does not
run back, and the retention counts days where the code counts months of the
calendar (`lastDayKept` grows with the day, which is all the properties need).

### Snapshots

Several processes over one folder of records and one of day keys. A save looks for
the key of its day, makes one under a temporary name if there is none and names it
by an exclusive link (`LookForKey`, `NameKey`, `TakeKey`), and keeps its record
(`KeepRecord`); a load reads a record, then its key (`Read`, `LoadStart`,
`OpenBefore`, `OpenAfter`). The sweep of a server looks at what is past, then
zeroes and unlinks entry by entry (`StartSweep`, `SweepKeys`, `Zero`, `Unname`,
`Stay`, `EndSweep`), while the day may change and processes stop. `stuck` are
entries the file system will not remove.

### Undo

One object of ChurchTools (a page, an appointment, a booking), the write it came
from, and commands `ecclium undo` that take back the write or each other. `Load`
finds the snapshot, `ReadTarget` and `CommitRead` are the two reads, the second
under the eyes of the guard, `LookAgain` the last look at an appointment, then
`SaveBefore`, `Send`, the answers and `ReadBackChange` / `ReadBackDelete`, `Audit`.
People edit, approve and delete at any time; `Land` may come after the command
has ended.

### TokenBucket, Requests

`TokenBucket` is the arithmetic of `refill` and `take`, with any reading of the
clock. `Requests` extends it by the places of the transport: a call enters or waits
(`Enter`, `waiting`), is handed a place or spliced out when its controller aborts
(`Handed`, `Spliced`, `Stops`), and ends in one of the failures that `failure.ts`
tells apart, which the guard reads as sent, not sent or unknown. The agent of
undici and ChurchTools are actions of their own (`OnConnection`, `Breaks`,
`Lands`), so that an effect may come after the call's end.

### Diff

One diff is computed and applied in the steps of the loops. `editScript` begins or
refrains past a bound (`Begin`, `Refrain`, `ShowWhole`). The recursion of `solve` is a
stack of what is left to do (`todo`): boxes to solve and lines that stay. A box with
one text empty is an edge (`SolveEdge`); any other is searched (`SolveSplit`), one
diagonal of the arrays `forward` and `backward` per step (`StepForward`,
`StepBackward`), until the two meet in a snake that splits it (`Split`) or the bound
on the depth ends it all. The arrays keep what an earlier box left in them, as in the
code. `Keep` and `Change` write the script, `Scripted` ends it. `hunksOf` is one
action per way a step of the script meets the open hunk (`HunkOpens`, `HunkGoesOn`,
`HunkEnds`, `Show`), and `applyDiff` one per check that may refuse a diff
(`ApplyHunk`, `ApplyLine`, `ApplyCounts`, `ApplyRest`; refused is the stage "misfit").

## Runs

| Run | What it asks | Instance | Properties |
|---|---|---|---|
| QuotaStore_two | Is the file store a counter, with a lock left behind? Does anything count too much, and does each call end? | 2 processes, 3 calls; a quiet world of 2 counters in a file for 1, and one with a crash, failures of the file system and locks held too long | NeverOvercounts, CountsOneByOne, EveryCallEnds |
| ApprovalDecision_once | Is an entry decided once and written at most once? Does its content go? | 2 commands, 2 times, days 0 to 2, the clock set back by one; with an exact counter, and with one that may lose a count while the times differ | AtMostOneWrite, RejectedNeverWritten, EntryDecidedOnce, DecidedContentGoes |
| WriteGuard_once | What may a commit say when people edit beside it? Do switch, block and limit hold? | 2 commits, lost and late answers, limit 1; either 2 edits with snapshots, or a flip and a restart, or a midnight | OverwriteReported, KeptBeforeItLands, LimitHolds, StopsHold, UnrecordedStops |
| Confirmation_once | Does a yes count once, and each question once? | 2 plans in a store for 1, 2 tokens, a store for 1 nonce, 3 answers, a restart, a clock set back | TokenCountsOnce, AskedForEach |
| ToolCall_once | What goes out, what do file and log say of it, and does a call given up go on? | 2 calls of any kinds of tools, a budget of 1, a queue for 1, 1 read each, a midnight, the end of the server | TypeOK, SpecialIsRecorded, OkLinesWentOut, BoundsHold, GivenUpGoesOn |
| ToolCall_closed | docs/betrieb/stdio.md: lost lines are counted. Violated. | the same | LossIsCounted |
| AuditChain_once | Do untouched files verify, and touched ones not? | 3 lines, 2 files, one stop or power failure, with and without write tools | ChainHolds, LostIsNowhere, AnchoredStays, NothingFound, TamperShows |
| AuditFolder_shared | Do processes that sweep one folder leave each other's lines alone, and does a sweep say the truth? | 2 processes, 3 files, 1 line, 2 days of 2 readings, 1 file deleted by hand | LinesStay, SweepsCostNothing, CleanTookAll |
| Snapshots_swept | Does what is kept open, and does what is past go? | a server and a command, 2 writes, one of them a creation, days 0 to 2, retention 1, one stop, a key or a record that stays | KeptOpens, Shredded, ExpiredGoes |
| Undo_once | What may an undo write over, and what may it say? | 2 commands, 2 edits, every kind of object, created or changed, with and without `--overwrite` | OverwriteAsked, TwiceRestores, NotSentNeverLands, LandedIsTold |
| Requests_sent | Are places and rate kept, and is the guard told the truth? | 3 calls over 1 connection; and 6 calls one after the other with 2 ticks of the clock, set back by 2 or ahead by 9, or failing | PlacesHold, ToldAsItWas, NeverOverRate, EveryCallEnds |
| Diff_shown | Does the diff lead from the old text to the new, and is it a shortest one? | all pairs of texts of up to 6 lines over 2 different ones and of up to 4 over 3, at 4 bounds of the search | ShownLeadsThere, ShownIsShortest |

Two processes, commands or commits are enough for each race between two parties.
Stores of size one are full after one entry, so every path of a full store is
taken with two. Three answers are the least with which two questions can be
confirmed once too often; three lines the least that leave a line after a repaired
piece that is not the last. Two files are a process and the one after it, or the
file of a day and of the next, or a file given up and the one that takes the line
again. In AuditFolder a third name is the file a process opens after one it lost,
beside that of the other; a grace of two readings is one day, so that an empty file
of yesterday may be just within and just past it. In Snapshots three days and a
retention of one are the least in which a record of the first day goes while that
of the second stays; a creation beside a change has the two parts whose days may
differ. In Requests a rate of 13 in 20 ticks leaves a fraction at each refill, and
a jump of 9 is more than the bucket holds. In Diff six lines over two values hold
every way the two searches can meet, and two hunks that join or stay apart at a
context of one. In WriteGuard the three worlds keep apart what no property relates: edits bear on
the read back, a flip and a restart on who may still send, a midnight on the counts;
two commits pass a limit of one when one is counted on each side of a removal. The
theorems hold for every world. ApprovalDecision_once lets no midnight pass within a
command; the clock set back by a day has the same effect on what a command has read,
and the theorems hold for any number of midnights.

Deadlock is checked in QuotaStore_two, where calls come again or time passes. The
others really stop: every command, commit, call, answer or line has ended and the
bounded time is over.

### What the runs show beyond "it holds"

- **Lines after the end.** When the server closes while a call waits for a store (of
  the budget or the queue) or keeps a snapshot, nothing waits for that call: the
  transport holds no request of it. Its line comes after `audit_file_closed`, so the
  file does not take it and no count names it (ToolCall_closed), against
  docs/betrieb/stdio.md:108 and the comment at `serve.ts:552`. Its copy on the log
  comes after the line that docs/log-events.md:329 calls the last one.
- **Judged, then written.** A sweep judges a file by its last change and unlinks
  the name two calls later. A process that could not open the file of the new day
  writes on in the old one; its line may fall between the two, is told written and
  goes with the file. The comment at `audit/file-writer.ts:792` and
  docs/adr/0028:143 exclude this; LinesStay names it as its one exception (`raced`).
  A midnight within a call may also use up one of the files for lost ones.
- **Lost counts.** A process that judged a lock as left behind moves whatever lies
  at the path aside. With three processes, one that lost its fresh lock this way
  can rename counters it read earlier over two counts made meanwhile, where
  docs/adr/0063:45 says one at most. Two processes whose locks are not held too
  long never lose a count. Nothing ever counts too much.
- **Counts after midnight.** `countOf` and `countRead` fix the day and then wait for
  the store (`write/policy-gate.ts:191`, `pipeline/pipeline.ts:1656`). The first count
  another process makes on the next day removes the file of the day before and its
  lock (`quota/file-store.ts:888`). A count still waiting starts again at 1 and passes,
  so calls that asked just before midnight and are counted within the timeout may
  write, or read, on top of the limit of their day. docs/policy.md:75 names the limit
  of a UTC day, and `write/policy-gate.ts:16` says that only a write that fits under
  it goes on, both without that; `plugin-api/src/quota.ts:61` lets a store forget a
  day once it is over. LimitHolds and BoundsHold name these calls as their exception
  (`afresh`); without it, TLC finds two writes on a limit of one.
- **A full queue.** Calls that count the waiting entries side by side each keep
  one: the queue may hold as many above its bound as calls were between counting
  and keeping, less one (the second part of BoundsHold says no more than that).
  docs/privacy.md:130 names the bound without that.
- **Equal texts.** A page one version on with the planned text is taken for the own
  write. With `SameText = TRUE`, two commits with one text can overwrite a person's
  edit with nobody reporting it: one reads the other's text back as its own while
  its own request is still under way. OverwriteReported is checked and proved for
  texts that differ.
- **Deleting reads once.** An undo that deletes an appointment or a booking reads it,
  and the DELETE carries no version: what a person changes in between goes with it,
  where docs/security.md:155 says an undo never goes over a change. OverwriteAsked
  is therefore about undos that write back, not about those that delete.
- **Anchors.** Every write asks for an anchor, so the file of a server with write
  tools has several; `audit verify --log` calls that a conflict (`audit/verify.ts:284`),
  against docs/adr/0028:251. NothingFound is about servers without write tools.
- **Leftovers.** A stop between zeros and unlink leaves an entry that does not open
  beside its decision; later commands end in an internal error until the daily
  removal. Its content is gone by then, and nothing is decided twice.
- **Lossy counts.** With a counter that gives two commands one count, the decision
  file still settles the matter, except when a command waits past the removal of
  the files of its entry: then both kinds can come to stand.
- **A clock set back.** A full store of nonces forgets what is over; with the clock
  then set back, a token counts again. It finds no plan unless the plan was asked
  about anew, so a plan is still committed at most as often as it was asked about
  (AskedForEach).

### Fairness

Four runs check liveness, each weakly fair for the steps of one process, call or
command by itself, and never for people, the network, ChurchTools or failures.

- QuotaStore_two: time passes, and a process inside `increment` goes on: between two
  calls of the file system the code waits for nothing but timers.
- ApprovalDecision_once: each command goes on, midnight comes, and the daily removal
  runs, as `serve` starts it at each start and on each new day. Strong fairness is
  assumed of one step, the unlink of the removal: tried again every day, it does not
  fail for ever.
- Snapshots_swept: calls go on, the timer of a running server looks, and its sweep
  goes on. ExpiredGoes asks it only of behaviours in which some server runs.
- Requests_sent: the deadline of a call and its own steps. That undici or ChurchTools
  answer is not assumed; every call ends by its deadline.

That a call given up ends (ToolCall) is stated without fairness: in each state it
has a step of its own that leads a stage further, and there are finitely many
stages.

### Assumptions about what is outside

- Renames, exclusive creation and unlink of a file are one step; two files never
  share device, inode and time at once.
- A disk keeps at least what was flushed, and of the rest a prefix; flushing a new
  file also keeps its name.
- A descriptor that stopped naming its file is noticed by `fstat`.
- In AuditFolder the clock does not run back, and an open that fails leaves no file
  (the code may leave an empty one, which a later sweep takes).
- TamperShows is about changes without recomputing the chain; only an anchor shows
  a recomputed one, which the part on shortened and extended files covers.
- The keys of the level `strict` are derived in memory, in the turn of the first
  stages. With a key provider that really waited, an abort meanwhile would pass
  unseen by the race of a tool that is not special (`pipeline.ts:1082`); the one
  built here does not.
- LimitHolds and BoundsHold assume that the counter of a day loses no count before
  it is removed (QuotaStore says when it does).
- undici sends a request once, and ends each request that was aborted; the end of the
  connection aborts the calls of a client (`mcp/mount.ts` relies on it as well).

## Proofs

Eight modules hold theorems; each extends the module it is about. Every type invariant
that no run checks is proved.

**ToolCallProofs, on the pipeline.** `RecordedFirst` (SpecialIsRecorded), `OkIsTrue`
(OkLinesWentOut), `BoundsKept` (BoundsHold), `CallTypes` and `GivenUpIsShut`, for any
number of calls, every budget and every bound of the queue. What is told of a call,
its line and the copy of it are settled in one step (`End`), so the first two rest on
what holds before it (`Stages`): nothing is told or written earlier, access and port
are open only while the tool runs, and only a write is a question. Access closed is
why a line that names the reads stays true whatever the tool goes on to do. The
bounds are not inductive: a call that has its count but has not read it, or its place
in the queue but no entry yet, has to be counted with those that did (`Winners`,
`Queueing`). Winners of a day are never more than the budget, nor than the store
counted for it until its counters are removed, and only calls counted afresh come
after that (`WinnersMove`); `most`, the history of how many were between counting and
keeping, bounds the queue. That no more lines are missing than calls are over (`MissingIsOver`) is what
types the count of lost lines.

**ToolCallProofs, on the file store.** `NobodyLosesBudget` (NeverOvercounts) and
`FileBounded` (FileStaysBounded), for any number of processes, counters, crashes and
failures. Neither is inductive: what a process writes is what it read before, one
higher. So the invariant `CountsInv` says of every copy (the file and what each
process read) that it is below the history and within the bound. Nothing in it is
about the lock: the safety of these two does not rest on it. `QuotaTypes` is the type
invariant.

`StoreIsCounter` is the refinement CountsOneByOne, which does rest on the lock: every
step of the store is a step of QuotaCounter or none. The mapping counts only in a
calm world (no crash, no failed call, no lock held longer than a waiter allows);
elsewhere the code promises less (see "Lost counts"). It assumes that at most two
processes exist or that no lock lies there at the start: a third process can take the
place of a lock the second one moved aside to look at it. The invariant `CalmInv` is
mutual exclusion (`OneHolds`): a holder's lock lies at its path, or another process has
it aside and nothing lies there (`HeldLies`); it is young where one judged as left
behind is old (`HeldIsYoung`, `JudgedIsOld`), so nobody drops it; and what a holder
read is what the file holds (`SeenIsCurrent`), so its write is the counter, one higher.

**ApprovalDecisionProofs.** `TypeCorrect`, `WrittenAtMostOnce`, `RejectionHolds`
and `DecisionNeverTurns`, for any number of commands, times and days, from two
assumptions: the counter loses no count (`LosesNoCount`), and counters stay long
enough for every command still in time (`KeptLongEnough`). A command *holds* the
decision from its count of 1 until it tells how it ended. `IInv` says that one
command holds it at most (`OneHolder`), that a counter is gone only when nobody
can count any more (`CountGone`, which needs the days a running command has seen,
`InTime`), and that what stands is what the holder stamped (`KindOfHolder`,
`Standing`). Without CountGone the step that counts could give 1 again after the
counter was removed; without Standing nothing would keep a command that finds a
decision from putting another one in its place.

`DecidesOnce` (EntryDecidedOnce) is the refinement of DecidedOnce, from the same
invariant. The first decision that takes its name is Decide; a later one, after the
files were removed, puts there what stood (`LinkDecides`). Who keeps its decision
holds it (`KeepRefuses`, `SendWrites`), so nobody else wrote or told before: each
other step is none (`StepAside`).

**ConfirmationProofs.** `ConfirmationTypes` and `StoresKeepBounds`, for any number
of plans, tokens, answers, restarts and settings of the clock, and `TokenOnce`
(TokenCountsOnce) from one assumption, `NonceLivesLonger`: the life of a token and
the time between its check and its nonce are within the life of the nonce. The
invariant `TokenInv` has two halves. `Shape` holds whatever the clock does: a proof
comes from a nonce that counted (`SpentFirst`), a nonce belongs to the answer that
brought its token (`SpentBy`), a token is of this run or an earlier one (`Asked`).
`Once` holds while the clock never ran back: an answer about to spend its nonce
brought a token in time and not long ago (`FreshAnswer`), a nonce spent in this run
is remembered until its token is over (`SpentRemembered`), so no nonce is spent
twice (`SpentOnce`). Without FreshAnswer the sweep of a full store could forget a
nonce between the check of the age and the store. The bounds of the stores need
only what a sweep and one more place do to a finite set. `QuestionForEach`
(AskedForEach) needs no assumption, not even on the clock: answers that took a plan
have different nonces, a plan kept was asked about once more than it was taken, and a
question said no to is none of them (`AsksInv`). The one assumption on values is that
`None` is neither a plan, a token nor a proof.

**RequestsProofs.** `RateHolds` (NeverOverRate), for any rate and whatever the clock
does: the credit never exceeds what the time since the last reading gives, and a
window's places are bounded by the credit at its start and the refill in it.
`WaitHolds`: after the wait a call was told, there is a place unless another took
it. `PlacesHoldAlways` counts places and calls on their way as one set, for any
number of calls and connections; `ToldHolds` (ToldAsItWas) follows from what the
wire of a call may still become once its failure is known.

**AuditProofs, on the folder.** `LinesStayAlways`, `CleanSweeps` and `SweepsAreFree`
(SweepsCostNothing), for any number of processes, files, lines and days. The invariant
says of each sweep that what it has judged holds no line within its retention but
raced ones, and that what was due at its begin is gone, still to come, or told as
left. `SweepsAreFree` adds `FreeInv`: a process that nothing harmed has the file of the
day it last turned to (`Mine`), no other process writes that file (`OwnFiles`), and a
sweep that judged it did so when it was of an earlier day or empty and past its grace
(`SweptOld`), which the process finds out before its next line, as a change of day and
not as a loss (`Unharmed`).

**AuditProofs, on the chain.** `ChainTypes`, the type invariant, and all five of
AuditChain_once, for files of any length and any number of files, ends and power
failures: `FilesAreChains` (ChainHolds), `LostStandsNowhere` (LostIsNowhere), `AnchorsHold`
(AnchoredStays), `UntouchedIsClean` (NothingFound) and `TouchedIsFound` (TamperShows).
There are two halves.

- What verify finds. The check goes on from line to line, and each of its states
  follows from the one before (`ReadingSteps`). That a statement about these states
  holds of every line is shown by the set of numbers it holds of: `EveryNumber` says
  that a set with 0, and with each number the next, has them all, which needs no
  operator as a parameter. From it: what was found stays found (`FoundStays`), a file
  without findings is a chain (`CleanIsChain`, `NoFindings`), and a chain shows nothing
  (`ChainIsClean`). A chain with one of its lines changed, removed, added or moved is
  none (`TouchedIsNoChain`), and one with another end does not end as its anchor says
  (`OtherEnd`). `TouchedIsFound` then needs of the writer only that its files are
  chains.
- What the writer leaves, `ChainInv`. A file is a chain of lines nobody else has
  (`FilesHold`); the head in memory is that of the last line, and a piece nobody knows
  of stands after it only while it is to be repaired (`HeadHolds`): without that, the
  next line would follow another one than its hash says. A file given up keeps its head
  while it is flushed and named (`GivingHolds`, `LogHolds`). A line still to be written
  stands nowhere (`LinesTold`), so neither a second attempt nor a new file makes two of
  it (`LinesOnce`). Without anchors after a write, an anchor is of a file that will not
  be written again (`OneAnchor`). What each step does to the files is said once
  (`DiskMoves`), and each part follows from that.

**SnapshotsProofs.** `SweptIsShredded` and `KeptPartsOpen`. The first rests on
`SweepInv`: what a sweep has passed is gone, and nothing past is made again, since a
save is of a day that is not past and a process that looks at an older day has
ended its save. The second adds three parts: `Owned` (a part is saved once, by the
process that took its event), `Going` (what a sweep removes is past) and `HeldKey`
(the key a save holds is the key of its day until that is past). Without HeldKey, a
process whose own key lost the race could seal what nothing opens.

**WriteGuardProofs.** `KeptFirst`, `UnrecordedStaysLast` (UnrecordedStops),
`StoppedStays`, `LimitIsKept`, `OverwriteIsReported`. `Sound` relates the step of a
commit to its request: it leaves once, after the snapshot, and a page changes only by
landing. A failure called definite is one ChurchTools refused; so whatever answer and
read back it had, a call whose request may still land says so at its end (`sent`),
and one without its line has blocked the guard. That no other call comes past its
last look is then a matter of one step. For the limit, `Placed` says that a call that
sends has a count within it (`Within`), and the calls that hold a place of a day
(`Taken`) are never more than the limit, nor than the counter of that day until it is
removed; only calls counted afresh come after that (`TakenMoves`). For the edits, `Seen` says that the text of a
commit stands on the page only once it landed, and that an edit it replaced
unread leaves the version at two above what it read, so that a read back that
finds it one above has lost nothing.

**UndoProofs.** `OverwriteIsAsked`, `SecondRestores`, `NotSentHasNoEffect`,
`EffectIsTold`. The invariant says that versions and values go together: the object,
if still at the version a command read, holds what the command read (`Watched`),
what a command sends follows from its snapshot (`Planned`), a snapshot of an undo
is what that undo read (`Honest`), and no command is ahead of the object
(`Ordered`). `EffectIsTold` is about the line of the audit: what was carried out has
one, or its command said that it has none. Which outcome it told is not part of it.

**UndoProofs, on the diff.** `ShownIsRight` (ShownLeadsThere), for any two texts,
bounds and context: no diff that is shown is refused by `applyDiff`, and what it makes of
the old text is the new one, line for line. `DiffInvariantHolds` is the invariant it
rests on, which follows one position in both texts through the whole program:

- What is left. The script so far leads from the beginning of both texts to a place
  (`Reaches`), and what is still to do leads on from there to the end of both, box by
  box (`Links`, `TaskFits`). A step of the script moves that place, and nothing else
  does, so that at the end the script leads through both texts (`Scripting`).
- The search. For `Split` the snake must lie inside its box, which no line of the code
  checks. A position is in the box, or past its edge only where the neighbour it comes
  from had already stopped at that edge; this is about every diagonal of the step and
  of the one before (`FwdFull`, `FwdPart` and their mirror images), while other entries
  of the arrays may be left from another box. From it: where the two meet, the meeting
  is inside (`ForwardMeetsInside`, `BackwardMeetsInside`). The step from the end reads
  the positions of the search from the start, so one invariant holds both.
- Hunks. Those shown lie in order with nothing but equal lines between them
  (`HunksFit`, `Gap`), each leads from its place in both texts by its counts
  (`HunkFits`), and the open one ends where the script goes on (`Drafted`, `Hunked`). A
  hunk that joins the last one and a hunk that begins with its own context are told
  apart by the length of the gap; the invariant says that neither shows a line twice.
- Applying. The text made so far is how the new text begins, up to where the hunk, or
  the line in it, begins (`Applying`). Hence each check of `applyDiff` passes.

`HalvesAreSmaller` says why `solve` comes to an end: every split leaves two boxes
smaller than the one it splits. A snake in a corner of the box would leave the whole box
to be solved again. None is found there because the lines both texts share were taken
off both ends before the search (`FirstDiffers`), so no path of no steps reaches the
other end.

The loops of the code are the steps of the model, so none of these proofs needs an
induction over the data: the longest run of equal lines is the greatest of a bounded set
of numbers (`MostOf`), and a script or a list of hunks leads on because each of its parts
does (`LeadsFurther`, `HunkAdded`).

Only model-checked: liveness (EveryCallEnds of both kinds, DecidedContentGoes,
ExpiredGoes); GivenUpGoesOn, which is about ENABLED; and ShownIsShortest, which compares
the diff with a longest common subsequence. That one is computed by recursion over both
texts, and the changes are counted by a fold over the hunks, so it needs induction over
data; and the theorem would be about every script between two texts: that the furthest
position on each diagonal is the furthest of any script of as many steps.

## Not modelled, and why

Most of the repository is text and data: catalogs of messages and sentences,
schemas, output of commands, smoke scripts against a real ChurchTools, the index of
its documentation. None of it has state that several actors change, and the models
say nothing of it; they cover the parts where an order of steps can go wrong.

- Registry, tenants, identities and configuration are read once and keep no state.
- Redaction, pseudonyms, the lexer, the markers and the texts of confirmations are
  about characters.
- The match of a call to an entry of the policy is a pure function of that call.
- Tools turn an input into reads and a result, and `churchtools/client.ts` builds
  URLs and reads answers.
- Sockets and TLS are I/O, `destroy` of the transport is called nowhere outside
  of tests, and runner and workflows are placeholders.
- Within modelled parts: the syntax of files, checks of owner and mode, exit codes and
  a start that fails, calendar writes of the guard other than an undo (they share
  its steps), and the `list` command.

## What is left

1. ShownIsShortest as a theorem, by furthest reaching paths: a script of d changes ends
   on each diagonal at or before the position the search keeps for d, so that the two
   searches cannot pass each other before the least number of changes is found.
2. The match of the policy and the protected sections of a page as pure functions
   against reference definitions.
