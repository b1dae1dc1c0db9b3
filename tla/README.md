# Verification of Master of Panes

Master of Panes (MoP) supervises coding agents that run in tmux panes. A
manager's pane (slot 0, "PM") hands issues to numbered dev slots; one local
server (`src/src/server.ts`) records who works on what in SQLite, types into the
panes, listens to the hooks the agents' sessions post, and mirrors ownership in
GitHub labels. Around it stands a body of Python programs
(`src/scripts/`): an installer, a process cleaner, the manager's ledger and its
heartbeat, the ready pool of issues, CI verdicts, the merge script. This
directory holds TLA+ models of the parts of both where a mistake loses or
duplicates work, with the TLC runs that check them and the TLAPS proofs about
the core.

The server is one Node process: what runs between two `await`s is atomic, and so
is one SQLite transaction. Its models take their grain from that: one action per
transaction, or one per stretch from one `await` to the next. A Python program
is a process beside others: its models have one action per call of another
program or of GitHub, per read or write of a file others write, and per
transaction; whatever else lives on the machine or on GitHub moves in between.

Paths of TypeScript files are relative to `src/src/`, of Python files to
`src/scripts/` (`CLAUDE/` is `src/scripts/pm/shared-assets/claude/`).

## 1. Inventory

### The server

| Component | State | Operations | Hard behaviour | What makes it correct | Modelled |
|---|---|---|---|---|---|
| Slot authority (`db.ts`) | a row per slot: owner tuple, epoch, task, do-not-disturb, idle, activity, turn pointer; receipts of release effects | assignSlot, assignIssueToSlot, assignSlotSimple, rebindSlot, releaseSlotSimple, commitNativeRelease, commitNativeNoPaneRelease, syncSlotCheckout, turn writes, updateSlot | callers act on stale readings; hooks, operators and machines interleave | one owner per slot, one slot per lane, one epoch per ownership | `SlotAuthority` |
| Slot release coordinator (`slotRelease.ts`) | set of slots being released, handlers, receipts in the database | operator, effect and no-pane releases; replay of a receipt | owner checked before awaits and freed after them; overlap; crash before the answer | a release frees the owner it was meant for; an answered effect is on record | `SlotRelease` |
| Hook processing (`hooks.ts`, the hook route) | handlers that wait for git and GitHub | Stop, PostToolUse, SessionStart, UserPromptSubmit, SessionEnd | the client gives up after 3 s while the handler goes on; lost hooks | a running turn is not assigned over; the recorded head only advances | `HookTurn` (effects on the row) |
| Assignment effect (`assignmentEffectRoutes.ts`, `interruptBeforeClear.ts`) | an intent per effect: state, custody of the delivery, label receipts | assign-effect request, resume, replay, background projections | ten awaits in one handler, overlapping retries, crashes between ownership, paste and receipt | the task is pasted once, into a pane of its owner, and "assigned" means so | `AssignEffect` |
| PM clear (`pmHandoffClear.ts`, `pmClearLatch.ts`, fenced writer in `relay.ts`) | request and obligation, durable latch, generation, the writes under way | request, reconcile, Stop, write, acknowledge, fail open | HTTP to itself, answers of unknown outcome, new work between any two awaits | a clear is pasted once, never over newer work, and never stays pending | `PMClear` |
| PM event queue (`relay.ts`, `db.ts` 2888-3066) | rows by slot and type, a promise chain of drains and deliveries, the journal of attempts | enqueue, coalesce, drain, deliver, submit | a paste whose end is not seen; fresher rows during a delivery; restarts | an occurrence is pasted once and lost only to a fresher or more urgent one | `PMQueue` |
| Cadence and the hourly debt (`pmCadence.ts`, `hourlyReportObligation.ts`) | due keys, the record of the hour's debt, child processes, rows of the ledger | tick, manual run, writer, reconcile, remind | children outlive the server; two callers bring one record up to date | one prompt and one reminder a bucket, a paid debt stays paid | `PMQueue`, `HourlyDebt` |
| Respawn when idle (`respawnWhenIdle.ts`, the respawn route, `health.ts`) | a request per slot, marks, cooldowns | schedule, cancel, tick, respawn, restart of a dead slot | ten awaits between the look and the launch; three launchers of one pane | one /exit a request, nobody's work is ended, no launch over a boot | `RespawnIdle` |
| Family-2 route and adapter, issue projection, release lease, ops jobs and audit, waits for SessionStart, PM exit and maintenance, interrupt keys, exit episodes, stuck detector and wedge interrupt, send lock, composer, pane identity, MCP server | see `PROJECT.json` | | | | no, or only as results (section 7) |

### The programs

| Component | Hard behaviour | What makes it correct | Modelled |
|---|---|---|---|
| Release cutover (`install-release.py activate`) | a pointer and several shared files change one after the other, with edits by others and a service that may not come back | never a mixture of two releases; foreign bytes survive; the exit says what is the case | `ReleaseCutover` |
| Shared assets, retirement (`install-release.py`) | files edited where they are deployed; several targets of one source; links swapped | nothing unreviewed, uncommitted or unsaved is overwritten or deleted | `SharedAssets`, `Retirement` |
| Process cleanup (`CLAUDE/scripts/stale-process-cleanup.py`) | an old scan: processes exit, pids are used again, brokers get clients | a signal reaches what was scanned and judged; "terminated" is true | `ProcessCleanup`, `CodexBroker`, `CleanupStreaks`, `CleanupScans` |
| Heartbeat (`sakshi-heartbeat.py`, `runtime_observation.py`) | one statement from several reads | it is true of one attempt, head or pane | `CapacityAlerts`, `OpenPRAudit`, `SessionAge` |
| Open-PR snapshot (`CLAUDE/scripts/pm/heartbeat/pr-open-snapshot.py`) | slots, list, threads, receipts and ledger rows are read one after the other, and any read may fail | nobody is sent to a pull request that has an owner; a merge ask is earned | `PRSnapshot` |
| Stop hooks (`pm-stop-group-runner.py`) | sessions share a cooldown file | a finding is suppressed only after it was shown | `StopGroup` |
| Obligations and packets (`pm-ops-legacy.py`) | commands overlap; reconciliation closes by ids it read before asking GitHub | one open row a key; what was settled stays so | `ObligationLedger`, `TransitionPackets` |
| Ready pool (`ready_pool_select.py`) | reads label by label, a short cut for one pick | the short cut answers what the full ranking would | `ReadyPick`, `DependencyHell` |
| Contract repair (`ready-pool-contract-repair.py`) | edits under a pin, with a lease and crashes | a repair settles; an edit that was there is kept | `ContractRepair` |
| Assignment gate (`ready-pool-assignment-gate.py`) | caches bound to heads | no issue is recommended over a boundary that waits | `AssignmentGate` |
| Backlog triage (`backlog-triage.py`) | relabels between looks, beside the assigner | what is reported promoted is a clean member of the pool | `BacklogPromotion`, `TodoRepair` |
| Cleanup after a merge (`pm-cleanup-pr.py`) | effects on GitHub whose outcome is unknown | each is asked for once | `CleanupPR` |
| CI (`publish-ci-verdict.py`, `ci-success-reconciliation.py`, `merge.py`) | new heads, attempts and runs between reads | evidence is of its own head and run | `CIVerdict`, `CISuccess`, `MergePR` |
| Heartbeat composers, other snapshots, reports, validators of one input, clients of the routes, skills | they read and format | | no |

The hazards, each at its line, are in `PROJECT.json`; one without a property
says why.

## 2. The modules

```
SlotOwnership   abstract: owner and epoch per slot
     ^ implements
SlotAuthority   the slot table            <-  SlotAuthority_proofs
     ^ extends                                       ^ extends
     |-- SlotRelease    release handlers    <-  SlotRelease_proofs
     |-- HookTurn       hook handlers and the agent  <-  HookTurn_proofs
     |-- AssignEffect   assignment handlers <-  AssignEffect_proofs
Lanes           tuples and lanes, used by the table and its abstraction
PMClear         the manager's clear       <-  PMClear_proofs
                (slot 0 has no row)

MCHostPrograms  ReleaseCutover SharedAssets Retirement ProcessCleanup CodexBroker
                CleanupStreaks CleanupScans CapacityAlerts OpenPRAudit PRSnapshot
                SessionAge StopGroup ObligationLedger TransitionPackets
                                          <-  MCHostPrograms_proofs
MCWorkPrograms  ReadyPick DependencyHell ContractRepair AssignmentGate BacklogPromotion
                TodoRepair CleanupPR CIVerdict MergePR CISuccess
                PMQueue HourlyDebt RespawnIdle
                                          <-  MCWorkPrograms_proofs  <-  MCWorkPool_proofs
```

`SlotRelease`, `HookTurn` and `AssignEffect` extend the table: their actions call
its transactions with what a handler has in its hands at that moment, and the
table's other operations run beside them. `MC*` modules hold the instances.

The modules of the programs share no state, and each is a specification of its
own. `MCHostPrograms` and `MCWorkPrograms` instantiate them for TLC: the
variable `program` is chosen at the start and says which of them runs, the
variables of the others stay at one value (`NULL`, or `"off"`). So one run
explores the disjoint union of the state graphs, and each property is the
conjunction over the programs it speaks of. It is no composition and claims
nothing of programs running together; where one program meets another (two
publishers, two commands, the assigner beside the triage) that other is in its
module.

**Lanes** is the assignment tuple (`AssignmentTuple`): repository, issue, pull
request, branch, head, work kind, claim time. `Normalizable` is
`normalizeAssignmentTuple`, `TupleMatches` is `assignmentTupleMatches`. Two
tuples clash (`LaneClash`) when they meet in one of the table's three UNIQUE
indexes. Issues, branches and heads are model values; what matters of them is
equality and absence.

**SlotOwnership** is the promise: a slot has one owner or none, no two owners
clash, and every change of an owner moves the slot's epoch by one.

**SlotAuthority** has a record per slot (`rows`) and the receipts of release
effects (`receipts`). One action per public method that writes a slot, named as
in the code, with the method's refusals as guards. Callers are not modelled
here: an action takes any epoch and any tuple a caller may have read
(`Readable`, `Epochs`), so a stale reading is simply one of the arguments. A
refused call changes nothing and has no action. The head of an owner moves
without an epoch; `WorkAges` is the passing of the productive-work bound of
`abandonTurn`.

**SlotRelease** adds the coordinator: `inProgress` is `inProgressSlots`, `call`
the local state of the handlers (the await each one is at), `binding` what each
effect was minted for, `acked` the effects whose caller was told "released".
`CommitRelease` frees whatever the row then holds and `CommitNoPaneRelease`
compares again, as the code does. A crash loses handlers and marks and keeps the
table.

**HookTurn** adds the agent of each slot (`pane`: is a turn running, on which
branch and head), which the server cannot read, and the handlers (`hook`). A
handler reads the row, awaits three git commands, writes, and for a Stop may
await `gh pr list` before it ends the turn. `Patient` says whether the agent
waits for its hook's answer; `hook-relay.sh` gives up after three seconds, so a
patient agent is the normal case and an impatient one the slow case.

**AssignEffect** adds the intents of effects, the handlers with their pin, the
sessions of the panes and the history of pastes. The handler of
`POST /slots/:n/assign-effect` is split at its awaits: take the pin, interrupt,
clear, observe, commit, claim the custody, paste, verify. Intents are idempotent
by key and survive crashes; the label projections run in the background and are
lost by one.

**PMClear** has the request and its obligation (`handoff`), the latch, the
generation and boot every Stop pins itself to, the Stop handlers, the writes and
what each clear has done to the pane (`effects`, history). A Stop is three
steps: entry (pins), claim after the body is read (arms after a saved handoff),
and the HTTP call to the writer; the hook handler after it fails open an
unacknowledged write. The writer is split at the two points its fence guards,
the paste and the Enter. The answer of the pane, of the ledger and of the HTTP
call is any the code distinguishes.

**PMQueue** has the rows of one slot and of the manager by type, each named by
its stamp (`enqueued_at`), the latest journal entry of each stamp, and the
promise chain. A drain and a delivery are jobs of that chain; a job is split at
its awaits (the pane, the check's file, the paste, the key), and while it is
between two of them (`Awaiting` is false) nothing else of the server runs. The
cadence's tick awaits its own delivery. Whether a paste happened is a choice
whenever the code cannot know.

**HourlyDebt** has the record of the hour in the config table, the children that
write the ledger's row, the two callers (minute tick, manual run) and the
ledger. `SettledRecord` reads the record again, as `settleHourlyWriter` does; a
child goes on after a crash of the server.

**RespawnIdle** has one slot, its agent, the pending request, two callers of the
respawn route, the send lock, the health checker, and the mark and the cooldown
that keep them apart. `prompts` counts what `respawnWorkToken` can tell, so a
turn that came and went between two looks is seen. Two assumptions stand in its
guards: an agent that dies by itself does so while no keys are being sent, and a
cooldown (two minutes) outlasts a boot that was seen to begin, and the lookups, of
a few seconds each, between a look of the health checker and its launch.

The Python modules say at their head what they model and what they leave out.
They keep the order of the program's reads and writes and every early exit, and
abstract what is read to the shapes the decision tells apart: an issue is a
record of the facts its labels and body say, a process is a pid with its start
and parent, the bytes of a file are a value. A `...Moves` action is the rest of
the world; it is bounded by `Max...Moves`.

**PRSnapshot**, the latest of them, has a world of one pull request, a slot, three rows of the ledger and a receipt; its `Read...`
actions are the reads of `main` in their order (GitHub's list and the review
threads in either order, as they are read by two threads), each of which may
fail as the code lets it. The last read classifies: `State` and `NextOf` are the
chain of `classify_pr`, over the copy that was read. Two ghosts remember what was
so ever since the first read (`snSteady`) and what was so at some moment
(`snSeen`); the properties are stated with them.

What is abstracted everywhere: wording, audit events, logging, timestamps (only
their order, or whether a bound has passed), terminal text (the pane is one of
the answers the code tells apart), and configuration.

## 3. Runs

| Run | Instance | Question | Result |
|---|---|---|---|
| `authority_lanes` | 2 slots, 2 repositories, 2 issues, 1 pull request, 1 branch, epochs to 2, tuples that clash in each index | can two slots own one lane; does the table implement SlotOwnership | holds |
| `release_safety` | 1 slot, 2 handlers, 2 effects, 2 lanes, 1 turn, epochs to 2, crashes | turn pointer, receipts, marks, the right owner for no-pane effects, every release ends | holds |
| `release_binding` | the same | does a committed effect free the owner it is bound to | violated (finding) |
| `hooks_patient` | 1 slot, 2 sessions, 2 branches, 3 commits, a hook at a time, restarts, lost Stops | are running turns spared; does the head only advance | holds |
| `hooks_late_turn` | 2 handlers, impatient agent | the same when the client gives up on a Stop | violated (finding) |
| `assign_retry` | 1 effect, 2 handlers, releases, new sessions, crashes, epochs to 3 | pasted once, only to its owner; "assigned" is true | holds |
| `clear_safety` | 2 Stop handlers, 2 requests, 1 piece of new work or a new session | pasted once, only untried clears tried again, nothing stale, ledger known | holds |
| `clear_ends` | 1 Stop handler, 1 request, 2 interruptions, a crash, fairness | an attempted clear ends | holds |
| `host_programs` | fourteen programs, one at a time | what section 4 says of each | holds |
| `work_programs` | thirteen more, one at a time | the same | holds |
| `ci_green` | `MCWorkPrograms` with the one program, 2 pull requests, 1 guard run a tick, fairness | is every green pull request surfaced | violated (finding) |
| `ci_flake` | the instance of `work_programs`: 2 publishers, 2 runs, 3 publications | is a repeated flake quarantined | violated (finding) |

### Why the bounds are enough

A property of the table relates at most two slots and two lanes, so two of each
show it; the proofs of section 5 then cover any number. An epoch of 2 lets a
slot be owned, freed and owned again, and 3 lets a stale reading be two owners
old. Every race in the handlers is between two of them, or between one and a
transaction of the table, which is unbounded in number. Three commits form a
fork: two on one line and one across, which is all that "advances" can get
wrong. Two requests are needed for a replaced clear, one further generation for
work that comes in at any point of a Stop or a write; `clear_ends` trades the
second handler for a crash and a second interruption, because what it asks is
whether a latch can be left with nobody to settle it. `PM_HANDOFF_MAX_RECONCILE_ATTEMPTS`
is 1 in the instances: what matters is one try before giving up and one after.

In the unions each program's constants are constants of the union, and their
values are in the configurations. The pattern is the same throughout: a time-of-check race needs one move of the world between
two reads, so `Max...Moves` is 1 wherever one move is enough to invalidate any
single read, and 2 where something has to change and change back. Two processes
of a program suffice for their races with each other. The inputs (issues,
rows, runs, panes) are sets of shapes, one for each way through the decision.
`CleanupStreaks` has three runs, one more than a streak needs, so that one can be
lost in the middle. `PMQueue` has two rows - a fresher one over one that is being
delivered -, two waiting jobs and a restart. `HourlyDebt` has two hours, three
children (two attempts and one of the next hour) and a restart. `RespawnIdle`
bounds requests and launches together by two (`MaxRespawns`): two requests, or
two launches over one another, or one of each.

`PRSnapshot` has two moves, so that something can change and change back between
two reads, or two facts move one after the other (a receipt and a push, a claim
that is written and one that lapses); its three pull requests are one for each
way into the decision, and a move can add a label, a comment, a check, a row or
a slot to them.

`MaxEpoch`, `MaxSession`, `MaxRequest`, `MaxGen`, `MaxBoot`, `MaxCrash` and the
`Max...` and `...Moves` constants of the programs are bounds of the models and not of the
code: they stand in guards of the actions that would count on. Deadlock is not
checked where those bounds, or the end of a program, legitimately stop the
system; the configurations say so.

### Fairness

`release_safety` checks `ReleasesEnd` under weak fairness of each handler's
`Continue`: once begun, a handler goes on, because each thing it waits for - the
interrupt's keys, git, `gh` - is a shell with a timeout and its failure is one
of the branches. Nothing is assumed of the callers, and a crash also ends a
release.

`clear_ends` checks `AttemptEnds` under weak fairness of the Stop handlers and
writers (timeouts again), of the arrival of a Stop for the current session (a
turn of an agent ends, and its Stop hook is posted) and of time passing. It is
not assumed that the pane acknowledges, that HTTP succeeds, or that the server
stays up.

`ci_green` assumes weak fairness of the watchdog's steps (it is scheduled, and
each call it makes has a timeout) and of a PM call that has begun. Its
counterexample is a fair behaviour: the watchdog ticks for ever.

## 4. What the properties say

*Table.* `LanesExclusive`: the pre-checks of the four claims suffice, so that the
UNIQUE indexes never turn a claim into an exception. `ImplementsOwnership`: the
refinement; it is what forbids a new owner without a new epoch and an epoch
without a new owner. `TurnPointerConsistent`, `EpochReleasedOnce`: the parts of
a row that different writers own stay consistent in any order of claims, hooks
and releases.

*Release.* `InProgressExact`: the mark is there exactly while one handler works,
through a dozen returns and crashes. `AckedEffectHasReceipt`: a handler that
finds its slot free answers "released" without writing a receipt, which is right
only because nobody else can have freed it meanwhile. `NoPaneReleasesItsOwner`:
its transaction compares again after two awaits. `ReleasesEnd`: liveness.

*Hooks.* `RunningTurnSpared`: guarded claims, rebinds and no-pane releases never
change the owner of a slot whose agent is in the middle of a turn, though the
row knows of turns only through hooks that are delayed, lost or cut off.
`HeadAdvances`: what hooks observe moves the head along the line of commits,
though each decides on a head it read three awaits earlier.

*Assignment.* `PastedOnce`, `AssignedMeansPasted`, `PinnedPasteToOwner`: custody
is taken before the paste and given back only when nothing was pasted; the pin
is compared again inside the send lock.

*Clear.* `PastedOnce`, across Stops, lost replies, replaced requests and
restarts; `RetryIsUntried`, the reason for it: what may be tried again has not
reached the pane; `NoStaleEffect`: no paste and no Enter after new work or a new
session, however the five awaits between Stop and Enter fall; `CreatedIsKnown`:
an obligation id that comes back after its request was replaced is not taken for
its successor's; `AttemptEnds`.

*Queue, debt, respawn.* `DoneOnce`: no row of the queue reaches the pane twice
and a bucket's prompt is due only when it did (`OccurrenceOnce`), an hour is
reminded of once and prompted for only with its debt on record (`RemindedOnce`),
and a request ends an agent at most once (`ExitOnce`), all across restarts.
`RowsKept`: a row leaves the table delivered, for a fresher or more urgent one,
or as out of date, never with another's delivery; and a debt that was paid is
not opened again by a late child or a second attempt (`NotReopened`).
`RestartIsDue`: the Enter of /exit follows no work that began after the route
was entered, a deferred one meets the session and assignment it was asked for,
and no launch is typed over a boot somebody waits for.

*Machine (`host_programs`).* `CutoverSafe`: the service is never started on the
pointer of one release and files of another, foreign bytes survive, the outcome
is true. `AssetsRecoverable`, `EditsKept`: of failed installations and of edits
between gate, backup and replacement. `EndedWasDue`, `SignalsAreAimed`: of the
process cleaner, whose scan is old by the time of a signal. What dies by the KILL
of an age scan (`KilledWasListed`) is the process that was listed and matched, or
one that started after the listing and took its pid. replayd is ended once two
applied passes in a row counted it hot under the start it still has, though the
look before the signal does not ask for the load again, and its load and its
start are two readings (`EndedAfterStreak`).
`ReportsAreCurrent`: an alert, a motion state and a due clear are true of one
attempt, head and transcript. The audit reads one page of the repository's runs,
so a lane whose run is not on it is excepted (`auOff`); and a stop's finding that
is suppressed was shown a moment ago, or was lost then with a hook that was
killed between its record and its print, or behind the cut of the message
(`lost`). `LedgerSound`, `DebtsKept`: rows and packets after any order of
overlapping commands. `HandoffKept` follows the debt of a merged pull request's
cleanup from the close of its other rows on: nothing that overlaps settles it
before it is paid, and only a pass that dies between the two commits, or finds
the database locked, loses it (`PassDies`).

*Work (`work_programs`).* `PickIsFirst`: the fast check of a pick agrees with
the full ranking when nothing moves and every request is answered, and nothing
that was available all along is passed over when something does, unless its own
dependencies could not be read (`blind`); an issue that can never wake is
reported. A lookup that fails is an answer of the model as it is of the code: the
issue counts as gated, and after one failed read of native blockers the run goes
on without asking for any (`latch`). `RepairsSettle`, `GateHolds`,
`MembersAreClean`: of the pool's repairs, gate and promotion. The last look of a
promotion asks less than its admission, so `PromotedIsClean` is in two parts:
runnable and no pull request when admitted; todo, with one priority, owned by
nobody and with the handoff in order at the last look. The edit that rolls a
promotion back may fail unseen; what survives that is a status label on every
issue (`StatusIsKept`). `EffectOnce`: the cleanup's effects on GitHub.
`EvidenceIsItsOwn`: a handoff, a quarantine and a merge rest on evidence of that
head and run; where `merge.py` has no receipt to rely on it asks of Python only
that the job of that name succeeded, and `MergedIsTested` says no more there.
`SettledStays`: what one process settled no other takes back on an older read; a
cleanup's receipt with a step of unknown outcome is rewritten by nobody once that
step is not at hand.

Of `ReportsAreCurrent`, the open-PR snapshot has three parts.
`DispatchIsUnowned`: a repair is asked for only when no slot, label, ledger row,
running gate, hold or rejection was there all along, of those whose read was
answered. An owner that moves from a claim to a slot between the two reads is
not covered: the slots are read first, and such a pull request is reported
unowned although it always had one. `AsksAreEarned`: a merge ask has a receipt
of that head and none of the things that rule it out. `KnownOwnerWasLive`: an
owner is named for a live claim of the reported head, else it is unknown.

`PROJECT.json` lists for every property a mutant of the model - a dropped guard,
a check before the await instead of after it, a swapped answer - that TLC finds
to violate it. The mutants are defined beside the definition they stand in for
and begin with "Wrong:".

Each module has a type invariant (`...TypeOK`); those of the programs are the
parts of `HostTypeOK` and `WorkTypeOK`.

## 5. Proofs

`SlotAuthority_proofs` proves, for every number of slots, lanes, sessions,
effects and requests and every epoch bound, the invariants of the table and the
refinement. The argument is a classification. Every action is one of three kinds
of write (`StepKinds`): it *keeps* the owner and the epoch, it *grants* a lane
nobody competes for under the next epoch, or it *frees* an occupied row under
the next epoch, with at most one new receipt. Each invariant and the refinement
then follow from the kinds alone, so a new operation costs one lemma and not
six. `TypeOK /\ OwnedIffOccupied` (`Core`) is inductive and is what the other
inductions stand on: a freed row must be known to have been occupied for its
epoch to be a step of the abstraction, and a clash is compared between tuples
and never with the absence of one.

| Theorem | Says |
|---|---|
| `TypeCorrect` | `TypeOK` and `OwnedIffOccupied` |
| `OneSlotPerLane` | `LanesExclusive` |
| `TurnsNamed` | `TurnPointerConsistent` |
| `DndEndsWithOwner` | `DndOnlyWhileOccupied` |
| `EpochsReleasedOnce` | `EpochReleasedOnce` |
| `Refinement` | the table implements `SlotOwnership!Spec` |
| `ReleaseTypeCorrect` | `RelTypeOK` |
| `MarksExact` | `InProgressExact` |
| `AckedHaveReceipts` | `AckedEffectHasReceipt` |
| `NoPaneBound` | `NoPaneReleasesItsOwner` |
| `AssignTypeCorrect` | `AssignTypeOK` |
| `AssignPastedOnce` | `AssignEffect!PastedOnce` |
| `AssignedIsPasted` | `AssignedMeansPasted` |
| `PinnedToOwner` | `PinnedPasteToOwner` |
| `ClearTypeCorrect` | `PMClear!TypeOK` |
| `ClearPastedOnce` | `PMClear!PastedOnce` |
| `ClearRetryUntried` | `RetryIsUntried` |
| `ClearNeverStale` | `NoStaleEffect` |
| `ClearCreatedKnown` | `CreatedIsKnown` |
| `HookTypes` | `HookTypeOK` and `OwnedIffOccupied` |
| `HooksKeepTheAuthority` | `ImplementsOwnership`, with hooks, late handlers and restarts at work |
| `TurnsAreSpared` | `RunningTurnSpared`, for patient agents |
| `HeadsAdvance` | `HeadAdvances`, for patient agents |
| `OnceIsOnce` | `DoneOnce`: `OccurrenceOnce`, `RemindedOnce`, `ExitOnce` |
| `RowsAreKept` | `RowsKept` |
| `RestartsAreDue` | `RestartIsDue` |
| `EvidenceHolds` | `EvidenceIsItsOwn`: `HandedOffIsProven`, `BlockedHasPrior`, `MergedIsTested` |
| `RepairsAreKept` | `RepairsSettle`: `ActiveNamesHolder`, `RepairSettles`, `PinnedEditsKept` |
| `GatesAreHeld` | `GateHolds`: `NoTodoOverBoundary`, `OfTheCurrentHead` |
| `EffectsAreOnce` | `EffectOnce`: each effect asked once per receipt, `ReplyAfterClose` |
| `MembersAreKept` | `MembersAreClean`: `PromotedIsClean`, `FillsTheFloorOnly`, `StatusIsKept`, `RejectedStaysOut`, `RepairedIsMember`, `SweepAfterAll` |
| `SettledIsKept` | `SettledStays`: `UnknownKept`, `SettledKept`, `ProposedTextKept` |
| `PicksAreFirst` | `PickIsFirst`: `FastIsFull`, `NoInversion`, `NeverWakesIsReported`, `RootsWereRead` |
| `WorkTypesHold` | `WorkTypeOK` |
| nine of `MCHostPrograms_proofs` | the nine properties of `host_programs` |

`SlotRelease_proofs` reuses the kinds for the table's part of each step and adds
the invariant `RelInv`. `InProgressExact` and `AckedEffectHasReceipt` are not
inductive: that a mark is taken off by the handler that set it needs to know
that the handler is alone with its slot (`Alone`) and has it marked
(`AllEntitled`), and that an acknowledged effect has a receipt needs to know
that a slot under release stays occupied until its handler commits - which holds
because only handlers free slots and marked slots have one. `NoPaneBound` adds
`BoundInv`: receipts only of minted effects, and only family-2 effects at the
awaits of the operator's path.

`AssignEffect_proofs` extends the proofs of the table: a commit is one of its
grants, the interrupt keeps the owner, and the other writers are its own
actions, so the table's types come for nothing. The rest stands on `Custody`,
which relates three pieces of state that different handlers and crashes write:
what the intent says of the packet, what has been pasted, and where the handlers
are. Custody "unissued" means nothing was pasted, "delivered" that the task was
pasted once; "unknown" is all that is known while a handler sends, and then it
is the only one that sends that effect (`OneSender`). None of `PastedOnce` and
`AssignedMeansPasted` is inductive without it: a second handler may finish what
it did not paste, and what makes its answer true is the custody it read. Two
lemmas carry the step, one for steps that leave custody and pastes alone
(`Calm`) and one for a step of one handler with an effect nobody else sends
(`Moment`). `PinnedPasteToOwner` needs `Fenced` besides: the epoch of a pin taken
after the commit is behind the row's, or the row still has the effect's lane -
because a write that keeps the epoch keeps the lane (`KindKeepsLane`), and
epochs never go back.

`PMClear_proofs` has three invariants. `Counted` bounds the latch's clear by the
requests there were, which the types need. `Consistent` says what the latch and
the write of a clear know of each other: a clear the latch may try again has no
write under way and has not reached the pane. That is what a busy answer, a lost
answer, a request that replaces another and a restart in the middle must each
keep, and `ClearPastedOnce` follows. `PinsOld` says that a Stop's pin is never
ahead of the generation, and that work or a session that came in since has put
it behind; so the fence of the writer, which compares the pin with the
generation, stops everything stale.

`HookTurn_proofs` classifies again: a step of a hook keeps the owner, or is one
of the table's own writes, whose kinds are known, and so the refinement comes for
nothing. The two properties of hooks hold for patient agents only (`ASSUME
Patient` in the theorem; `hooks_late_turn` shows the other case), and stand on
`PatientInv`. An agent that waits has at most one handler at work (`OneHandler`); while a turn
runs the row says which (`TurnKnown`), and only handlers of its tools are at work
(`ToolsOnly`), so no Stop can close it; and if the row is still under the epoch a
handler read, it has the branch and the head the handler read
(`HandlersAnchored`). The last is why the head advances though the
comparison was made with a copy three awaits old: if the copy is old, so is its
epoch, and the write is refused.

`MCWorkPrograms_proofs` proves about the programs that carry work. Each has an
inductive invariant at the end of its module, which TLC checks on its instance
and the proof carries for every value of the constants.

* *Queue* (`QueueInv`). That nothing is pasted twice is not inductive: an attempt
  is journalled before its paste (`AttemptsJournalled`), so what was pasted has a
  mark, and what has a mark is not tried; of the cadence's rows there is one and
  one job for it, that of the tick that waits for its answer (`OneTickJob`,
  `OneCadenceRow`) - without which a second delivery could answer the tick of
  the first.
* *Debt* (`DebtInv`). The record precedes everything: a prompt, a child and a row
  of the ledger are for hours whose debt is on record or paid
  (`DebtsAreRecorded`), a reminder for one that was claimed in the record
  (`RemindersAreClaimed`), and a bucket has one running child, and a record that
  says "failed" none (`WritersAreAlone`).
* *Respawn* (`RespawnInv`). The mark is owned by one route, which has the send lock
  and an agent in the pane until its Enter (`MarkIsOwned`); as long as the count of
  prompts is the one a route entered with, nothing was begun since
  (`QuietIsCounted`); an exit that was sent is in its request's own record
  (`ExitsRecorded`); and a boot is awaited by the mark, the cooldown or the health
  checker, or by nobody any more (`BootsAreAwaited`).
* *Green CI* (`ReconcileInv`). Whoever is on the way to a handoff carries the
  proof of that head (`HandoffsAreProven`), the tick and the manager are never at
  one pull request behind the lock, and what the tick decided under the lock
  still holds when it writes (`OneUnderTheLock`).
* *Verdicts* (`VerdictInv`). The store, the comments and the copies a publisher
  listed speak of recorded runs only, because a run is recorded before its
  comment is posted (`EvidenceIsRecorded`).
* *Merge* (`MergeInv`). A workflow run of a trusted classifier is right about what
  the change needs (`RunsAreTruthful`, an assumption on GitHub and the guard of
  the moves), each kind of CI proof says which families were shown, and from the
  comparison with main on all are (`ProofIsEarned`).

* *Pick* (`PickInv`). Of an issue nobody touched what was read holds, and the query
  of its label has found it (`ReadsHold`). The fast check keeps a candidate that
  was free to go when it was read (`PickIsRead`) and looks, chunk by chunk, at the
  issues of a better class: what is left in the queue is all that may still come
  before it, and nothing else (`QueueIsAhead`). So at the end of the queue, or at
  the first chunk of which one can be taken, the answer is that of the full
  ranking. That a set of candidates has a best one (`BestIsBest`), and that a
  chunk sorts before the rest (`ChunkIsAhead`), rests on the issues' numbers.

`MCWorkPool_proofs` goes on with the other programs of the ready pool and the
cleanup after a merge.

* *Dependency report* (`HellInv`). After a level every chain of so many issues is
  read, because what a read issue waits for is read or next (`ChainsAreRead`);
  while nothing moves the reads are the graph (`ReadsAreTheGraph`), and the report
  was made of them (`ReportIsOfTheReads`). Every beginning of a path
  is a path, and one goes on to whatever its last issue waits for unless it was
  cut short or is back on itself (`PathBegins`, `PathGoesOn`). So a walk that was
  not cut short meets everything upstream (`WalkIsWhole`), because upstream is the
  least set of its kind, and an issue that waits on itself is met again on the
  path to it (`CircleIsMet`).
* *Contract repair* (`ContractInv`). Whoever is between taking the lock and
  letting it go holds it, also over a coordinator that died (`HolderIsAlone`);
  what is about to be written is complete and has the edits of what it was made
  from, and at the write the pin says that those are all there were
  (`RowIsRepaired`).
* *Assignment gate* (`GateInv`). Of what nobody moved since the run began, each
  read still holds, the caches that may be a minute older included (`ReadsHold`);
  the recommendation rests on the reads (`SaidWasRead`).
* *Cleanup after a merge* (`CleanupInv`). A run works on the receipt that a later
  call would find, in which nothing is unknown but the step at hand
  (`RunKnowsItsReceipt`). The bound on effects is an account: what was asked for,
  and one more for a run about to ask, is at most what the receipts show as
  tried, and one more where a continuation had read that the label was not there
  (`AsksAreMarked`). The property only says twice at most; without the account a
  crash between the mark and the call cannot be told from one after it. Plans
  close the issue before they reply to it (`PlansAreWhole`).
* *Promotion* (`PromotionInv`). That a P3 joins only a short pool is said of the
  end of a run and decided at its start, when the rows were selected. Between the
  two `Taken` is what the run will have promoted: the selected rows, the row at
  work, those with an outcome. `TakenIsAllowed` keeps the budget of the
  selection: what can be claimed by the listing and what was taken and can go
  fit the target once a free P3 was taken. `RowsAreOpen` says that a row has no
  outcome before it is done and that an untouched row is as it was last read.
  The selection takes rows by rank up to a number; that its size is within that
  number follows from an injection of the selected rows into the ranks.
* *Repair of todo issues* (`TodoRepairInv`). The card at work was listed with the text
  of its proposal and looked at again with that text (`RowIsRead`), it has no
  result yet and a result without an edit is one of the listing
  (`ResultsAreDue`), which holds of the cards nobody touched since
  (`ListedHolds`).

`MCHostPrograms_proofs` does the same for the fourteen programs that look after the
manager's machine, and with it every property of that run is proved. Where the
property is not inductive, this is what had to be added:

* *Cutover* (`CutoverInv`). Each stage relies on what an earlier one looked at:
  the targets written and those to do make up the plan (`PlanKept`), the file
  aimed at holds what it was compared with unless somebody wrote it in that
  window (`AimKept`), and from a look at all files to the boot or exit that
  relies on it the files stand, others' writes aside (`LookKept`).
* *Shared assets* (`SharedInv`). What releases are made of was committed
  (`CommittedOnly`); a run between its comparison and its rename replaces what it
  backed up and its gate allowed, or its own bytes (`RunsLook`); a run whose bytes
  a target holds knows that it wrote there, until its recovery has put them back
  (`OwnersKnow`); and the sync-back copies over what was committed (`SyncLooks`).
  *Retirement* (`RetireInv`): the bundle holds no copy of an edit, and the file
  about to go is the one compared, or something moved since.
* *Cleanup* (`CleanInv`). The policy of a scanned process suits what it is, starts
  only grow, so whoever has a pid later started later, and between the recheck
  and the signal the process stands as scanned or `moved` says otherwise.
  *Broker* (`BrokerInv`): of what was planned, whatever is neither to do nor
  signalled is gone. *Streaks* (`StreakInv`): the count of an entry is that of the
  last sights that saw its incarnation hot, in the history (`Recalls`) or with the
  present one (`Counts`), and the key it counts under may be that of a start that
  could not be read. *Scans* (`ScansInv`): a pid holds the process that was
  listed or one born later, and who is doomed was condemned by the listing.
* *Alerts* (`CapInv`). A run that ended while being read is an error by now, or is
  still to be read again and will not pass (`EndedIsFound`). *Audit* (`AuditInv`):
  ghosts record which lanes executed at some time of the reads and which all
  along; the view holds only the former and, of what it has read, all of the latter
  (`ViewWasSeen`, `SteadyWasSeen`), and no two lanes are told by one state.
  *Snapshot* (`SnapInv`): likewise for what was true throughout of a pull request,
  its rows, its receipt and its slot (`ListTold`, `ClaimWasRead`, `RestTold`, `SeenTold`).
  *Session* (`AgeInv`): a pane is told due from its transcript at that time.
* *Stops* (`StopInv`). What the cooldown records was shown or lost, at that time or
  later, or is about to be printed (`RecordedWasShown`), and a session has one hook
  at work (`OnePerSession`).
* *Ledger* (`LedgerInv`). The duplicates there are when a pass is about to close them
  are ones it has read (`TwinsAreRead`), and while a cleanup is owed the one it has
  read is open and its view of GitHub has not been taken back (`DebtIsCurrent`).

The unions are put together by cases over `program`: the invariant of the union
says of each program that *if* it runs, its invariant holds; a step is one of
that program or leaves its variables alone.

The assumptions are the named ones of the modules: `NULL` is none of the values
it stands for the absence of (`NullIsNoValue`, `NullIsNoName`, `NullIsNoRecord`,
`NullIsNoHandler`), requests carry tuples (`RequestsAreTuples`), what effects
want is lanes (`WantedIsLanes`), the bounds are numbers (`MaxEpochIsNat`,
`MaxSessionIsNat`, `PMClearBounds`), and of `MCWorkPrograms` `QueueAssumption`,
`DebtAssumption`, `RespawnAssumption`, `ReconcileAssumption`,
`MergeAssumption`, `VerdictAssumption`, `ContractAssumption`, `GateAssumption`,
`CleanupAssumption`, `PromotionAssumption`, `CardAssumption`, `PickAssumption` and
`HellAssumption`, of the same kind: bounds are numbers, `NULL` is no value, the
shapes of runs, needs, files and issues are shapes, places in a list are numbers,
a chunk has an issue and a chain an edge at least, and issues
have numbers, by which the code breaks ties, and are finitely many. `MCHostPrograms` has twelve such, one per
program. One says more: `CutAssumption` has the inventory delete no file that the
manifests install. An operator supplies that list, and the installer does not
compare the two; were a file in both, an activation would delete what it
installed. TLC evaluates every assumption in the runs.

One model was wrong in a way the small instance did not show. The proof of
`RestartIsDue` asked what keeps the health checker's launch from being typed over
a boot when the cooldown ends between its look and its launch: time does, and
the guard of `CooldownEnds` now says so. Two were less exact than they read. A
`CASE` in which two arms are true has no determined value: TLC takes the first, as
the code's `if ... elif` does, and no proof can. `SnapshotValid`, `PlanOf`,
`TerminalReason` and `RerunSanctioned` now have disjoint arms, and `Decide` of
the pick is the chain of `if`s that the code has. And `settled`, by
which `RepairedIsMember` and `SweepAfterAll` say of which issues they speak, did
not say since when: it is now nobody's touch since the listing, or since the
repair's own last look. The other changes the proofs asked for
are of form: records are written out where they were updated field by field, a
newest element is chosen from a set of indexes, and "at most one" is said of two
elements, not of a cardinality.

`PickIsFirst` needs inductions: over the length of a path, over the ranks and
numbers of a pool. The induction rules of the library take an operator as a
parameter and cannot be cited, but a set can stand for the operator: a set of
numbers that is not empty has a least one (`LeastNumber`, from `WFMin` and the
well-foundedness of `<`), and the set is that of the counterexamples, or of the
ranks. For this the walk of the report and what is upstream of an issue are
declared by the paths and sets they amount to, and not by recursion, and the rows
of a tick are a function of places and not a filtered sequence.

`WorkTypesHold` is the type invariant of all thirteen programs. For seven it is
part of the invariant above. For the other six (`TypesInv`) the invariants
only say the parts of the types they need; the proofs (lemmas `...TypesGo`) add
the rest, once more by
induction over the steps: that what a job of the queue holds are stamps,
also the batch of a drain, which takes of a slot's state rows at most one
(`BatchTyped`); that the epochs and sessions a route has pinned are among those
there were, for which the type now says that a slot's epoch and session are not
ahead of the moves that made them; that a tick's rows are among the list's.

Model-checked only is liveness (`ReleasesEnd`, `AttemptEnds`, and in `ci_green`
the lack of it): fairness and ENABLED are outside what the installed provers do.
The findings of section 6 are counterexamples, which the runs show. Every safety property that a passing run checks is stated by a theorem.

## 6. Where the code disagrees with its own documentation

Four runs end in a violation of something the repository says of itself.

* `release_binding` (`slotRelease.ts:709`). A committed family-2 effect is
  compared with the row before two awaits, and the transaction after them frees
  whatever owner the row then has. Comment at 563-565: its "strict identity
  binding".
* `hooks_late_turn` (`server.ts:1184`). A turn id is a session id; a Stop whose
  handler outlives the client's patience closes the *next* turn of the same
  session, and `assignSlot` then gives the free slot away over it. Comment at
  `db.ts:1627-1628`: "Never admit a replacement over that live turn."
* `ci_green` (`CLAUDE/scripts/ci-success-reconciliation.py:800`). A tick runs the
  guard for at most `--max-checks` pull requests, one by default, in the order
  GitHub lists them, and a refusal leaves no mark: one that looks green and is
  refused takes every tick, and a green one behind it is never surfaced. Line 2:
  "Durably surface and close terminal-green CI reconciliation work."
* `ci_flake` (`CLAUDE/scripts/ci/publish-ci-verdict.py:192`). The flake store has
  one entry per fingerprint and an entry of the same run does not count: a run
  that is published again is no longer blocked by the earlier run it replaced.
  Lines 132-134: it "is quarantined when the same fingerprint already appeared".

### Also seen while modelling

Behaviours of the models, or of the code beside them, that no run is spent on:

* *A second epoch* (`assignmentEffectRoutes.ts:800`). `desiredTupleAlreadyCommitted`
  compares the head, which hooks move; after a crash between the ownership write
  and the intent, a moved head makes the retry assign the same lane again,
  against the comment at 801-802.
* *A second assignment* (804). A handler that read its intent as planned assigns
  again after another handler's assignment for the same effect was released.
* *A resumed delivery without a pin* (908). The paste after its awaits is not
  fenced, against the comment at 873: "refuse with zero delivery".
* *A receipt overwritten* (594). A replay after one of two label projections
  failed runs both and overwrites the one that had succeeded. One that is
  "pending" when the server stops stays so (575, against 957-961).
* *A clear in another session* (`server.ts:470`). The latch does not carry the
  session whose handoff was saved: if its write was refused as busy and another
  session starts, that session's first Stop clears it. `pmHandoffClear.ts:11-13`:
  "new input or a session change cancels the write".
* *Labels of the wrong lane* (`slotRelease.ts:739`). The labels taken off are
  those of the lane read before the awaits, not of the one that was freed.
* *A swallowed re-request* (`pmClearLatch.ts:131-151`). After a proven harmless
  failure the receipt says "re-request", and a request within ten minutes is
  consumed at its Stop as "recent": `operatorReRequest` is never passed.
* *A consumed handoff that arms nothing* (`pmHandoffClear.ts:355`), when the
  latch is pending in another state at that Stop.
* *Starvation in the queue* (`db.ts:3002`). A row whose delivery is ambiguous is
  never removed and, if it has the highest priority, every later state row of
  its slot is deleted undelivered.
* *A key decided too early* (`relay.ts:998`). Enter or C-q is chosen before the
  awaits of the paste; a manager that became busy meanwhile gets Enter. After an
  ambiguous Enter `pmBusy` stays idle (1032-1042), so the next row of the same
  drain gets Enter as well, against the comment at 1058-1059.
* *A row delivered after it was replaced* (`relay.ts:970`). A delivery that waits
  in the chain pastes the text it was given, also when its row was replaced or
  coalesced away meanwhile; `db.ts:2893-2895`: "we only ever want the latest".
* *A second launch over a slow boot* (`server.ts:2150`). When the boot takes more
  than a minute the mark is taken off without a cooldown, and the health checker
  may type the launch command again. `RestartIsDue` excepts the boot nobody
  waits for any more (`forsaken`).
* *A request that stays* (`respawnWhenIdle.ts:315`). An attempted request whose
  launch was refused is kept until a SessionStart or a cancel.
* *A cleanup that is refused for ever* (`CLAUDE/scripts/pm-cleanup-pr.py:607`).
  When the probe and the plan read different labels, the journal stays as a
  residue and later calls are refused as a mismatch.
* *An unreviewed commit under the merge* (`merge.py:700`). The merge is pinned to
  the head and not to main, which may move after the second check.
* *An obligation of an older head* (`ci-success-reconciliation.py:838`). The
  watchdog's promotion leaves an open `ci_reconcile` row of an earlier head.
* *A failed QA that is not rework* (`CLAUDE/scripts/pm/heartbeat/pr-open-snapshot.py:736`).
  The code looks for the label `qa-failed-rework`, and the label is
  `pm-state:qa-failed-rework` (`sweep.sh:814`): such a pull request is classified
  by its checks, up to a merge ask when its receipt is ready, against line 702:
  "pm-state:qa-failed-rework / pm-blocked:codex / MoP-owned rework -> slot rework".
* *Owned at every moment, and reported unowned* (931-933). The slots are read
  before the claims: a red pull request that goes from a claim to a slot between
  the two reads is dispatched as if nobody had it.
* *A report-only rule that kills* (`CLAUDE/scripts/stale-process-cleanup.py:2731`).
  The policy text says of `codex_broker_cap`: "REPORT-ONLY, never signals under any
  flag"; with `--apply` the code at 2137-2158 ends the brokers that pass its strict
  checks. `SignalsAreAimed` is about whom it reaches, and holds.
* *A rollback nobody looks at* (`CLAUDE/scripts/backlog-triage.py:2101-2115`). The
  edit runs with `check=False` and the reason says "rolled_back" whether or not it
  worked: the issue may stay todo.
* *A last look that asks less* (2096). What has made the issue not runnable since its
  admission (`issue_runnability_refusals`, 1960) is not asked again.
* *A cleanup nobody owes* (`CLAUDE/scripts/pm-ops-legacy.py:2205-2206`). A pass that
  dies, or finds the database locked, between the commit that closes the rows of a
  merged pull request and the upsert of its cleanup leaves no open row that leads
  back to it; line 2154: "Merged PRs hand off cleanup to cleanup_pr".
* *A consumed packet pending again* (1184-1189). A packet command that read before
  another consumed the packet writes the status it decided on then.
* *A finding suppressed unseen* (`CLAUDE/hooks/pm-stop-group-runner.py:313`). It is
  recorded as surfaced before it is printed (593): a hook killed over its ten
  seconds, or the cut of the message at 6000 characters (592), hides it for the
  length of the cooldown.
* *A lane off the page* (`sakshi-heartbeat.py:1974-1978`). The audit reads the newest
  hundred runs of the repository and filters by head after that (2003): an older
  run that still executes is not seen.
* *A dead root that is done* (`CLAUDE/scripts/ready_pool_select.py:956-958`). A blocker
  whose state could not be looked up when the pool was read stays an edge; if the
  report then reads that it is done, it is flagged `DEAD_ROOT`.
* *A streak of nobody* (`CLAUDE/scripts/stale-process-cleanup.py:677-689`). Passes that
  cannot read the start of replayd count together, whichever incarnation each of
  them saw, and a look that cannot read it either lets the signal go (702).
* *An alert every hour* (`sakshi-heartbeat.py`). `_persist_runner_capacity_alert_keys`
  has no caller: a job that stays queued is told each time.

## 7. Not modelled, and why

Text on screens (composer, activity, wedge and stuck heuristics), process
listings, transcripts and log reading are I/O: the models take their verdicts as
inputs. Of the queue, the choice of the submit key with its busy observation and
timers is left out, as are the direct writes to a ready native pane, which have
no row and no journal. Of the health checker, the forced respawn of an
unresponsive pane (`health.ts:820-836`, 964) is left out: it kills what runs in a
pane on purpose, when its screen has not changed for long enough. The debounce timers, plan-approval notices and pending
clears in `hooks.ts` do not write what the properties of `HookTurn` are about.
`commitNativeRelease` is modelled though no caller in `src/src` uses it. Of the
cadence, the windows of the seven tasks, their pauses and seeds are the clock's.

Not modelled though they have state: the issue projection (labels of two owners
under a chain per issue; it is a result that comes later in `AssignEffect` and
`SlotRelease`), the native release lease (a token under a TTL), the exit
episodes with PM exit and maintenance, and the ops jobs. In the programs: the
heartbeat's collectors and composers, the other snapshots, reports, validators of one
input, and the clients of the routes; they read, format and write whole files.
`PROJECT.json` says of each component how far it goes.

## 8. What is left

1. `IssueProjection`, composed with `SlotAuthority`: with no failure outstanding,
   the labels name the owner.
2. `ReleaseLease`: a holder never clears its successor's lease.
3. `ExitEpisode`, composed with `PMClear`'s Stop: one Stop gives one command.
4. `PMQueue` with the busy observation: a drain sends Enter to an idle manager
   only (false today, section 6), and the abstract queue it implements: per
   slot, the last state told.
5. Proofs: the abstract queue of 4, when it is stated; liveness with a prover
   that has ENABLED.
