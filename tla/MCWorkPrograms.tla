--------------------------- MODULE MCWorkPrograms ----------------------------
(* Small instances of the programs that carry work: the ready pool and its *)
(* gates, the cleanup of merged pull requests, CI verdicts and the merge   *)
(* script, and of the server the manager's event queue, the hourly debt    *)
(* and the respawn of idle agents.                                         *)
(* They share no state here: each behaviour is one of them.                *)
EXTENDS Naturals, FiniteSets, TLC

CONSTANTS c1, c2, i1, p1, r1, r2, q1, q2, p2, NULL, NoRun    \* model values

(* The constants of each program, as its module describes them. *)
CONSTANTS Issue, Asked, Chunk, MaxPoolMoves, Shapes
CONSTANTS Node, GatedNode, MaxDepth, DeepFrom, FanFrom, Graphs, MaxGraphMoves
CONSTANTS Coordinator, Backlog, MaxBodyEdits, Bodies
CONSTANTS GatePR, Todo, MaxGateMoves, GateRuns
CONSTANTS Ticket, Target, MaxTicketMoves, MaxPromotions, Tickets
CONSTANTS Card, MaxCardMoves
CONSTANTS Requests, Worlds, MaxAsks, MaxPRMoves
CONSTANTS Run, Publisher, FileOf, PrOf, MaxPublishes, MaxCIMoves
CONSTANTS RunShapes, NeedsChoices, MaxMergeMoves
CONSTANTS PRList, MaxChecks, MaxPushes, MaxPmCalls, MaxFaults
CONSTANTS SlotState, MaxStamp, MaxJobs, MaxQueueCrash
CONSTANTS MaxBucket, MaxWriter, MaxDebtCrash
CONSTANTS MaxRequests, MaxPrompts, MaxLaunches, MaxMoves, MaxRespawnCrash,
          MaxRespawns

(* The states of a slot are those the queue ranks (db.ts,                    *)
(* drainPendingPMEvents); NULL is none of the types; what is bounded is     *)
(* counted, here as in the assumptions below.                               *)
ASSUME QueueAssumption ==
    /\ SlotState \subseteq {"blocked", "idle", "active", "check"} /\ MaxStamp \in Nat
    /\ MaxJobs \in Nat /\ MaxQueueCrash \in Nat
    /\ NULL \notin {"blocked", "idle", "active", "check", "cadence", "reminder"}

(* NULL is none of the two callers of the respawn route.                    *)
ASSUME RespawnAssumption ==
    /\ MaxRequests \in Nat /\ MaxPrompts \in Nat /\ MaxLaunches \in Nat /\ MaxMoves \in Nat
    /\ MaxRespawnCrash \in Nat /\ NULL \notin {"tick", "direct"}

(* Open pull requests have a place in the list.                             *)
ASSUME ReconcileAssumption ==
    MaxPushes \in Nat /\ MaxChecks \in Nat /\ DOMAIN PRList \subseteq Nat

PickShape(k, l, b, h, f, g, m, n, o) ==
    [kind |-> k, label |-> l, body |-> b, hidden |-> h, fit |-> f, gate |-> g,
     met |-> m, native |-> n, owned |-> o]
PickShapes ==
    {PickShape("new", 1, 9, FALSE, TRUE, "no", FALSE, FALSE, FALSE),
     PickShape("new", 9, 0, FALSE, TRUE, "dependency", TRUE, FALSE, FALSE),
     PickShape("rework", 0, 9, FALSE, FALSE, "other", FALSE, FALSE, FALSE),
     PickShape("rework", 1, 9, FALSE, FALSE, "no", FALSE, FALSE, TRUE),
     PickShape("new", 0, 9, TRUE, TRUE, "no", FALSE, FALSE, FALSE),
     PickShape("new", 0, 9, FALSE, TRUE, "no", FALSE, TRUE, FALSE),
     PickShape("new", 1, 9, FALSE, TRUE, "dependency", FALSE, FALSE, TRUE)}

\* With one gated issue no chain ends in it, so whether it is stale makes no difference;
\* the two others are alike but for their names.
BlockerGraphs ==
    LET Issues == [state : {"open", "stale", "dead", "done"}, refs : SUBSET Node]
        Place == [open |-> 1, stale |-> 2, dead |-> 3, done |-> 4]
    IN  {g \in [Node -> Issues] :
           /\ \A n \in GatedNode : g[n].state = "open"
           /\ Place[g[2].state] <= Place[g[3].state]}

IssueBody(open, prio, acs, block, ledger, proof) ==
    [open |-> open, prio |-> prio, acs |-> acs, block |-> block, ledger |-> ledger,
     proof |-> proof, mark |-> FALSE, edits |-> {}]
IssueBodies ==
    {IssueBody(TRUE, TRUE, "few", "absent", "absent", TRUE),
     IssueBody(TRUE, FALSE, "few", "partial", "ok", TRUE),
     IssueBody(TRUE, TRUE, "few", "full", "ok", TRUE),
     IssueBody(TRUE, TRUE, "many", "absent", "absent", TRUE),
     IssueBody(TRUE, TRUE, "few", "blocked", "ok", TRUE),
     IssueBody(FALSE, TRUE, "few", "full", "ok", TRUE),
     IssueBody(TRUE, TRUE, "few", "absent", "bad", TRUE)}

TicketShape(status, high, label, extra, meta, waits) ==
    [status |-> status, high |-> high, label |-> label, extra |-> extra, meta |-> meta,
     waits |-> waits, hold |-> waits, slot |-> FALSE, pr |-> FALSE, runnable |-> TRUE,
     handoff |-> TRUE, text |-> 0]
TicketShapes ==
    {TicketShape({"backlog"}, TRUE, FALSE, FALSE, "full", FALSE),
     TicketShape({"backlog"}, FALSE, TRUE, FALSE, "full", FALSE),
     TicketShape({"backlog", "progress"}, TRUE, TRUE, FALSE, "full", TRUE),
     TicketShape({"todo"}, FALSE, TRUE, FALSE, "full", FALSE),
     TicketShape({"backlog"}, FALSE, TRUE, FALSE, "part", FALSE)}

World(refs, prLabels, issueLabels, closed, mop, mapped) ==
    [refs |-> refs, prLabels |-> prLabels, issueLabels |-> issueLabels, closed |-> closed,
     mop |-> mop, mapped |-> mapped]
WorldShapes ==
    {World("this", {"stale"}, {"stale"}, FALSE, FALSE, TRUE),
     World("none", {"stale"}, {"stale"}, FALSE, TRUE, TRUE),
     World("many", {}, {"done"}, FALSE, FALSE, TRUE)}

VerdictFile(source) ==
    [source |-> source, class |-> "test", local |-> "passed", action |-> "rerun",
     sanctioned |-> TRUE, blocking |-> TRUE, followup |-> FALSE, attempt |-> 1]
VerdictFiles == [r \in {r1, r2} |-> IF r = r1 THEN VerdictFile("packet") ELSE VerdictFile("verdict")]
VerdictPRs == [r \in {r1, r2} |-> IF r = r1 THEN q1 ELSE q2]

RunShape(wf, scope, needed, ran, python, trusted, confined) ==
    [wf |-> wf, scope |-> scope, needs |-> needed, ran |-> ran, python |-> python,
     trusted |-> trusted, confined |-> confined]
MergeShapes ==
    {RunShape("ci", "product", {"ts", "e2e"}, {"ts"}, FALSE, TRUE, TRUE),
     RunShape("ci", "product", {"ts"}, {"ts"}, FALSE, TRUE, TRUE),
     RunShape("ci", "none", {}, {"ts"}, TRUE, TRUE, TRUE),
     RunShape("ci", "product", {"py"}, {"py"}, TRUE, FALSE, TRUE),
     RunShape("ci", "skipped", {}, {}, FALSE, TRUE, TRUE),
     RunShape("ci", "test_only", {}, {"ts"}, FALSE, TRUE, TRUE),
     RunShape("ci", "test_only", {}, {"ts"}, FALSE, TRUE, FALSE),
     RunShape("e2e", "none", {}, {"e2e"}, FALSE, TRUE, TRUE),
     RunShape("e2e", "product", {}, {}, FALSE, FALSE, TRUE),
     RunShape("exempt", "site", {}, {}, FALSE, TRUE, TRUE),
     RunShape("exempt", "site", {}, {}, FALSE, TRUE, FALSE),
     RunShape("ci", "control", {}, {}, FALSE, FALSE, TRUE)}

OnePR == <<q1>>
TwoPRs == <<q1, q2>>

-----------------------------------------------------------------------------
VARIABLE program     \* which of them runs
VARIABLES pool, pickMode, capped, ppc, light, seen, native, latch, blind,
          queue, answer, taken, steady, poolMoves
VARIABLES graph, edges, poolRead, fetched, frontier, level, hpc, reported,
          hotspots, still, graphMoves
VARIABLES issue, ranked, flock, active, cpc, contractRows, row, got, body,
          tally, verdict, pinned, lost, edited
VARIABLES prs, todos, bounds, ciCache, todoCache, gpc, ci, ciError, rowsRead,
          e2e, boundError, todoRead, said, unmoved, gateMoves, gateRuns
VARIABLES tickets, listed, selected, unread, tpc, doing, admitted, looked,
          outcome, review, rejection, fresh, sinceLook, ticketMoves,
          promotions
VARIABLES cards, proposals, cardRead, left, card, dpc, looked2, results,
          swept, settled, cardMoves
VARIABLES live, journal, readings, runPc, cleanprMode, key, hint, asks,
          prMoves, attempts, answered
VARIABLES ciRuns, pulls, comments, flakes, pubs, recorded, recent, ciMoves,
          publishes
VARIABLES ghPr, ghMain, ghRuns, mpc, ciProof, e2eProof, mainSeen, reviewed,
          refused, tested, needs, mergeMoves
VARIABLES pull, sentinel, duty, handoff, dog, pm, dogRows, dogChecks, proven,
          pushes, pmCalls, faults
VARIABLES runtime, queueRows, type, queueMark, last, chain, job, tick, due,
          pasted, restarts
VARIABLES hour, record, inflight, writers, callers, ledger, done, prompts,
          reminders, debtCrashes
VARIABLES slot, pane, request, routes, sendLock, health, respawnMark, cooling,
          asked, launches, moves, crashes, exits, quiet, forsaken

pickVars == <<pool, pickMode, capped, ppc, light, seen, native, latch, blind,
              queue, answer, taken, steady, poolMoves>>
hellVars == <<graph, edges, poolRead, fetched, frontier, level, hpc, reported,
              hotspots, still, graphMoves>>
contractVars == <<issue, ranked, flock, active, cpc, contractRows, row, got,
                  body, tally, verdict, pinned, lost, edited>>
gateVars == <<prs, todos, bounds, ciCache, todoCache, gpc, ci, ciError,
              rowsRead, e2e, boundError, todoRead, said, unmoved, gateMoves,
              gateRuns>>
promoteVars == <<tickets, listed, selected, unread, tpc, doing, admitted,
                 looked, outcome, review, rejection, fresh, sinceLook,
                 ticketMoves, promotions>>
todoVars == <<cards, proposals, cardRead, left, card, dpc, looked2, results,
              swept, settled, cardMoves>>
cleanprVars == <<live, journal, readings, runPc, cleanprMode, key, hint, asks,
                 prMoves, attempts, answered>>
verdictVars == <<ciRuns, pulls, comments, flakes, pubs, recorded, recent,
                 ciMoves, publishes>>
mergeVars == <<ghPr, ghMain, ghRuns, mpc, ciProof, e2eProof, mainSeen,
               reviewed, refused, tested, needs, mergeMoves>>
greenVars == <<pull, sentinel, duty, handoff, dog, pm, dogRows, dogChecks,
               proven, pushes, pmCalls, faults>>
queueVars == <<runtime, queueRows, type, queueMark, last, chain, job, tick,
               due, pasted, restarts>>
debtVars == <<hour, record, inflight, writers, callers, ledger, done, prompts,
              reminders, debtCrashes>>
respawnVars == <<slot, pane, request, routes, sendLock, health, respawnMark,
                 cooling, asked, launches, moves, crashes, exits, quiet,
                 forsaken>>

RP == INSTANCE ReadyPick WITH mode <- pickMode
DH == INSTANCE DependencyHell
CR == INSTANCE ContractRepair WITH rows <- contractRows
GT == INSTANCE AssignmentGate
BP == INSTANCE BacklogPromotion
TD == INSTANCE TodoRepair
CP == INSTANCE CleanupPR WITH mode <- cleanprMode
CV == INSTANCE CIVerdict
MP == INSTANCE MergePR
CU == INSTANCE CISuccess
PQ == INSTANCE PMQueue WITH rows <- queueRows, mark <- queueMark
HD == INSTANCE HourlyDebt
RI == INSTANCE RespawnIdle WITH mark <- respawnMark

Programs == {"pick", "hell", "contract", "gate", "promote", "todo", "cleanpr",
             "verdict", "merge", "green", "queue", "debt", "respawn"}

(* The variables of a program that does not run hold nothing. *)
PickOff == /\ pool = "off" /\ pickMode = "off" /\ capped = "off" /\
              ppc = "off" /\ light = "off" /\ seen = "off" /\
              native = "off" /\ latch = "off" /\ blind = "off" /\
              queue = "off" /\ answer = "off" /\ taken = "off" /\
              steady = "off" /\ poolMoves = "off"
HellOff == /\ graph = "off" /\ edges = "off" /\ poolRead = "off" /\
              fetched = "off" /\ frontier = "off" /\ level = "off" /\
              hpc = "off" /\ reported = "off" /\ hotspots = "off" /\
              still = "off" /\ graphMoves = "off"
ContractOff == /\ issue = "off" /\ ranked = "off" /\ flock = "off" /\
                  active = "off" /\ cpc = "off" /\ contractRows = "off" /\
                  row = "off" /\ got = "off" /\ body = "off" /\
                  tally = "off" /\ verdict = "off" /\ pinned = "off" /\
                  lost = "off" /\ edited = "off"
GateOff == /\ prs = "off" /\ todos = "off" /\ bounds = "off" /\
              ciCache = "off" /\ todoCache = "off" /\ gpc = "off" /\
              ci = "off" /\ ciError = "off" /\ rowsRead = "off" /\
              e2e = "off" /\ boundError = "off" /\ todoRead = "off" /\
              said = "off" /\ unmoved = "off" /\ gateMoves = "off" /\
              gateRuns = "off"
PromoteOff == /\ tickets = "off" /\ listed = "off" /\ selected = "off" /\
                 unread = "off" /\ tpc = "off" /\ doing = "off" /\
                 admitted = "off" /\ looked = "off" /\ outcome = "off" /\
                 review = "off" /\ rejection = "off" /\ fresh = "off" /\
                 sinceLook = "off" /\ ticketMoves = "off" /\
                 promotions = "off"
TodoOff == /\ cards = "off" /\ proposals = "off" /\ cardRead = "off" /\
              left = "off" /\ card = "off" /\ dpc = "off" /\
              looked2 = "off" /\ results = "off" /\ swept = "off" /\
              settled = "off" /\ cardMoves = "off"
CleanprOff == /\ live = "off" /\ journal = "off" /\ readings = "off" /\
                 runPc = "off" /\ cleanprMode = "off" /\ key = "off" /\
                 hint = "off" /\ asks = "off" /\ prMoves = "off" /\
                 attempts = "off" /\ answered = "off"
VerdictOff == /\ ciRuns = "off" /\ pulls = "off" /\ comments = "off" /\
                 flakes = "off" /\ pubs = "off" /\ recorded = "off" /\
                 recent = "off" /\ ciMoves = "off" /\ publishes = "off"
MergeOff == /\ ghPr = "off" /\ ghMain = "off" /\ ghRuns = "off" /\
               mpc = "off" /\ ciProof = "off" /\ e2eProof = "off" /\
               mainSeen = "off" /\ reviewed = "off" /\ refused = "off" /\
               tested = "off" /\ needs = "off" /\ mergeMoves = "off"
GreenOff == /\ pull = "off" /\ sentinel = "off" /\ duty = "off" /\
               handoff = "off" /\ dog = "off" /\ pm = "off" /\
               dogRows = "off" /\ dogChecks = "off" /\ proven = "off" /\
               pushes = "off" /\ pmCalls = "off" /\ faults = "off"
QueueOff == /\ runtime = "off" /\ queueRows = "off" /\ type = "off" /\
               queueMark = "off" /\ last = "off" /\ chain = "off" /\
               job = "off" /\ tick = "off" /\ due = "off" /\ pasted = "off" /\
               restarts = "off"
DebtOff == /\ hour = "off" /\ record = "off" /\ inflight = "off" /\
              writers = "off" /\ callers = "off" /\ ledger = "off" /\
              done = "off" /\ prompts = "off" /\ reminders = "off" /\
              debtCrashes = "off"
RespawnOff == /\ slot = "off" /\ pane = "off" /\ request = "off" /\
                 routes = "off" /\ sendLock = "off" /\ health = "off" /\
                 respawnMark = "off" /\ cooling = "off" /\ asked = "off" /\
                 launches = "off" /\ moves = "off" /\ crashes = "off" /\
                 exits = "off" /\ quiet = "off" /\ forsaken = "off"

WorkProgramsInit ==
    /\ program \in Programs
    /\ IF program = "pick" THEN RP!PickInit ELSE PickOff
    /\ IF program = "hell" THEN DH!HellInit ELSE HellOff
    /\ IF program = "contract" THEN CR!RepairInit ELSE ContractOff
    /\ IF program = "gate" THEN GT!GateInit ELSE GateOff
    /\ IF program = "promote" THEN BP!PromotionInit ELSE PromoteOff
    /\ IF program = "todo" THEN TD!TodoRepairInit ELSE TodoOff
    /\ IF program = "cleanpr" THEN CP!CleanupInit ELSE CleanprOff
    /\ IF program = "verdict" THEN CV!VerdictInit ELSE VerdictOff
    /\ IF program = "merge" THEN MP!MergeInit ELSE MergeOff
    /\ IF program = "green" THEN CU!ReconcileInit ELSE GreenOff
    /\ IF program = "queue" THEN PQ!QueueInit ELSE QueueOff
    /\ IF program = "debt" THEN HD!DebtInit ELSE DebtOff
    /\ IF program = "respawn" THEN RI!RespawnInit ELSE RespawnOff

WorkProgramsNext ==
    /\ UNCHANGED program
    /\ IF program = "pick" THEN RP!PickNext ELSE UNCHANGED pickVars
    /\ IF program = "hell" THEN DH!HellNext ELSE UNCHANGED hellVars
    /\ IF program = "contract" THEN CR!RepairNext ELSE UNCHANGED contractVars
    /\ IF program = "gate" THEN GT!GateNext ELSE UNCHANGED gateVars
    /\ IF program = "promote" THEN BP!PromotionNext ELSE UNCHANGED promoteVars
    /\ IF program = "todo" THEN TD!TodoRepairNext ELSE UNCHANGED todoVars
    /\ IF program = "cleanpr" THEN CP!CleanupNext ELSE UNCHANGED cleanprVars
    /\ IF program = "verdict" THEN CV!VerdictNext ELSE UNCHANGED verdictVars
    /\ IF program = "merge" THEN MP!MergeNext ELSE UNCHANGED mergeVars
    /\ IF program = "green" THEN CU!ReconcileNext ELSE UNCHANGED greenVars
    /\ IF program = "queue" THEN PQ!QueueNext ELSE UNCHANGED queueVars
    /\ IF program = "debt" THEN HD!DebtNext ELSE UNCHANGED debtVars
    /\ IF program = "respawn" THEN RI!RespawnNext ELSE UNCHANGED respawnVars

workProgramsVars == <<program, pickVars, hellVars, contractVars, gateVars,
                               promoteVars, todoVars, cleanprVars,
                               verdictVars, mergeVars, greenVars, queueVars,
                               debtVars, respawnVars>>

WorkProgramsSpec == WorkProgramsInit /\ [][WorkProgramsNext]_workProgramsVars

-----------------------------------------------------------------------------
(* The types of the program that runs. *)
WorkTypeOK ==
    CASE program = "pick" -> RP!PickTypeOK
      [] program = "hell" -> DH!HellTypeOK
      [] program = "contract" -> CR!RepairTypeOK
      [] program = "gate" -> GT!GateTypeOK
      [] program = "promote" -> BP!PromotionTypeOK
      [] program = "todo" -> TD!TodoRepairTypeOK
      [] program = "cleanpr" -> CP!CleanupTypeOK
      [] program = "verdict" -> CV!VerdictTypeOK
      [] program = "merge" -> MP!MergeTypeOK
      [] program = "green" -> CU!ReconcileTypeOK
      [] program = "queue" -> PQ!QueueTypeOK
      [] program = "debt" -> HD!DebtTypeOK
      [] program = "respawn" -> RI!RespawnTypeOK

(* Of ready_pool_select.py: the fast check answers what the full ranking   *)
(* would, and what could be taken all along is never passed over.  Of the  *)
(* dependency report: an issue that can never wake is in it, and no root   *)
(* was left unread.                                                        *)
PickIsFirst ==
    /\ program = "pick" => RP!FastIsFull /\ RP!NoInversion
    /\ program = "hell" => DH!NeverWakesIsReported /\ DH!RootsWereRead

(* Of ready-pool-contract-repair.py: the state file names the coordinator  *)
(* at work, a repair read again is complete, and an edit that was there    *)
(* when the pin was checked is kept.                                       *)
RepairsSettle == program = "contract" => /\ CR!ActiveNamesHolder
            /\ CR!RepairSettles
            /\ CR!PinnedEditsKept

(* Of ready-pool-assignment-gate.py: no issue is recommended over a        *)
(* boundary that waits, and what is said of a pull request is of its head. *)
GateHolds == program = "gate" => GT!NoTodoOverBoundary /\ GT!OfTheCurrentHead

(* Of backlog-triage.py: what is reported promoted or repaired is a member *)
(* of the pool and taken by nobody, P3 only fills the floor, what a review *)
(* rejected stays out, no edit that half succeeds leaves an issue without  *)
(* a status, and no sweep follows a repair that failed.                    *)
MembersAreClean ==
    /\ program = "promote" => /\ BP!PromotedIsClean
            /\ BP!FillsTheFloorOnly
            /\ BP!RejectedStaysOut
            /\ BP!StatusIsKept
    /\ program = "todo" => TD!RepairedIsMember /\ TD!SweepAfterAll

(* What one process settled no other takes back on an older read: a step   *)
(* of unknown outcome, a head the PM has handled, the text of an issue.    *)
SettledStaysStep ==
    /\ program = "cleanpr" => CP!UnknownKeptStep
    /\ program = "green" => CU!SettledStaysStep
    /\ program = "todo" => TD!ProposedTextKeptStep
SettledStays == [][SettledStaysStep]_workProgramsVars

(* "A verdict whose local repro is passed (CI-only flake) is quarantined   *)
(* when the same fingerprint already appeared in a prior verdict with no   *)
(* open follow-up" (publish-ci-verdict.py).                                *)
RepeatQuarantined == program = "verdict" => CV!RepeatQuarantined

(* Of pm-cleanup-pr.py: across crashes and repeated calls an effect is     *)
(* asked for once, and the reply only after the close was read back.       *)
EffectOnce == program = "cleanpr" => CP!EffectOnce /\ CP!ReplyAfterClose

(* Of the CI reconciliation and the verdicts: a head is handed off on the  *)
(* guard and the marker of that head, a flake quarantined on another run.  *)
(* Of merge.py: the script merges the head it was asked for, with every    *)
(* test family that head needs executed by a green run of it.              *)
EvidenceIsItsOwn ==
    /\ program = "green" => CU!HandedOffIsProven
    /\ program = "verdict" => CV!BlockedHasPrior
    /\ program = "merge" => MP!MergedIsTested

(* Of the server: one occurrence of an event is pasted into the manager's  *)
(* terminal once, an hour's debt is reminded of once, and one request ends *)
(* an agent at most once -- across retries and restarts.                   *)
DoneOnce ==
    /\ program = "queue" => PQ!OccurrenceOnce
    /\ program = "debt" => HD!RemindedOnce
    /\ program = "respawn" => RI!ExitOnce

(* A row of the queue leaves it delivered or for a newer one of its key,   *)
(* and a debt that was settled is not opened again.                        *)
RowsKeptStep ==
    /\ program = "queue" => PQ!RowsKeptStep
    /\ program = "debt" => HD!NotReopenedStep
RowsKept == [][RowsKeptStep]_workProgramsVars

(* An agent is ended only by a request that still stands, at a moment the  *)
(* slot is at rest with the work the request was made for.                 *)
RestartIsDue ==
    [][program = "respawn" => RI!RestartIsDueStep]_workProgramsVars

(* Issues have the shape of a contract, edits are counted, and NULL is no    *)
(* coordinator.                                                             *)
ASSUME ContractAssumption ==
    Bodies \subseteq CR!Contract /\ MaxBodyEdits \in Nat /\ NULL \notin Coordinator

(* Moves and runs are counted.                                              *)
ASSUME GateAssumption == MaxGateMoves \in Nat /\ GateRuns \in Nat

(* A run starts from a state of the pull request and its issue, with one of *)
(* the requests of the script.                                              *)
ASSUME CleanupAssumption ==
    /\ Worlds \subseteq CP!WorldType
    /\ Requests \subseteq {"linked", "label_only", "post_merge", "issue_less"}

(* Issues of the backlog have numbers and look like issues, what is counted *)
(* is a number, and NULL is no outcome of a row.                            *)
ASSUME PromotionAssumption ==
    /\ Ticket \subseteq Nat /\ IsFiniteSet(Ticket) /\ Tickets \subseteq BP!TicketType
    /\ (\A t \in Tickets : t.status # {}) /\ Target \in Nat /\ MaxTicketMoves \in Nat /\ MaxPromotions \in Nat
    /\ NULL \notin {"promoted", "failed", "rolled_back"}
ASSUME CardAssumption == MaxCardMoves \in Nat /\ NULL \notin TD!OkResults

(* Issues have numbers and look like issues, what is counted is a number,   *)
(* and NULL is no issue, no shape and no answer.                            *)
ASSUME PickAssumption ==
    /\ Issue \subseteq Nat /\ IsFiniteSet(Issue) /\ Asked \in Issue /\ Shapes \subseteq RP!ShapeType
    /\ Chunk \in Nat \ {0} /\ MaxPoolMoves \in Nat
    /\ NULL \notin Issue \cup RP!ShapeType
    /\ NULL \notin {"ok", "PRIORITY_INVERSION", "GATED", "DEPENDENCY_OPEN", "PR_CAP",
                    "not_eligible", "pick", "nothing", "error"}

(* A chain of blockers is followed for an edge at least.                    *)
ASSUME HellAssumption ==
    GatedNode \subseteq Node /\ MaxDepth \in Nat \ {0} /\ MaxGraphMoves \in Nat

(* There is an hour, and NULL is no record of the hourly debt.              *)
ASSUME DebtAssumption ==
    /\ MaxBucket \in Nat \ {0} /\ MaxWriter \in Nat /\ MaxDebtCrash \in Nat
    /\ NULL \notin HD!RecordType \cup HD!ChildType

(* The operator hands over a file of some kind for each run.                *)
ASSUME VerdictAssumption == FileOf \in [Run -> CV!FileType] /\ MaxCIMoves \in Nat

(* A run has a shape, and a change needs families of tests.                 *)
ASSUME MergeAssumption ==
    RunShapes \subseteq MP!ShapeType /\ NeedsChoices \subseteq SUBSET MP!Family

(* The reconciliation alone, its steps fair: launchd starts a tick again    *)
(* and again, and a call of the PM that was started ends.                  *)
GreenSpec ==
    /\ program = "green" /\ WorkProgramsInit /\ [][WorkProgramsNext]_workProgramsVars
    /\ WF_greenVars(CU!DogNext)
    /\ WF_greenVars(CU!PmPromote \/ CU!Close \/ CU!WriteResolved)

(* "Durably surface and close terminal-green CI reconciliation work."       *)
(* (ci-success-reconciliation.py).                                         *)
GreenSurfaced == CU!GreenSurfaced
=============================================================================
