--------------------------- MODULE MCHostPrograms ----------------------------
(* Small instances of the Python programs that look after the PM's machine: *)
(* the installer and the shared assets, the process cleanup, the reads of   *)
(* the heartbeat, the Stop hook and the ledger of obligations.  They share  *)
(* no state: each behaviour is one of them, chosen at the start.            *)
EXTENDS Naturals, TLC

CONSTANTS t1, t2, g1, l1, e1, r1, s1, b0, b1, p1, p2, s2, h1, h2, c1, c2, NULL    \* model values

(* The constants of each program, as its module describes them. *)
CONSTANTS InstallTarget, Same, Gone, Legacy, Edit, InstallMaxEdits
CONSTANTS Run, Source, AssetsTarget, Of, Bytes, First, AssetsMaxEdits
CONSTANTS Retired
CONSTANTS Pid, Root, MaxMoves
CONSTANTS MaxTurns
CONSTANTS MaxRuns, Enough
CONSTANTS Scanned, MaxSteps
CONSTANTS CapRuns, MaxAttempts, MaxBeats
CONSTANTS AuSlots, AuRows, AuHeads, AuMoves
CONSTANTS SnWorlds, SnLedgers, SnRows, SnLabels, SnHeads, SnMoves
CONSTANTS SaPanes, SaMaxTime
CONSTANTS Session, Hook, Finding, Grace, LongTurn, MaxStopTime, MaxStops
CONSTANTS Kinds, MaxRows, MaxUpserts
CONSTANTS Command

(* Every target has a source, all begin with some bytes, and NULL is no      *)
(* file, no run and no bytes.                                               *)
ASSUME AssetsAssumption ==
    /\ Of \in [AssetsTarget -> Source] /\ First \in Bytes /\ AssetsMaxEdits \in Nat
    /\ NULL \notin Run \cup Source \cup AssetsTarget \cup Bytes \cup [Source -> Bytes]

(* The inventory deletes no file that the manifests install (an operator     *)
(* supplies it, and the installer does not compare the two).                *)
ASSUME CutAssumption == Legacy \cap InstallTarget = {} /\ InstallMaxEdits \in Nat

(* NULL is no retired file.                                                 *)
ASSUME RetireAssumption == NULL \notin Retired

(* NULL is no status of a packet.                                           *)
ASSUME PacketAssumption == NULL \notin {"pending", "consumed", "rejected"}

(* NULL is no process of a broker's tree and no result; turns are counted.   *)
ASSUME BrokerAssumption ==
    NULL \notin {"broker", "server", "tool", "refused", "terminated"} /\ MaxTurns \in Nat

(* A streak has a length, and there is a pass at least.                     *)
ASSUME StreakAssumption == MaxRuns \in Nat \ {0} /\ Enough \in Nat \ {0, 1}

(* There is a session, and time is counted.                                 *)
ASSUME StopAssumption == Session # {} /\ MaxStopTime \in Nat /\ Grace \in Nat

(* A pane is the PM's or not; time is counted from 1.                       *)
ASSUME AgeAssumption == (\A p \in SaPanes : p.pm \in BOOLEAN) /\ SaMaxTime \in Nat \ {0}

(* Attempts are counted from 1.                                             *)
ASSUME CapAssumption == MaxAttempts \in Nat \ {0}

Aliases == [t \in {t1, t2} |-> s1]

AuditRows ==
    {[lane |-> "CI", head |-> 1, text |-> 1], [lane |-> "rework", head |-> 1, text |-> 2],
     [lane |-> "rework-blocked", head |-> 2, text |-> 1], [lane |-> "dependency-blocked", head |-> 1, text |-> 0]}

\* Red, green and admitted, of exempt paths.
SnapshotPR(admit, exempt, verdict, test, e2e) ==
    [head |-> 1, draft |-> FALSE, dnm |-> FALSE, exempt |-> exempt, admit |-> admit, labels |-> {},
     verdict |-> verdict, live |-> FALSE, runs |-> [test |-> test, e2e |-> e2e, advisory |-> {}]]
SnapshotPRs == {SnapshotPR(0, FALSE, "none", {"FAILURE"}, {"SUCCESS"}),
                SnapshotPR(1, FALSE, "PASS", {"SUCCESS"}, {"SUCCESS"}),
                SnapshotPR(0, TRUE, "none", {"PLACEHOLDER"}, {"PLACEHOLDER"})}
SnapshotRow(owner, head, live) == [owner |-> owner, head |-> head, live |-> live]
SnapshotRows == {SnapshotRow("agent", 1, TRUE), SnapshotRow("rework", 0, TRUE)}
SnapshotLedgers == {[k \in {"pr_admission", "pr_red_unowned", "pr_merge_ask"} |->
                       SnapshotRow("PM", 0, FALSE)]}
SnapshotLabels == {"slot:1", "pm-blocked:codex"}

SessionPanes ==
    {[source |-> "claude", pm |-> TRUE], [source |-> "claude", pm |-> FALSE],
     [source |-> "omp", pm |-> FALSE]}

-----------------------------------------------------------------------------
VARIABLE program     \* which of them runs
VARIABLES installDisk, current, service, pc, installAim, pre, kept,
          installTodo, written, switched, returned, unseen, late, installEdits
VARIABLES assetsDisk, active, assetsTree, listed, head, staged, assetsRpc,
          mine, allowed, backed, assetsTodo, wrote, raim, spc, plan,
          assetsSeen, slist, stodo, saim, rlate, slate, accepts, owner, ever,
          assetsEdits
VARIABLES dir, files, tpc, fence, captured, ttodo, taim, tlate
VARIABLES proc, lane, session, attested, row, policy, cpc, cleanupTree, trees,
          cleanupAim, signalled, outcome, moved, moves
VARIABLES life, parent, client, companion, aged, bpc, planned, brokerTodo,
          sent, victim, result, stirred, turns
VARIABLES watch, start, hot, saved, loaded, upc, apply, streaksSeen,
          streaksNow, shot, runs
VARIABLES jobs, list, gpc, doomed, hit, killed, listedAt, steps
VARIABLES capWorld, capFile, capBeat, capEnded, capCount
VARIABLES auHead, auLive, auSlot, auRows, auView, auPc, auResult, auSteady,
          auSeen, auOff, auMoves
VARIABLES snPr, snSlot, snRows, snReceipt, snView, snPc, snResult, snSteady,
          snSeen, snMoves
VARIABLES saNow, saPane, saTx, saRow, saClear, saEye
VARIABLES stopNow, turnStart, standing, drain, cooldown, broken, hooks, shown,
          lost, verdicts, stops
VARIABLES rows, pr, sweep, producer, ledgerRpc, scan, view, collapsed, debt,
          upserts
VARIABLES packet, consumedAt, kpc, wants, direct, found

installVars == <<installDisk, current, service, pc, installAim, pre, kept,
                 installTodo, written, switched, returned, unseen, late,
                 installEdits>>
assetsVars == <<assetsDisk, active, assetsTree, listed, head, staged,
                assetsRpc, mine, allowed, backed, assetsTodo, wrote, raim,
                spc, plan, assetsSeen, slist, stodo, saim, rlate, slate,
                accepts, owner, ever, assetsEdits>>
retireVars == <<dir, files, tpc, fence, captured, ttodo, taim, tlate>>
cleanupVars == <<proc, lane, session, attested, row, policy, cpc, cleanupTree,
                 trees, cleanupAim, signalled, outcome, moved, moves>>
brokerVars == <<life, parent, client, companion, aged, bpc, planned,
                brokerTodo, sent, victim, result, stirred, turns>>
streaksVars == <<watch, start, hot, saved, loaded, upc, apply, streaksSeen,
                 streaksNow, shot, runs>>
scansVars == <<jobs, list, gpc, doomed, hit, killed, listedAt, steps>>
capacityVars == <<capWorld, capFile, capBeat, capEnded, capCount>>
auditVars == <<auHead, auLive, auSlot, auRows, auView, auPc, auResult,
               auSteady, auSeen, auOff, auMoves>>
snapshotVars == <<snPr, snSlot, snRows, snReceipt, snView, snPc, snResult,
                  snSteady, snSeen, snMoves>>
sessionsVars == <<saNow, saPane, saTx, saRow, saClear, saEye>>
stopVars == <<stopNow, turnStart, standing, drain, cooldown, broken, hooks,
              shown, lost, verdicts, stops>>
ledgerVars == <<rows, pr, sweep, producer, ledgerRpc, scan, view, collapsed,
                debt, upserts>>
packetVars == <<packet, consumedAt, kpc, wants, direct, found>>

RC == INSTANCE ReleaseCutover WITH
    Target <- InstallTarget, MaxEdits <- InstallMaxEdits, disk <- installDisk,
    aim <- installAim, todo <- installTodo, edits <- installEdits
SA == INSTANCE SharedAssets WITH
    Target <- AssetsTarget, MaxEdits <- AssetsMaxEdits, disk <- assetsDisk,
    todo <- assetsTodo, edits <- assetsEdits, tree <- assetsTree,
    rpc <- assetsRpc, seen <- assetsSeen
RT == INSTANCE Retirement
PC == INSTANCE ProcessCleanup WITH aim <- cleanupAim, tree <- cleanupTree
CB == INSTANCE CodexBroker WITH todo <- brokerTodo
CS == INSTANCE CleanupStreaks WITH seen <- streaksSeen, now <- streaksNow
SC == INSTANCE CleanupScans
CA == INSTANCE CapacityAlerts
OA == INSTANCE OpenPRAudit
SN == INSTANCE PRSnapshot
AG == INSTANCE SessionAge
SG == INSTANCE StopGroup WITH now <- stopNow
OL == INSTANCE ObligationLedger WITH rpc <- ledgerRpc
TP == INSTANCE TransitionPackets

Programs == {"install", "assets", "retire", "cleanup", "broker", "streaks",
             "scans", "capacity", "audit", "snapshot", "sessions", "stop",
             "ledger", "packet"}

(* The variables of a program that does not run hold nothing. *)
InstallOff == /\ installDisk = "off" /\ current = "off" /\ service = "off" /\
                 pc = "off" /\ installAim = "off" /\ pre = "off" /\
                 kept = "off" /\ installTodo = "off" /\ written = "off" /\
                 switched = "off" /\ returned = "off" /\ unseen = "off" /\
                 late = "off" /\ installEdits = "off"
AssetsOff == /\ assetsDisk = "off" /\ active = "off" /\ assetsTree = "off" /\
                listed = "off" /\ head = "off" /\ staged = "off" /\
                assetsRpc = "off" /\ mine = "off" /\ allowed = "off" /\
                backed = "off" /\ assetsTodo = "off" /\ wrote = "off" /\
                raim = "off" /\ spc = "off" /\ plan = "off" /\
                assetsSeen = "off" /\ slist = "off" /\ stodo = "off" /\
                saim = "off" /\ rlate = "off" /\ slate = "off" /\
                accepts = "off" /\ owner = "off" /\ ever = "off" /\
                assetsEdits = "off"
RetireOff == /\ dir = "off" /\ files = "off" /\ tpc = "off" /\
                fence = "off" /\ captured = "off" /\ ttodo = "off" /\
                taim = "off" /\ tlate = "off"
CleanupOff == /\ proc = "off" /\ lane = "off" /\ session = "off" /\
                 attested = "off" /\ row = "off" /\ policy = "off" /\
                 cpc = "off" /\ cleanupTree = "off" /\ trees = "off" /\
                 cleanupAim = "off" /\ signalled = "off" /\ outcome = "off" /\
                 moved = "off" /\ moves = "off"
BrokerOff == /\ life = "off" /\ parent = "off" /\ client = "off" /\
                companion = "off" /\ aged = "off" /\ bpc = "off" /\
                planned = "off" /\ brokerTodo = "off" /\ sent = "off" /\
                victim = "off" /\ result = "off" /\ stirred = "off" /\
                turns = "off"
StreaksOff == /\ watch = "off" /\ start = "off" /\ hot = "off" /\
                 saved = "off" /\ loaded = "off" /\ upc = "off" /\
                 apply = "off" /\ streaksSeen = "off" /\ streaksNow = "off" /\
                 shot = "off" /\ runs = "off"
ScansOff == /\ jobs = "off" /\ list = "off" /\ gpc = "off" /\
               doomed = "off" /\ hit = "off" /\ killed = "off" /\
               listedAt = "off" /\ steps = "off"
CapacityOff == /\ capWorld = "off" /\ capFile = "off" /\ capBeat = "off" /\
                  capEnded = "off" /\ capCount = "off"
AuditOff == /\ auHead = "off" /\ auLive = "off" /\ auSlot = "off" /\
               auRows = "off" /\ auView = "off" /\ auPc = "off" /\
               auResult = "off" /\ auSteady = "off" /\ auSeen = "off" /\
               auOff = "off" /\ auMoves = "off"
SnapshotOff == /\ snPr = "off" /\ snSlot = "off" /\ snRows = "off" /\
                  snReceipt = "off" /\ snView = "off" /\ snPc = "off" /\
                  snResult = "off" /\ snSteady = "off" /\ snSeen = "off" /\
                  snMoves = "off"
SessionsOff == /\ saNow = "off" /\ saPane = "off" /\ saTx = "off" /\
                  saRow = "off" /\ saClear = "off" /\ saEye = "off"
StopOff == /\ stopNow = "off" /\ turnStart = "off" /\ standing = "off" /\
              drain = "off" /\ cooldown = "off" /\ broken = "off" /\
              hooks = "off" /\ shown = "off" /\ lost = "off" /\
              verdicts = "off" /\ stops = "off"
LedgerOff == /\ rows = "off" /\ pr = "off" /\ sweep = "off" /\
                producer = "off" /\ ledgerRpc = "off" /\ scan = "off" /\
                view = "off" /\ collapsed = "off" /\ debt = "off" /\
                upserts = "off"
PacketOff == /\ packet = "off" /\ consumedAt = "off" /\ kpc = "off" /\
                wants = "off" /\ direct = "off" /\ found = "off"

HostProgramsInit ==
    /\ program \in Programs
    /\ IF program = "install" THEN RC!CutoverInit ELSE InstallOff
    /\ IF program = "assets" THEN SA!SharedInit ELSE AssetsOff
    /\ IF program = "retire" THEN RT!RetireInit ELSE RetireOff
    /\ IF program = "cleanup" THEN PC!CleanInit ELSE CleanupOff
    /\ IF program = "broker" THEN CB!BrokerInit ELSE BrokerOff
    /\ IF program = "streaks" THEN CS!StreakInit ELSE StreaksOff
    /\ IF program = "scans" THEN SC!ScansInit ELSE ScansOff
    /\ IF program = "capacity" THEN CA!CapInit ELSE CapacityOff
    /\ IF program = "audit" THEN OA!AuditInit ELSE AuditOff
    /\ IF program = "snapshot" THEN SN!SnapInit ELSE SnapshotOff
    /\ IF program = "sessions" THEN AG!SessionInit ELSE SessionsOff
    /\ IF program = "stop" THEN SG!StopInit ELSE StopOff
    /\ IF program = "ledger" THEN OL!LedgerInit ELSE LedgerOff
    /\ IF program = "packet" THEN TP!PacketInit ELSE PacketOff

HostProgramsNext ==
    /\ UNCHANGED program
    /\ IF program = "install" THEN RC!CutoverNext ELSE UNCHANGED installVars
    /\ IF program = "assets" THEN SA!SharedNext ELSE UNCHANGED assetsVars
    /\ IF program = "retire" THEN RT!RetireNext ELSE UNCHANGED retireVars
    /\ IF program = "cleanup" THEN PC!CleanNext ELSE UNCHANGED cleanupVars
    /\ IF program = "broker" THEN CB!BrokerNext ELSE UNCHANGED brokerVars
    /\ IF program = "streaks" THEN CS!StreakNext ELSE UNCHANGED streaksVars
    /\ IF program = "scans" THEN SC!ScansNext ELSE UNCHANGED scansVars
    /\ IF program = "capacity" THEN CA!CapNext ELSE UNCHANGED capacityVars
    /\ IF program = "audit" THEN OA!AuditNext ELSE UNCHANGED auditVars
    /\ IF program = "snapshot" THEN SN!SnapNext ELSE UNCHANGED snapshotVars
    /\ IF program = "sessions" THEN AG!SessionNext ELSE UNCHANGED sessionsVars
    /\ IF program = "stop" THEN SG!StopNext ELSE UNCHANGED stopVars
    /\ IF program = "ledger" THEN OL!LedgerNext ELSE UNCHANGED ledgerVars
    /\ IF program = "packet" THEN TP!PacketNext ELSE UNCHANGED packetVars

hostProgramsVars == <<program, installVars, assetsVars, retireVars,
                               cleanupVars, brokerVars, streaksVars,
                               scansVars, capacityVars, auditVars,
                               snapshotVars, sessionsVars, stopVars,
                               ledgerVars, packetVars>>

HostProgramsSpec == HostProgramsInit /\ [][HostProgramsNext]_hostProgramsVars

-----------------------------------------------------------------------------
(* The types of the program that runs. *)
HostTypeOK ==
    CASE program = "install" -> RC!CutoverTypeOK
      [] program = "assets" -> SA!SharedTypeOK
      [] program = "retire" -> RT!RetireTypeOK
      [] program = "cleanup" -> PC!CleanTypeOK
      [] program = "broker" -> CB!BrokerTypeOK
      [] program = "streaks" -> CS!StreakTypeOK
      [] program = "scans" -> SC!ScansTypeOK
      [] program = "capacity" -> CA!CapTypeOK
      [] program = "audit" -> OA!AuditTypeOK
      [] program = "snapshot" -> SN!PRSnapTypeOK
      [] program = "sessions" -> AG!SessionTypeOK
      [] program = "stop" -> SG!StopTypeOK
      [] program = "ledger" -> OL!LedgerTypeOK
      [] program = "packet" -> TP!PacketTypeOK

(* Of the release cutover (install-release.py): the server never starts on *)
(* a mixture of two releases, fresh bytes written by others are not taken  *)
(* away, and what the exit says happened did happen.                       *)
CutoverSafe ==
    [][program = "install" => /\ RC!NoMixedPairStep
            /\ RC!FreshBytesKeptStep
            /\ RC!OutcomeTrueStep]_hostProgramsVars

(* Of the shared-asset installer: a failed run leaves nothing of itself    *)
(* over the bytes it found.                                                *)
AssetsRecoverable == program = "assets" => SA!FailedLeavesBackup

(* No installation, sync-back or retirement overwrites or deletes bytes    *)
(* that nobody reviewed, committed or backed up.                           *)
EditsKeptStep ==
    /\ program = "assets" => SA!LiveEditsKeptStep /\ SA!TreeEditsKeptStep
    /\ program = "retire" => RT!OnlyReviewedDeletedStep
EditsKept == [][EditsKeptStep]_hostProgramsVars

(* Of stale-process-cleanup.py: "terminated" is said of what is gone, only *)
(* the incarnation that was hot in enough passes is ended, and SIGKILL     *)
(* reaches only what was listed and matched, or has its pid since.         *)
EndedWasDue ==
    /\ program = "cleanup" => PC!ReportedIsGone
    /\ program = "streaks" => CS!EndedAfterStreak
    /\ program = "scans" => SC!KilledWasListed
    /\ program = "broker" => CB!TerminatedIsGone

(* A signal reaches the process that was scanned while nobody needs it,    *)
(* never a broker in use, and the broker only after what lives below it.   *)
SignalsAreAimedStep ==
    /\ program = "cleanup" => PC!SignalsTheScannedStep
    /\ program = "broker" => CB!BusyIsSparedStep /\ CB!NobodyOrphanedStep
SignalsAreAimed == [][SignalsAreAimedStep]_hostProgramsVars

(* Of the heartbeat (sakshi-heartbeat.py): an alert names an attempt that  *)
(* went on through both reads, a lane reported in progress did execute on  *)
(* the head, a lane that executed all along is not hidden by a row, and a  *)
(* pane is due for a clear only when the transcript it is bound to is      *)
(* quiet and its last clear long ago.  Of pr-open-snapshot.py: nobody is   *)
(* sent to a red pull request that had an owner all along, a merge ask has *)
(* the receipt of its head and nothing in its way, and an owner that is    *)
(* named had a live claim of the head.  Of pm-stop-group-runner.py: a       *)
(* finding that does not block the stop of its session blocked one a       *)
(* moment ago, or was lost on its way; with an exempt one every stop that  *)
(* is answered is blocked.                                                 *)
ReportsAreCurrent ==
    /\ program = "capacity" => CA!AlertsAreCurrent
    /\ program = "audit" => OA!ProgressWasLive /\ OA!LiveEvidenceWins
    /\ program = "snapshot" => /\ SN!DispatchIsUnowned
            /\ SN!AsksAreEarned
            /\ SN!KnownOwnerWasLive
    /\ program = "sessions" => AG!DueMeansQuiet
    /\ program = "stop" => SG!SuppressedWasShown

(* Of pm-ops-legacy.py: an open continuation row that names a head is one  *)
(* the heartbeat accepts, duplicates do not come back, and a consumed      *)
(* packet is dated.                                                        *)
LedgerSound ==
    /\ program = "ledger" => OL!HeadedRowAccepted /\ OL!OneOpenPerKey
    /\ program = "packet" => TP!ConsumedIsDated

(* The cleanup of a merged pull request that a reconciliation has handed   *)
(* over stays owed until it is paid.                                       *)
DebtsKept == program = "ledger" => OL!HandoffKept

(* There is room for the rows there are, and NULL is no value of theirs.    *)
ASSUME LedgerAssumption ==
    /\ MaxRows \in Nat \ {0, 1} /\ MaxUpserts \in Nat
    /\ "cleanup_pr" \in Kinds
    /\ NULL \notin Kinds \cup OL!Evidence \cup OL!Owner \cup OL!Preview \cup {"merged", "clean"}

(* NULL is no process, no pid, no policy and no outcome; moves are counted. *)
ASSUME ProcessAssumption ==
    /\ NULL \notin SC!Job \cup PC!Process \cup Pid \cup PC!Policies \cup {"terminated", "already_exited"}
    /\ Root \in Pid /\ MaxMoves \in Nat /\ MaxSteps \in Nat

(* A continuation row is of one of the lanes; heads are counted from 1.     *)
ASSUME AuditAssumption ==
    /\ \A r \in AuRows : r.lane \in OA!Durable
    /\ AuHeads \in Nat \ {0} /\ AuMoves \in Nat

(* The worlds a snapshot may find have the shape GitHub and the ledger give *)
(* them, and a label has no name of another fact.                           *)
ASSUME SnapAssumption ==
    /\ SnHeads \in Nat \ {0} /\ SnMoves \in Nat
    /\ \A p \in SnWorlds : p \in SN!PullRequest /\ p.head = 1
    /\ \A l \in SnLedgers : /\ l \in [SN!ClaimKinds -> SN!Row]
                           /\ \A k \in SN!ClaimKinds : l[k].head \in {0, 1}
    /\ \A r \in SnRows : r.owner \in SN!Owners /\ r.live \in BOOLEAN
    /\ SnLabels \cap (SN!ClaimKinds \cup {"slot", "draft", "dnm", "thread"} \cup SN!ThisHeadNames) = {}
=============================================================================
