\* The instance and the bounds of each program.
CONSTANTS
    t1 = t1  t2 = t2  g1 = g1  l1 = l1  e1 = e1  r1 = r1  s1 = s1  b0 = b0
    b1 = b1  p1 = p1  p2 = p2  s2 = s2  h1 = h1  h2 = h2  c1 = c1  c2 = c2
    NULL = NULL
    \* ReleaseCutover
    InstallTarget = {t1, t2}  Same = {t2}  Gone = {g1}  Legacy = {l1}
    Edit = {e1}  InstallMaxEdits = 1
    \* SharedAssets
    Run = {r1}  Source = {s1}  AssetsTarget = {t1, t2}  Of <- Aliases
    Bytes = {b0, b1}  First = b0  AssetsMaxEdits = 2
    \* Retirement
    Retired = {t1, t2}
    \* ProcessCleanup
    Pid = {p1, p2}  Root = p1  MaxMoves = 1
    \* CodexBroker
    MaxTurns = 3
    \* CleanupStreaks
    MaxRuns = 3  Enough = 2
    \* CleanupScans
    Scanned = {p1, p2}  MaxSteps = 2
    \* CapacityAlerts
    CapRuns = {"w1"}  MaxAttempts = 2  MaxBeats = 2
    \* OpenPRAudit
    AuSlots = {1}  AuRows <- AuditRows  AuHeads = 2  AuMoves = 2
    \* PRSnapshot
    SnWorlds <- SnapshotPRs  SnLedgers <- SnapshotLedgers
    SnRows <- SnapshotRows  SnLabels <- SnapshotLabels  SnHeads = 2
    SnMoves = 2
    \* SessionAge
    SaPanes <- SessionPanes  SaMaxTime = 3
    \* StopGroup
    Session = {s1, s2}  Hook = {h1, h2}  Finding = {"x"}  Grace = 2
    LongTurn = 2  MaxStopTime = 2  MaxStops = 2
    \* ObligationLedger
    Kinds = {"rework", "cleanup_pr"}  MaxRows = 2  MaxUpserts = 1
    \* TransitionPackets
    Command = {c1, c2}
\* The programs end.
CHECK_DEADLOCK FALSE
SPECIFICATION HostProgramsSpec
INVARIANT HostTypeOK
INVARIANT AssetsRecoverable
INVARIANT EndedWasDue
INVARIANT ReportsAreCurrent
INVARIANT LedgerSound
 
PROPERTY CutoverSafe
PROPERTY EditsKept
PROPERTY SignalsAreAimed
