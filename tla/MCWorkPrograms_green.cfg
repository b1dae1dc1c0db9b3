\* Of the reconciliation: the default, one guard run per tick.
\* The instance and the bounds of each program.
CONSTANTS
    c1 = c1  c2 = c2  i1 = i1  p1 = p1  r1 = r1  r2 = r2  q1 = q1  q2 = q2
    p2 = p2  NULL = NULL  NoRun = NoRun
    \* ReadyPick
    Issue = {1, 2, 3}  Asked = 2  Chunk = 1  MaxPoolMoves = 1
    Shapes <- PickShapes
    \* DependencyHell
    Node = {1, 2, 3}  GatedNode = {1}  MaxDepth = 2  DeepFrom = 2  FanFrom = 1
    Graphs <- BlockerGraphs  MaxGraphMoves = 1
    \* ContractRepair
    Coordinator = {c1, c2}  Backlog = {i1}  MaxBodyEdits = 1
    Bodies <- IssueBodies
    \* AssignmentGate
    GatePR = {p1}  Todo = {i1}  MaxGateMoves = 1  GateRuns = 2
    \* BacklogPromotion
    Ticket = {1, 2}  Target = 1  MaxTicketMoves = 1  MaxPromotions = 2
    Tickets <- TicketShapes
    \* TodoRepair
    Card = {c1, c2}  MaxCardMoves = 1
    \* CleanupPR
    Requests = {"linked", "label_only", "post_merge", "issue_less"}
    Worlds <- WorldShapes  MaxAsks = 2  MaxPRMoves = 1
    \* CIVerdict
    Run = {r1, r2}  Publisher = {p1, p2}  FileOf <- VerdictFiles
    PrOf <- VerdictPRs  MaxPublishes = 3  MaxCIMoves = 1
    \* MergePR
    RunShapes <- MergeShapes
    NeedsChoices = {{"ts", "e2e"}, {"ts", "py"}, {"ts"}, {}}
    MaxMergeMoves = 1
    \* CISuccess
    PRList <- TwoPRs  MaxChecks = 1  MaxPushes = 0  MaxPmCalls = 1
    MaxFaults = 0
    \* PMQueue
    SlotState = {"active", "check"}  MaxStamp = 2  MaxJobs = 2
    MaxQueueCrash = 1
    \* HourlyDebt
    MaxBucket = 2  MaxWriter = 3  MaxDebtCrash = 1
    \* RespawnIdle
    MaxRequests = 2  MaxPrompts = 1  MaxLaunches = 2  MaxMoves = 1
    MaxRespawnCrash = 1  MaxRespawns = 2
\* The programs end.
CHECK_DEADLOCK FALSE
SPECIFICATION GreenSpec
PROPERTY GreenSurfaced
