--------------------------- MODULE ProcessCleanup ---------------------------
(***************************************************************************)
(* `stale-process-cleanup.py --apply` on the processes of one slot's       *)
(* checkout: the scan that picks candidates and their policy, the check of *)
(* a whole tree, and TERM, wait and KILL with a recheck before each signal.*)
(* The scan is old by the time of a signal: processes exit, pids are used  *)
(* again, the slot is claimed, sessions and browsers come back to life.    *)
(***************************************************************************)
EXTENDS Naturals, FiniteSets

CONSTANTS Pid,
          Root,         \* the pid of the tree's first process
          MaxMoves,     \* bound: what the world does during the run
          NULL

Category == {"nextjs", "agent-browser", "vitest", "other"}
Process == [start : 0 .. MaxMoves,      \* the kernel's start identity
            cat : Category,
            parent : Pid \cup {"init", "shell"},
            home : BOOLEAN,             \* its cwd is the slot's checkout
            port : {"slot", "stray", "none", "unreadable"},
            age : {"new", "mid", "old"},    \* under 10 minutes, under an hour
            busy : BOOLEAN]             \* its CPU time moved since it was seen

VARIABLES
    proc,           \* the process table
    lane,           \* the slot's row: free (with no assignment), held, unreadable
    session,        \* an agent runs with its cwd in the checkout
    attested,       \* --attest-slotless-reap
    row, policy,    \* the scan: the process of each candidate and why
    cpc, tree, trees,
    aim, signalled, \* the process verified last; who got TERM
    outcome, moved, \* moved: the world moved since aim was verified
    moves

table == <<proc, lane, session>>
rows == <<row, policy, attested>>
cleanVars == <<table, rows, cpc, tree, trees, aim, signalled, outcome, moved, moves>>

Policies == {"stale_owner", "duplicate_dev_server", "dead_slot_session",
             "idle_agent_browser", "orphan_dev_tool"}

CleanTypeOK ==
    /\ proc \in [Pid -> Process \cup {NULL}]
    /\ lane \in {"free", "held", "unreadable"} /\ session \in BOOLEAN
    /\ attested \in BOOLEAN
    /\ row \in [Pid -> Process \cup {NULL}] /\ policy \in [Pid -> Policies \cup {NULL}]
    /\ cpc \in {"scan", "tree", "term", "send_term", "wait", "kill", "send_kill", "done"}
    /\ tree \subseteq Pid /\ trees \subseteq SUBSET Pid
    /\ aim \in Pid \cup {NULL} /\ signalled \subseteq Pid
    /\ outcome \in [Pid -> {NULL, "refused", "terminated", "already_exited", "error"}]
    /\ moved \in BOOLEAN /\ moves \in 0 .. MaxMoves

(* A tree of one category, its second process a child or already orphaned. *)
CleanInit ==
    /\ \E cat \in Category \ {"other"}, age \in {"mid", "old"}, home \in BOOLEAN,
          port \in [Pid -> {"slot", "stray", "none"}],
          up \in [Pid -> Pid \cup {"init", "shell"}] :
          /\ up[Root] \in {"init", "shell"}
          /\ \A p \in Pid \ {Root} : up[p] \in {Root, "init"}
          /\ cat # "nextjs" => \A p \in Pid : port[p] = "none"
          /\ cat = "nextjs" => home
          /\ proc = [p \in Pid |-> [start |-> 0, cat |-> cat, parent |-> up[p], home |-> home,
                                    port |-> port[p], age |-> age, busy |-> FALSE]]
          /\ attested \in {FALSE, cat = "agent-browser" /\ ~home}
    /\ lane \in {"free", "held"} /\ session \in BOOLEAN
    /\ row = [p \in Pid |-> NULL] /\ policy = row
    /\ cpc = "scan" /\ tree = {} /\ trees = {} /\ aim = NULL /\ signalled = {}
    /\ outcome = row /\ moved = FALSE /\ moves = 0

----------------------------------------------------------------------------
(* Selection.                                                              *)

Live == {p \in Pid : proc[p] # NULL}
FreeOfOwner == lane = "free"        \* stale_owner_evidence, and free+idle

StaleOwner(r) ==
    /\ r.age = "old"
    /\ r.cat = "nextjs" => r.home /\ FreeOfOwner
    /\ r.cat = "agent-browser" => (r.home => FreeOfOwner)
    /\ r.cat \notin {"vitest", "other"}

(* duplicate_dev_server_reasons: a tree that listens, but not where the    *)
(* slot does, or that does not listen beside one that does.                *)
WithChildren(S, p) == {p} \cup {q \in S : proc[q].parent = p}
Dev == {p \in Live : proc[p].cat = "nextjs" /\ proc[p].home}
TopOf(S) == {p \in S : proc[p].parent \notin S}
Ports(S) == {proc[p].port : p \in S} \ {"none", "unreadable"}
DevTree(p) == WithChildren(Dev, p)

Duplicate(p) ==
    \E r \in TopOf(Dev) :
        /\ p \in DevTree(r)
        /\ \A q \in DevTree(r) : proc[q].age # "new"
        /\ LET ports == Ports(DevTree(r))
               keepers == {k \in TopOf(Dev) : "slot" \in Ports(DevTree(k))}
           IN \/ "slot" \in ports /\ \E k \in keepers : k # r
              \/ "slot" \notin ports /\ (ports # {} \/ keepers # {})

(* A browser's daemon whose CPU counter is flat takes its tree along. *)
IdleBrowser(p) ==
    /\ proc[p].cat = "agent-browser" /\ proc[Root] # NULL
    /\ proc[Root].cat = "agent-browser" /\ proc[Root].age = "old" /\ ~proc[Root].busy
    /\ proc[p].home => ~session

Orphan(p) ==
    /\ proc[p].cat = "vitest"
    /\ \E q \in {p, proc[p].parent} \cap Live :
          proc[q].cat = "vitest" /\ proc[q].parent = "init" /\ proc[q].age = "old"

DeadSession(r) ==
    r.cat = "nextjs" /\ r.home /\ lane = "held" /\ r.age = "old" /\ ~session

(* collect_processes and the policies that follow it, later ones last. *)
PolicyOf(p) ==
    IF IdleBrowser(p) THEN "idle_agent_browser"
    ELSE IF Orphan(p) THEN "orphan_dev_tool"
    ELSE IF DeadSession(proc[p]) THEN "dead_slot_session"
    ELSE IF StaleOwner(proc[p]) THEN "stale_owner"
    ELSE IF Duplicate(p) /\ FreeOfOwner THEN "duplicate_dev_server"
    ELSE NULL

Grouped(S) == {WithChildren(S, p) : p \in TopOf(S)}

Scan ==
    /\ cpc = "scan"
    /\ IF lane = "unreadable"
       THEN cpc' = "done" /\ UNCHANGED <<row, policy, trees>>
       ELSE LET picked == {p \in Live : PolicyOf(p) # NULL} IN
            /\ row' = [p \in Pid |-> IF p \in picked THEN proc[p] ELSE NULL]
            /\ policy' = [p \in Pid |-> IF p \in picked THEN PolicyOf(p) ELSE NULL]
            /\ trees' = Grouped(picked)
            /\ cpc' = "tree"
    /\ UNCHANGED <<table, attested, tree, aim, signalled, outcome, moved, moves>>

----------------------------------------------------------------------------
(* revalidate_candidate: the process is the one scanned and its policy     *)
(* still holds.                                                            *)

SameProcess(p) ==
    /\ proc[p] # NULL
    /\ proc[p].start = row[p].start /\ proc[p].cat = row[p].cat /\ proc[p].home = row[p].home
    /\ \/ proc[p].parent = row[p].parent
       \/ proc[p].parent = "init" /\ policy[p] # "stale_owner"

Holds(p) ==
    CASE policy[p] = "idle_agent_browser" -> p = Root => ~proc[p].busy
      [] policy[p] = "dead_slot_session" -> ~session
      [] policy[p] = "orphan_dev_tool" -> TRUE
      [] policy[p] = "duplicate_dev_server" ->
            FreeOfOwner /\ proc[p].port \notin {"slot", "unreadable"}
      [] policy[p] = "stale_owner" ->
            /\ lane # "unreadable"
            /\ IF row[p].home THEN FreeOfOwner ELSE attested /\ proc[p].parent # "shell"

Valid(p) ==
    /\ SameProcess(p)
    /\ row[p].cat = "agent-browser" /\ row[p].home => ~session
    /\ Holds(p)

(* revalidate_tree *)
Below(S) == S \cup {q \in Live : proc[q].parent \in S}
TreeOK ==
    /\ \A p \in tree : Valid(p)
    /\ \A p \in Below(tree) \cap Live :
          /\ proc[p].port # "unreadable"
          /\ proc[p].port = "slot" => \A q \in tree : ~row[q].home

Decide(S, what) == outcome' = [p \in Pid |-> IF p \in S THEN what ELSE outcome[p]]

NextTree ==
    /\ cpc = "tree" /\ tree = {}
    /\ \/ trees = {} /\ cpc' = "done" /\ UNCHANGED <<tree, trees>>
       \/ \E t \in trees : tree' = t /\ trees' = trees \ {t} /\ UNCHANGED cpc
    /\ UNCHANGED <<table, rows, aim, signalled, outcome, moved, moves>>

CheckTree ==
    /\ cpc = "tree" /\ tree # {}
    /\ IF TreeOK THEN cpc' = "term" /\ UNCHANGED <<tree, outcome>>
                 ELSE tree' = {} /\ Decide(tree, "refused") /\ UNCHANGED cpc
    /\ UNCHANGED <<table, rows, trees, aim, signalled, moved, moves>>

----------------------------------------------------------------------------
(* _kill_members                                                           *)

Undecided == {p \in tree : outcome[p] = NULL}

Verify(from, next, todo) ==
    /\ cpc = from
    /\ \E p \in todo :
          IF Valid(p) THEN cpc' = next /\ aim' = p /\ moved' = FALSE /\ UNCHANGED outcome
                      ELSE Decide({p}, "refused") /\ UNCHANGED <<cpc, aim, moved>>
    /\ UNCHANGED <<table, rows, tree, trees, signalled, moves>>

VerifyForTerm == Verify("term", "send_term", Undecided \ signalled)

Orphaned(p) == [q \in Pid |->
    IF q = p THEN NULL
    ELSE IF proc[q] # NULL /\ proc[q].parent = p THEN [proc[q] EXCEPT !.parent = "init"]
    ELSE proc[q]]

(* TERM may be obeyed at once, later or never, or not be permitted. *)
SendTerm ==
    /\ cpc = "send_term" /\ cpc' = "term" /\ aim' = NULL
    /\ \/ /\ proc[aim] = NULL
          /\ Decide({aim}, "already_exited") /\ UNCHANGED <<proc, signalled>>
       \/ /\ proc[aim] # NULL
          /\ signalled' = signalled \cup {aim} /\ proc' \in {proc, Orphaned(aim)}
          /\ UNCHANGED outcome
       \/ /\ proc[aim] # NULL
          /\ Decide({aim}, "error") /\ UNCHANGED <<proc, signalled>>
    /\ UNCHANGED <<lane, session, rows, tree, trees, moved, moves>>

Wait ==
    /\ cpc = "term" /\ Undecided \ signalled = {}
    /\ cpc' = "kill"
    /\ UNCHANGED <<table, rows, tree, trees, aim, signalled, outcome, moved, moves>>

AlreadyGone ==
    /\ cpc = "kill"
    /\ \E p \in Undecided : proc[p] = NULL /\ Decide({p}, "terminated")
    /\ UNCHANGED <<table, rows, cpc, tree, trees, aim, signalled, moved, moves>>

VerifyForKill == Verify("kill", "send_kill", {p \in Undecided : proc[p] # NULL})

SendKill ==
    /\ cpc = "send_kill" /\ cpc' = "kill" /\ aim' = NULL
    /\ \/ proc' = Orphaned(aim) /\ Decide({aim}, "terminated")
       \/ proc' = proc /\ proc[aim] # NULL /\ Decide({aim}, "error")
    /\ UNCHANGED <<lane, session, rows, tree, trees, signalled, moved, moves>>

TreeDone ==
    /\ cpc = "kill" /\ Undecided = {}
    /\ cpc' = "tree" /\ tree' = {}
    /\ UNCHANGED <<table, rows, trees, aim, signalled, outcome, moved, moves>>

----------------------------------------------------------------------------
(* The machine goes on.                                                    *)

World(step) ==
    /\ moves < MaxMoves /\ moves' = moves + 1 /\ cpc # "done"
    /\ step
    /\ moved' = TRUE
    /\ UNCHANGED <<rows, cpc, tree, trees, aim, signalled, outcome>>

Exits(p) == proc[p] # NULL /\ proc' = Orphaned(p) /\ UNCHANGED <<lane, session>>

(* The pid is used again, by a process of the same kind or of another. *)
Reused(p) ==
    /\ proc[p] = NULL
    /\ \E cat \in {"nextjs", "other"}, home \in BOOLEAN :
          proc' = [proc EXCEPT ![p] =
              [start |-> moves + 1, cat |-> cat, parent |-> "shell", home |-> home,
               port |-> "none", age |-> "new", busy |-> FALSE]]
    /\ UNCHANGED <<lane, session>>

TakesPort(p) ==
    /\ proc[p] # NULL /\ proc[p].cat = "nextjs"
    /\ \E port \in {"slot", "unreadable"} : proc' = [proc EXCEPT ![p].port = port]
    /\ UNCHANGED <<lane, session>>

Works(p) ==
    /\ proc[p] # NULL /\ ~proc[p].busy
    /\ proc' = [proc EXCEPT ![p].busy = TRUE]
    /\ UNCHANGED <<lane, session>>

SlotMoves ==
    \/ lane' \in {"free", "held", "unreadable"} \ {lane} /\ UNCHANGED <<proc, session>>
    \/ session' = ~session /\ UNCHANGED <<proc, lane>>

Cleaner ==
    \/ Scan \/ NextTree \/ CheckTree
    \/ VerifyForTerm \/ SendTerm \/ Wait
    \/ AlreadyGone \/ VerifyForKill \/ SendKill \/ TreeDone

CleanNext ==
    \/ Cleaner
    \/ World(SlotMoves)
    \/ \E p \in Pid : World(Exits(p)) \/ World(Reused(p)) \/ World(TakesPort(p)) \/ World(Works(p))

CleanSpec == CleanInit /\ [][CleanNext]_cleanVars

----------------------------------------------------------------------------
(* Properties.                                                             *)

(* A signal reaches the process that was scanned, while nobody needs it:   *)
(* its slot is without an owner or without a session, and the slot's own   *)
(* server is never the victim.  The window between the recheck and the     *)
(* signal is all that remains of the scan's age.                           *)
SignalsTheScannedStep ==
    \A p \in Pid : aim = p /\ aim' = NULL /\ ~moved =>
        /\ proc[p] # NULL => proc[p].start = row[p].start
        /\ row[p].cat = "nextjs" => row[p].home /\ (session => lane = "free")
        /\ row[p].cat = "agent-browser" /\ row[p].home => ~session
SignalsTheScanned == [][SignalsTheScannedStep]_cleanVars

(* A process reported terminated is gone, not merely signalled, and none   *)
(* is reported that was not a candidate.                                   *)
ReportedIsGone ==
    \A p \in Pid : outcome[p] \in {"terminated", "already_exited"} =>
        row[p] # NULL /\ (proc[p] = NULL \/ proc[p].start # row[p].start)

(* The invariant of which they follow.  What the scan chose has a policy   *)
(* that suits it; start identities only grow.                              *)
PolicySuits(p) ==
    /\ policy[p] # NULL
    /\ policy[p] = "idle_agent_browser" => row[p].cat = "agent-browser"
    /\ policy[p] = "orphan_dev_tool" => row[p].cat = "vitest"
    /\ policy[p] \in {"dead_slot_session", "duplicate_dev_server"} =>
          row[p].cat = "nextjs" /\ row[p].home
    /\ policy[p] = "stale_owner" => (row[p].cat = "nextjs" => row[p].home)

CleanInv ==
    /\ CleanTypeOK /\ ReportedIsGone
    /\ \A p \in Pid :
          /\ row[p] # NULL => PolicySuits(p) /\ row[p].start <= moves
          /\ proc[p] # NULL => proc[p].start <= moves
          /\ row[p] # NULL /\ proc[p] # NULL => row[p].start <= proc[p].start
    /\ cpc = "scan" => tree = {} /\ \A p \in Pid : outcome[p] = NULL
    /\ \A p \in tree : row[p] # NULL
    /\ \A t \in trees : \A p \in t : row[p] # NULL
    /\ cpc \in {"send_term", "send_kill"} =>
          aim \in Pid /\ row[aim] # NULL /\ (~moved => Valid(aim))
    /\ cpc \notin {"send_term", "send_kill"} => aim = NULL

=============================================================================
