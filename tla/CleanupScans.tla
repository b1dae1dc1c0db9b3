---------------------------- MODULE CleanupScans ----------------------------
(***************************************************************************)
(* The scans of `stale-process-cleanup.py` that go by the command line and *)
(* the age alone: recursive searches under the home directory, Convex CLI  *)
(* calls, orphaned preview servers and render scripts.  One listing of the *)
(* process table is classified; each match gets TERM, up to three seconds, *)
(* and KILL if its pid is still in use.  Nothing is rechecked in between.  *)
(***************************************************************************)
EXTENDS Naturals, FiniteSets

CONSTANTS Scanned,      \* pids
          MaxSteps,     \* bound: exits and new processes
          NULL

Tool == {"search", "local_search", "git", "convex_data", "convex_run", "convex_dev",
         "preview_tmp", "preview_repo", "vite", "render", "shell"}
Duration == {"young", "minutes", "hour", "day"} \* under any limit, over the
    \* five minutes of a search or the three of `convex data`, over the hour of a
    \* render script and the quarter of `convex run`, over the day of a preview
Job == [born : 0 .. MaxSteps, tool : Tool, ran : Duration, up : Scanned \cup {"init"},
        fat : BOOLEAN]      \* its memory is over the limit of `convex data`

VARIABLES
    jobs,       \* the process table
    list,       \* the listing a scan works on
    gpc, doomed, hit,
    killed,     \* the pid that got KILL last, and the process that had it
    listedAt,   \* ghost: the step of the listing
    steps

scanVars == <<jobs, list, gpc, doomed, hit, killed, listedAt, steps>>

ScansTypeOK ==
    /\ jobs \in [Scanned -> Job \cup {NULL}] /\ list \in [Scanned -> Job \cup {NULL}]
    /\ gpc \in {"list", "pick", "wait", "done"}
    /\ doomed \subseteq Scanned /\ hit \subseteq Scanned
    /\ killed \in [pid : Scanned, job : Job] \cup {NULL}
    /\ listedAt \in 0 .. MaxSteps /\ steps \in 0 .. MaxSteps

ScansInit ==
    /\ jobs \in [Scanned -> [born : {0}, tool : Tool, ran : Duration,
                             up : {"init"}, fat : BOOLEAN]]
    /\ \E p \in Scanned : \A q \in Scanned \ {p} :
          jobs[q].tool \in {"convex_dev", "shell", "git"} /\ ~jobs[q].fat /\ jobs[q].ran = "day"
    /\ list = [p \in Scanned |-> NULL]
    /\ gpc = "list" /\ doomed = {} /\ hit = {} /\ killed = NULL
    /\ listedAt = 0 /\ steps = 0

----------------------------------------------------------------------------
(* The classification of one line of the listing.                          *)

Over(job, limit) ==
    CASE limit = "minutes" -> job.ran # "young"
      [] limit = "hour" -> job.ran \in {"hour", "day"}
      [] limit = "day" -> job.ran = "day"

Ancestors(l, p) ==
    LET up1 == {q \in Scanned : l[q] # NULL /\ l[p].up = q}
    IN up1 \cup {q \in Scanned : l[q] # NULL /\ \E u \in up1 : l[u].up = q}

UnderServer(l, p) == \E q \in Ancestors(l, p) : l[q].tool = "convex_dev"

Runaway(l, p) == l[p].tool = "search" /\ Over(l[p], "minutes")

ConvexRunaway(l, p) ==
    /\ ~UnderServer(l, p)
    /\ \/ l[p].tool = "convex_data" /\ (l[p].fat \/ Over(l[p], "minutes"))
       \/ l[p].tool = "convex_run" /\ Over(l[p], "hour")

PreviewOrphan(l, p) ==
    /\ l[p].up = "init"
    /\ \/ l[p].tool \in {"preview_tmp", "vite"} /\ Over(l[p], "day")
       \/ l[p].tool = "render" /\ Over(l[p], "hour")

Classified(l, p) ==
    l[p] # NULL /\ (Runaway(l, p) \/ ConvexRunaway(l, p) \/ PreviewOrphan(l, p))

(* A preview goes with everything below it. *)
DoomedBy(l, p) ==
    IF PreviewOrphan(l, p) THEN {p} \cup {q \in Scanned : l[q] # NULL /\ p \in Ancestors(l, q)}
                           ELSE {p}

----------------------------------------------------------------------------

ListAll ==
    /\ gpc = "list"
    /\ list' = jobs /\ listedAt' = steps /\ gpc' = "pick"
    /\ UNCHANGED <<jobs, doomed, hit, killed, steps>>

(* TERM to a match and its tree, leaves first, as one step. *)
Pick ==
    /\ gpc = "pick"
    /\ \/ /\ {p \in Scanned : Classified(list, p)} \subseteq hit
          /\ gpc' = "done" /\ UNCHANGED <<jobs, doomed, hit>>
       \/ \E p \in Scanned \ hit :
             /\ Classified(list, p)
             /\ doomed' = DoomedBy(list, p) /\ hit' = hit \cup {p} /\ gpc' = "wait"
             /\ \E obey \in SUBSET doomed' :
                   jobs' = [q \in Scanned |-> IF q \in obey THEN NULL ELSE jobs[q]]
    /\ UNCHANGED <<list, killed, listedAt, steps>>

KillOne ==
    /\ gpc = "wait"
    /\ \/ doomed = {} /\ gpc' = "pick" /\ killed' = NULL /\ UNCHANGED <<jobs, doomed>>
       \/ \E p \in doomed :
             /\ doomed' = doomed \ {p}
             /\ killed' = IF jobs[p] = NULL THEN NULL ELSE [pid |-> p, job |-> jobs[p]]
             /\ jobs' = [jobs EXCEPT ![p] = NULL]
             /\ UNCHANGED gpc
    /\ UNCHANGED <<list, hit, listedAt, steps>>

Leaves(p) ==
    /\ jobs[p] # NULL /\ steps < MaxSteps /\ steps' = steps + 1
    /\ jobs' = [q \in Scanned |-> CASE q = p -> NULL
                  [] q # p /\ jobs[q] # NULL /\ jobs[q].up = p -> [jobs[q] EXCEPT !.up = "init"]
                  [] OTHER -> jobs[q]]
    /\ UNCHANGED <<list, gpc, doomed, hit, killed, listedAt>>

Enters(p) ==
    /\ jobs[p] = NULL /\ steps < MaxSteps /\ steps' = steps + 1
    /\ \E tool \in {"convex_data", "shell"},
          up \in {"init"} \cup {q \in Scanned : jobs[q] # NULL} :
          jobs' = [jobs EXCEPT ![p] =
              [born |-> steps + 1, tool |-> tool, ran |-> "young", up |-> up, fat |-> TRUE]]
    /\ UNCHANGED <<list, gpc, doomed, hit, killed, listedAt>>

ScansNext == ListAll \/ Pick \/ KillOne \/ \E p \in Scanned : Leaves(p) \/ Enters(p)
ScansSpec == ScansInit /\ [][ScansNext]_scanVars

----------------------------------------------------------------------------
(* Properties.                                                             *)

(* Listed, and matched or the listed descendant of a match.  A server      *)
(* under which a CLI runs, a shell or a search elsewhere never matches.     *)
Condemned(p) ==
    /\ list[p] # NULL
    /\ p \in hit \/ \E q \in hit : q \in Ancestors(list, p)
    /\ list[p].tool \notin {"convex_dev", "git", "local_search", "preview_repo", "shell"}
        \/ \E q \in hit : q \in Ancestors(list, p) /\ PreviewOrphan(list, q)

Listed(job, p) == list[p] # NULL /\ job.born = list[p].born /\ job.tool = list[p].tool

(* The pid that gets KILL is that of a process that was listed and matched, *)
(* or of the listed descendant of a match; and what dies by it is the very  *)
(* process that was listed, unless it started after the listing and took    *)
(* the pid while the scan waited for the listed one to go.                  *)
KilledWasListed ==
    killed # NULL =>
        Condemned(killed.pid) /\ (killed.job.born <= listedAt => Listed(killed.job, killed.pid))

(* The invariant of which it follows: who is doomed was listed and matched *)
(* or is below a match, and a process that has the pid of a listed one is  *)
(* that one, or one that started after the listing.                        *)
ScansInv ==
    /\ ScansTypeOK
    /\ listedAt <= steps
    /\ gpc = "list" => doomed = {} /\ hit = {} /\ killed = NULL
    /\ gpc # "list" =>
          \A p \in Scanned : jobs[p] # NULL /\ jobs[p].born <= listedAt => Listed(jobs[p], p)
    /\ \A p \in doomed : Condemned(p)
    /\ KilledWasListed

=============================================================================
