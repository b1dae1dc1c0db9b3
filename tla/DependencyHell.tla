--------------------------- MODULE DependencyHell ---------------------------
(***************************************************************************)
(* `ready_pool_select.py`, the report on the issues that wait: the blocker *)
(* graph is fetched level by level, one batch each, and walked from every  *)
(* gated issue along simple paths of bounded length.  A batch may fail and *)
(* GitHub may move between two of them.                                    *)
(***************************************************************************)
EXTENDS Naturals, Sequences, FiniteSets

CONSTANTS
    Node,           \* issue numbers
    GatedNode,      \* the ones the pool gates
    MaxDepth,       \* edges walked at most
    DeepFrom,       \* a chain this long is reported
    FanFrom,        \* this many gated issues make a root a hotspot
    Graphs,         \* what GitHub may hold at first
    MaxGraphMoves   \* bound: changes on GitHub during the report

(* done: closed and satisfying; dead: closed without; stale: open, idle or *)
(* owned by nobody.  Only an open issue declares blockers.                 *)
IssueType == [state : {"open", "stale", "dead", "done"}, refs : SUBSET Node]
Unread == [state |-> "unread", refs |-> {}]
Failed == [state |-> "failed", refs |-> {}]

VARIABLES
    graph,      \* GitHub
    edges,      \* the open blockers read with the pool, of the gated issues
    poolRead,   \* and these are those there are: no read of the pool failed
    fetched,    \* what the level reads returned
    frontier, level, hpc,
    reported, hotspots,
    still, graphMoves

hellVars == <<graph, edges, poolRead, fetched, frontier, level, hpc, reported, hotspots,
              still, graphMoves>>

Reasons == {"CYCLE", "DEEP", "STALE_ROOT", "DEAD_ROOT"}

HellTypeOK ==
    /\ graph \in [Node -> IssueType] /\ edges \in [GatedNode -> SUBSET Node]
    /\ poolRead \in BOOLEAN
    /\ fetched \in [Node -> IssueType \cup {Unread, Failed}]
    /\ frontier \subseteq Node /\ level \in 0 .. MaxDepth + 1
    /\ hpc \in {"pool", "fetch", "done"}
    /\ reported \in [GatedNode -> SUBSET Reasons] /\ hotspots \subseteq Node
    /\ still \in BOOLEAN /\ graphMoves \in 0 .. MaxGraphMoves

HellInit ==
    /\ graph \in Graphs /\ graph \in [Node -> IssueType]
    /\ \A n \in Node : graph[n].state \in {"dead", "done"} => graph[n].refs = {}
    /\ \A n \in GatedNode : graph[n].state \in {"open", "stale"}
    /\ edges = [n \in GatedNode |-> {}] /\ poolRead = TRUE
    /\ fetched = [n \in Node |-> Unread]
    /\ frontier = {} /\ level = 0 /\ hpc = "pool"
    /\ reported = [n \in GatedNode |-> {}] /\ hotspots = {}
    /\ still = TRUE /\ graphMoves = 0

----------------------------------------------------------------------------
Known(n) == fetched[n] \notin {Unread, Failed}
NodeSatisfied(n) == Known(n) /\ fetched[n].state = "done"

(* Wrong: a stale issue is a root whatever it declares.                     *)
DeclaredByFresh(n) ==
    IF Known(n) /\ fetched[n].state = "open" THEN fetched[n].refs ELSE {}

DeclaredDeps(n) ==
    IF Known(n) /\ fetched[n].state \in {"open", "stale"} THEN fetched[n].refs ELSE {}

OpenEdges(n) ==
    IF n \in GatedNode THEN edges[n]
    ELSE {d \in DeclaredDeps(n) : ~NodeSatisfied(d)}

Last(p) == p[Len(p)]
On(p) == {p[i] : i \in DOMAIN p}

(* The simple paths from a start, of at most MaxDepth edges.                *)
Follows(p) == \A i \in DOMAIN p : i + 1 \in DOMAIN p => p[i + 1] \in OpenEdges(p[i])
Simple(p) == \A i, j \in DOMAIN p : p[i] = p[j] => i = j
PathsFrom(start) ==
    {p \in UNION {[1 .. m -> Node] : m \in 1 .. MaxDepth + 1} :
        p[1] = start /\ Follows(p) /\ Simple(p)}

Ends(start, p) ==
    Last(p) # start /\ (OpenEdges(Last(p)) = {} \/ Len(p) - 1 >= MaxDepth)

Walk(start) ==
    LET paths == PathsFrom(start)
        ended == {p \in paths : Ends(start, p)} IN
    [leaves |-> {Last(p) : p \in ended},
     depths |-> {Len(p) - 1 : p \in ended},
     cycle |-> \E p \in paths \ ended : OpenEdges(Last(p)) \cap On(p) # {},
     truncated |-> \E p \in ended : OpenEdges(Last(p)) # {}]

(* A root that could not be looked up carries no flag. *)
RootFlags(n) ==
    IF ~Known(n) THEN {}
    ELSE CASE fetched[n].state \in {"dead", "done"} -> {"DEAD_ROOT"}
           [] fetched[n].state = "stale" -> {"STALE_ROOT"}
           [] OTHER -> {}

Assess(start) ==
    LET w == Walk(start) IN
    {"CYCLE" : x \in IF w.cycle THEN {1} ELSE {}}
    \cup {"DEEP" : x \in {d \in w.depths : d >= DeepFrom}}
    \cup {"DEEP" : x \in IF w.truncated THEN {1} ELSE {}}
    \cup UNION {RootFlags(r) : r \in w.leaves}

----------------------------------------------------------------------------
(* evaluate_dependency leaves the open blockers of each gated issue.  Those *)
(* that GitHub lists or a comment names are missing when that read fails,   *)
(* and one whose state could not be looked up stays, though it is done.     *)
ReadPool ==
    /\ hpc = "pool" /\ hpc' = "fetch"
    /\ edges' \in {e \in [GatedNode -> SUBSET Node] : \A n \in GatedNode : e[n] \subseteq graph[n].refs}
    /\ poolRead' = (edges' = [n \in GatedNode |-> {d \in graph[n].refs : graph[d].state # "done"}])
    /\ frontier' = GatedNode \cup UNION {edges'[n] : n \in GatedNode}
    /\ UNCHANGED <<graph, fetched, level, reported, hotspots, still, graphMoves>>

(* One batch of details, all of it or none. *)
Details(todo) ==
    \E lost \in {{}, todo} :
        fetched' = [n \in Node |-> IF n \notin todo THEN fetched[n]
                                   ELSE IF n \in lost THEN Failed ELSE graph[n]]

FetchLevel ==
    LET todo == {n \in frontier : fetched[n] = Unread} IN
    /\ hpc = "fetch" /\ level <= MaxDepth /\ todo # {}
    /\ Details(todo)
    /\ frontier' = {d \in UNION {IF n \in GatedNode THEN edges[n] ELSE DeclaredDeps(n)' :
                                 n \in todo} : fetched'[d] = Unread}
    /\ level' = level + 1
    /\ UNCHANGED <<graph, edges, poolRead, hpc, reported, hotspots, still, graphMoves>>

Hotspots(roots) == {r \in Node : Cardinality({n \in GatedNode : r \in roots[n]}) >= FanFrom}

Report ==
    /\ hpc = "fetch" /\ hpc' = "done"
    /\ level > MaxDepth \/ \A n \in frontier : fetched[n] # Unread
    /\ reported' = [n \in GatedNode |-> Assess(n)]
    /\ \E roots \in {[n \in GatedNode |-> Walk(n).leaves]} : hotspots' = Hotspots(roots)
    /\ UNCHANGED <<graph, edges, poolRead, fetched, frontier, level, still, graphMoves>>

GraphMoves(n) ==
    /\ hpc # "done" /\ graphMoves < MaxGraphMoves /\ graphMoves' = graphMoves + 1
    /\ \E s \in {"dead", "done"} : graph' = [graph EXCEPT ![n] = [state |-> s, refs |-> {}]]
    /\ still' = FALSE
    /\ UNCHANGED <<edges, poolRead, fetched, frontier, level, hpc, reported, hotspots>>

HellNext == ReadPool \/ FetchLevel \/ Report \/ \E n \in Node : GraphMoves(n)
HellSpec == HellInit /\ [][HellNext]_hellVars

----------------------------------------------------------------------------
(* The reference: what the graph itself says.  Upstream of an issue is what *)
(* every set has that has its blockers, and with each issue its blockers.   *)

Blocks(n) == IF graph[n].state \in {"open", "stale"}
             THEN {d \in graph[n].refs : graph[d].state # "done"} ELSE {}
Upstream(n) ==
    {d \in Node : \A S \in SUBSET Node :
        Blocks(n) \subseteq S /\ (\A x \in S : Blocks(x) \subseteq S) => d \in S}

(* An issue that can never wake, because it waits on itself through others *)
(* or on one closed without being done, is always in the report, and CYCLE *)
(* and DEAD_ROOT are said only where the graph has them: when GitHub stood *)
(* still and answered every read.                                          *)
NeverWakesIsReported ==
    hpc = "done" /\ still /\ poolRead /\ (\A n \in Node : fetched[n] # Failed) => \A n \in GatedNode :
        LET up == Upstream(n)
            circular == \E d \in up \cup {n} : d \in Upstream(d)
            dead == \E d \in up : graph[d].state = "dead" IN
        /\ circular => reported[n] \cap {"CYCLE", "DEEP"} # {}
        /\ dead => reported[n] \cap {"DEAD_ROOT", "DEEP"} # {}
        /\ "CYCLE" \in reported[n] => circular
        /\ "DEAD_ROOT" \in reported[n] => dead

(* No root is called a root because the graph was not read far enough. *)
RootsWereRead ==
    hpc = "done" => \A n \in GatedNode : \A r \in Walk(n).leaves : fetched[r] # Unread

(* What the proofs of these carry along.  What a fetched issue waits for is *)
(* fetched or next, so after a level all chains of so many issues are read; *)
(* while nothing moves, what was read is the graph.                         *)
Waits(n) == IF n \in GatedNode THEN edges[n] ELSE DeclaredDeps(n)
Chain(p) == p[1] \in GatedNode /\ \A i \in DOMAIN p : i + 1 \in DOMAIN p => p[i + 1] \in Waits(p[i])

ChainsAreRead ==
    IF hpc = "pool" THEN level = 0 /\ \A n \in Node : fetched[n] = Unread ELSE
      /\ \A n \in Node : n \in GatedNode \/ fetched[n] # Unread =>
            /\ n \in frontier \/ fetched[n] # Unread
            /\ fetched[n] # Unread => \A d \in Waits(n) : d \in frontier \/ fetched[d] # Unread
      /\ \A m \in 1 .. level : \A p \in [1 .. m -> Node] : Chain(p) => fetched[Last(p)] # Unread

ReadsAreTheGraph ==
    still =>
      /\ \A n \in Node : /\ graph[n].state \in {"dead", "done"} => graph[n].refs = {}
                         /\ fetched[n] \in {Unread, Failed, graph[n]}
      /\ \A n \in GatedNode : /\ graph[n].state \in {"open", "stale"}
                              /\ hpc # "pool" /\ poolRead => edges[n] = Blocks(n)

ReportIsOfTheReads ==
    hpc = "done" => /\ \A n \in GatedNode : reported[n] = Assess(n)
                    /\ level > MaxDepth \/ \A n \in frontier : fetched[n] # Unread

HellInv == HellTypeOK /\ ChainsAreRead /\ ReadsAreTheGraph /\ ReportIsOfTheReads
=============================================================================
