--------------------------- MODULE AssignmentGate ---------------------------
(***************************************************************************)
(* `ready-pool-assignment-gate.py`: what an idle slot is told to take. The *)
(* red pull requests come from a cache bound to their heads, the numbered  *)
(* slot boundaries from the PM ledger joined to the live pull requests,    *)
(* the issues from a second cache.  Everything moves between the reads and *)
(* every read may fail.                                                    *)
(***************************************************************************)
EXTENDS Naturals, FiniteSets

CONSTANTS
    GatePR, Todo,   \* pull requests; issues
    MaxGateMoves,   \* bound: moves of GitHub and of the ledger
    GateRuns,       \* bound: runs of the script
    NULL

Head == 0 .. MaxGateMoves
Priorities == {0, 1, 2, 99}         \* P0, P1, P2, none

VARIABLES
    prs,        \* GitHub: head, whether its CI is red, whether it can be taken up
    todos,      \* GitHub: priority, and whether it is todo and unblocked
    bounds,     \* the ledger's open numbered-slot rows: none, bad, or of a head
    ciCache, todoCache,
    gpc, ci, ciError, rowsRead, e2e, boundError, todoRead,
    said,       \* the recommendation: kind and what it names
    unmoved,    \* pull requests and issues untouched since the run began
    gateMoves, gateRuns

gateVars == <<prs, todos, bounds, ciCache, todoCache, gpc, ci, ciError, rowsRead, e2e,
              boundError, todoRead, said, unmoved, gateMoves, gateRuns>>

PRType == [head : Head, red : BOOLEAN, ready : BOOLEAN, open : BOOLEAN]
TodoType == [prio : Priorities, ok : BOOLEAN]
Rows == [GatePR -> [kind : {"none", "bad", "other", "e2e"}, head : Head]]

GateTypeOK ==
    /\ prs \in [GatePR -> PRType] /\ todos \in [Todo -> TodoType] /\ bounds \in Rows
    /\ ciCache \in (SUBSET (GatePR \X Head)) \cup {NULL}
    /\ todoCache \in [Todo -> TodoType] \cup {NULL}
    /\ gpc \in {"ci", "fresh", "rows", "join", "todo", "answer", "done"}
    /\ ci \subseteq GatePR \X Head /\ ciError \in BOOLEAN
    /\ rowsRead \in Rows /\ e2e \subseteq GatePR /\ boundError \in BOOLEAN
    /\ todoRead \in [Todo -> TodoType] \cup {NULL}
    /\ said \in [kind : {"slot_e2e", "ci_rework", "todo", "none"}, it : GatePR \cup Todo \cup {NULL}]
    /\ unmoved \subseteq GatePR \cup Todo
    /\ gateMoves \in 0 .. MaxGateMoves /\ gateRuns \in 0 .. GateRuns

NoRows == [p \in GatePR |-> [kind |-> "none", head |-> 0]]
Nothing == [kind |-> "none", it |-> NULL]

GateInit ==
    /\ prs \in [GatePR -> [head : {0}, red : BOOLEAN, ready : {TRUE}, open : {TRUE}]]
    /\ todos \in [Todo -> [prio : Priorities \ {2}, ok : BOOLEAN]]
    /\ bounds \in [GatePR -> [kind : {"none", "bad", "other", "e2e"}, head : {0}]]
    /\ ciCache = NULL /\ todoCache = NULL /\ gpc = "ci" /\ ci = {} /\ ciError = FALSE
    /\ rowsRead = NoRows /\ e2e = {} /\ boundError = FALSE /\ todoRead = NULL
    /\ said = Nothing /\ unmoved = GatePR \cup Todo /\ gateMoves = 0 /\ gateRuns = 0

gateWorld == <<prs, todos, bounds, unmoved, gateMoves, gateRuns>>

----------------------------------------------------------------------------
(* The red ones among the open pull requests, with their heads. *)
BuildCi == {<<p, prs[p].head>> : p \in {q \in GatePR : prs[q].open /\ prs[q].red}}

(* Wrong: a cache holds while its pull requests are open.                   *)
CacheOfOpen == \A c \in ciCache : prs[c[1]].open

(* A cache that is young enough holds while each of its pull requests is   *)
(* open at the head it was cached with.                                    *)
CacheCurrent == \A c \in ciCache : prs[c[1]].open /\ prs[c[1]].head = c[2]

ReadCi ==
    /\ gpc = "ci"
    /\ \/ ciCache # NULL /\ CacheCurrent /\ ci' = ciCache /\ gpc' = "rows" /\ UNCHANGED ciError
       \/ (ciCache # NULL => ~CacheCurrent) /\ gpc' = "fresh" /\ UNCHANGED <<ci, ciError>>
       \/ ciCache # NULL /\ ci' = {} /\ ciError' = TRUE /\ gpc' = "rows"
    /\ UNCHANGED <<gateWorld, ciCache, todoCache, rowsRead, e2e, boundError, todoRead, said>>

ScanCi ==
    /\ gpc = "fresh" /\ gpc' = "rows"
    /\ \/ ci' = BuildCi /\ ciCache' = ci' /\ UNCHANGED ciError
       \/ ci' = {} /\ ciError' = TRUE /\ UNCHANGED ciCache
    /\ UNCHANGED <<gateWorld, todoCache, rowsRead, e2e, boundError, todoRead, said>>

(* One malformed row of the slots makes the audit incomplete. *)
ReadRows ==
    /\ gpc = "rows"
    /\ \/ /\ \A p \in GatePR : bounds[p].kind # "bad"
          /\ rowsRead' = bounds /\ gpc' = "join" /\ UNCHANGED boundError
       \/ boundError' = TRUE /\ gpc' = "todo" /\ UNCHANGED rowsRead
    /\ UNCHANGED <<gateWorld, ciCache, todoCache, ci, ciError, e2e, todoRead, said>>

Joined == {p \in GatePR : /\ rowsRead[p].kind = "e2e" /\ prs[p].open /\ prs[p].ready
                          /\ prs[p].head = rowsRead[p].head}

ReadPrs ==
    /\ gpc = "join" /\ gpc' = "todo"
    /\ \/ e2e' = Joined /\ UNCHANGED boundError
       \/ boundError' = TRUE /\ UNCHANGED e2e
    /\ UNCHANGED <<gateWorld, ciCache, todoCache, ci, ciError, rowsRead, todoRead, said>>

ReadTodo ==
    /\ gpc = "todo" /\ gpc' = "answer"
    /\ \/ todoCache # NULL /\ todoRead' = todoCache /\ UNCHANGED todoCache
       \/ todoCache = NULL /\ todoRead' = todos /\ todoCache' = todos
       \/ todoCache = NULL /\ todoRead' = NULL /\ UNCHANGED todoCache
    /\ UNCHANGED <<gateWorld, ciCache, ci, ciError, rowsRead, e2e, boundError, said>>

(* `int(row.get("priority") or 99)` *)
Rank(prio) == IF prio = 0 THEN 99 ELSE prio

Inspect ==
    LET pool == IF todoRead = NULL THEN {} ELSE {i \in Todo : todoRead[i].ok} IN
    CASE e2e # {} -> [kind : {"slot_e2e"}, it : e2e]
      [] e2e = {} /\ ci # {} -> [kind : {"ci_rework"}, it : {c[1] : c \in ci}]
      [] e2e = {} /\ ci = {} /\ ~boundError /\ pool # {} ->
            [kind : {"todo"}, it : {i \in pool : \A j \in pool :
                                    Rank(todoRead[i].prio) <= Rank(todoRead[j].prio)}]
      [] OTHER -> {Nothing}

Answer ==
    /\ gpc = "answer" /\ gpc' = "done" /\ said' \in Inspect
    /\ UNCHANGED <<gateWorld, ciCache, todoCache, ci, ciError, rowsRead, e2e, boundError, todoRead>>

RunAgain ==
    /\ gpc = "done" /\ gateRuns < GateRuns /\ gateRuns' = gateRuns + 1 /\ gpc' = "ci"
    /\ ci' = {} /\ ciError' = FALSE /\ rowsRead' = NoRows /\ e2e' = {} /\ boundError' = FALSE
    /\ todoRead' = NULL /\ said' = Nothing /\ unmoved' = GatePR \cup Todo
    /\ UNCHANGED <<prs, todos, bounds, ciCache, todoCache, gateMoves>>

----------------------------------------------------------------------------
Moves(x) == gateMoves < MaxGateMoves /\ gateMoves' = gateMoves + 1 /\ unmoved' = unmoved \ {x}
own == <<ciCache, todoCache, gpc, ci, ciError, rowsRead, e2e, boundError, todoRead, said, gateRuns>>

PullRequestMoves(p) ==
    /\ Moves(p) /\ prs[p].open
    /\ \/ \E red \in BOOLEAN : prs' = [prs EXCEPT ![p].head = gateMoves', ![p].red = red]
       \/ prs' = [prs EXCEPT ![p].red = ~@]
       \/ prs' = [prs EXCEPT ![p].ready = ~@]
       \/ prs' = [prs EXCEPT ![p].open = FALSE]
    /\ UNCHANGED <<todos, bounds, own>>

IssueMoves(i) ==
    /\ Moves(i) /\ todos' = [todos EXCEPT ![i].ok = ~@]
    /\ UNCHANGED <<prs, bounds, own>>

LedgerMoves(p) ==
    /\ Moves(p)
    /\ bounds' = [bounds EXCEPT ![p] = [kind |-> "e2e", head |-> prs[p].head]]
    /\ UNCHANGED <<prs, todos, own>>

(* sixty seconds *)
CacheExpires ==
    /\ \/ ciCache # NULL /\ ciCache' = NULL /\ UNCHANGED todoCache
       \/ todoCache # NULL /\ todoCache' = NULL /\ UNCHANGED ciCache
    /\ UNCHANGED <<gateWorld, gpc, ci, ciError, rowsRead, e2e, boundError, todoRead, said>>

GateNext ==
    \/ ReadCi \/ ScanCi \/ ReadRows \/ ReadPrs \/ ReadTodo \/ Answer \/ RunAgain
    \/ \E p \in GatePR : PullRequestMoves(p) \/ LedgerMoves(p)
    \/ \E i \in Todo : IssueMoves(i)
    \/ CacheExpires

GateSpec == GateInit /\ [][GateNext]_gateVars

----------------------------------------------------------------------------
(* "callers cannot fall through to Ready Pool": an issue is recommended    *)
(* only when no numbered-slot boundary of an untouched pull request waits, *)
(* and none of the rows was unreadable.                                    *)
NoTodoOverBoundary ==
    said.kind = "todo" => \A p \in unmoved \cap GatePR :
        /\ bounds[p].kind # "bad"
        /\ ~(bounds[p].kind = "e2e" /\ prs[p].open /\ prs[p].ready /\ prs[p].head = bounds[p].head)

(* What is recommended of an untouched pull request is of its head: the    *)
(* boundary was recorded for it, or the red was cached for it.             *)
OfTheCurrentHead ==
    said.it \in unmoved =>
        /\ said.kind = "slot_e2e" => bounds[said.it].head = prs[said.it].head
        /\ said.kind = "ci_rework" => prs[said.it].open /\ <<said.it, prs[said.it].head>> \in ci


(* What the proofs of these carry along: of what nobody moved since the run  *)
(* began, the reads still hold, and the recommendation rests on the reads.   *)
ReadsHold ==
    /\ gpc \in {"ci", "fresh", "rows", "join"} => ~boundError /\ e2e = {}
    /\ gpc \in {"ci", "fresh"} => ci = {}
    /\ boundError => e2e = {}
    /\ \A p \in GatePR \cap unmoved :
         /\ gpc \in {"join", "todo", "answer", "done"} /\ ~boundError =>
              rowsRead[p] = bounds[p] /\ bounds[p].kind # "bad"
         /\ gpc \in {"todo", "answer", "done"} /\ ~boundError =>
              (p \in e2e <=> /\ bounds[p].kind = "e2e" /\ prs[p].open /\ prs[p].ready
                             /\ prs[p].head = bounds[p].head)
         /\ \A h \in Head : <<p, h>> \in ci => prs[p].open /\ prs[p].head = h

SaidWasRead ==
    /\ gpc # "done" => said = Nothing
    /\ said.kind = "slot_e2e" => said.it \in e2e
    /\ said.kind = "ci_rework" => \E h \in Head : <<said.it, h>> \in ci
    /\ said.kind = "todo" => e2e = {} /\ ~boundError

GateInv == GateTypeOK /\ ReadsHold /\ SaidWasRead
=============================================================================
