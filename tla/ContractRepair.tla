--------------------------- MODULE ContractRepair ---------------------------
(***************************************************************************)
(* `ready-pool-contract-repair.py --apply`: one coordinator at a time      *)
(* completes the Ready Pool contracts it can derive from the issue's own   *)
(* acceptance criteria, edits the issue under a pin of its body and        *)
(* promotes it.  People edit the issues meanwhile; a coordinator may die   *)
(* anywhere.  The nested auditors and the escalations of the file have no  *)
(* caller left and are not modelled.                                       *)
(***************************************************************************)
EXTENDS Naturals, FiniteSets

CONSTANTS
    Coordinator,    \* runs of the script
    Backlog,        \* the issues of the source manifest
    Bodies,         \* what an issue may look like (see Contract)
    MaxBodyEdits,   \* bound: edits by people
    NULL

Edit == 1 .. MaxBodyEdits
(* partial: a field or the priority of the block is not what it must be;   *)
(* bad: the validator rejects the ledger and nothing rewrites it.          *)
Contract == [
    open : BOOLEAN, prio : BOOLEAN, acs : {"none", "few", "many"},
    block : {"absent", "partial", "blocked", "full"},
    ledger : {"absent", "bad", "ok"}, proof : BOOLEAN, mark : BOOLEAN,
    edits : SUBSET Edit]        \* the people's edits the body contains

VARIABLES
    issue,      \* GitHub
    ranked,     \* issues promoted: status:todo
    flock,      \* who holds the lock file
    active,     \* the state file: run and status
    cpc, rows, row, got, body, tally, verdict, \* a coordinator's own state
    pinned,     \* the edits in the body when its pin was checked
    lost,       \* pinned edits that were overwritten
    edited      \* edits made so far

repairVars == <<issue, ranked, flock, active, cpc, rows, row, got, body, tally,
                verdict, pinned, lost, edited>>

Tally == {"repaired", "complete", "promoted", "needs", "blocked", "skipped", "failed"}

RepairTypeOK ==
    /\ issue \in [Backlog -> Contract] /\ ranked \subseteq Backlog
    /\ flock \in Coordinator \cup {NULL}
    /\ active \in [run : Coordinator \cup {NULL}, status : {NULL, "running", "stopped"}]
    /\ cpc \in [Coordinator -> {"idle", "start", "row", "pin", "edit", "verify", "label",
                                "dry", "apply", "scan", "finish", "release", "busy", "done", "dead"}]
    /\ rows \in [Coordinator -> SUBSET Backlog] /\ row \in [Coordinator -> Backlog \cup {NULL}]
    /\ got \in [Coordinator -> Contract \cup {NULL}] /\ body \in [Coordinator -> Contract \cup {NULL}]
    /\ tally \in [Coordinator -> SUBSET Tally]
    /\ verdict \in [Coordinator -> {NULL, "complete", "action_required"}]
    /\ pinned \in [Coordinator -> SUBSET Edit] /\ lost \subseteq Edit /\ edited \in 0 .. MaxBodyEdits

RepairInit ==
    /\ issue \in [Backlog -> Bodies] /\ ranked = {} /\ flock = NULL
    /\ active = [run |-> NULL, status |-> NULL]
    /\ cpc = [c \in Coordinator |-> "idle"] /\ rows = [c \in Coordinator |-> Backlog]
    /\ row = [c \in Coordinator |-> NULL] /\ got = row /\ body = row
    /\ tally = [c \in Coordinator |-> {}] /\ verdict = row
    /\ pinned = [c \in Coordinator |-> {}] /\ lost = {} /\ edited = 0

----------------------------------------------------------------------------
(* repair_contract, of what was read; the source row names a priority.     *)

LedgerErrors(b) == b.ledger = "bad" \/ ~b.proof \/ b.ledger = "absent"
Rewritten(b) ==
    [b EXCEPT !.block = "full", !.ledger = IF @ = "absent" THEN "ok" ELSE @]

Repaired(b) ==
    LET out == Rewritten(b) IN
    CASE ~b.open -> [status |-> "skipped", body |-> b]
      [] b.open /\ b.acs # "few" -> [status |-> "needs", body |-> b]
      [] b.open /\ b.acs = "few" /\ b.block = "blocked" -> [status |-> "blocked", body |-> b]
      [] b.open /\ b.acs = "few" /\ b.block # "blocked" /\ LedgerErrors(out) ->
            [status |-> "needs", body |-> b]
      [] OTHER -> IF out = b THEN [status |-> "complete", body |-> b]
                  ELSE [status |-> "repaired", body |-> [out EXCEPT !.mark = TRUE]]

(* The label is not part of the body: an edit of the body leaves it. *)
Written(live, out) == [out EXCEPT !.prio = live.prio, !.open = live.open]
(* Wrong: only the derived parts are pinned.                                *)
SameContract(b, c) == b.block = c.block /\ b.ledger = c.ledger
SameBody(b, c) == [b EXCEPT !.prio = TRUE, !.open = TRUE] = [c EXCEPT !.prio = TRUE, !.open = TRUE]

Promotable(i) ==
    /\ issue[i].open /\ issue[i].prio /\ issue[i].block = "full" /\ ~LedgerErrors(issue[i])
    /\ i \notin ranked

----------------------------------------------------------------------------
Goto(c, l) == cpc' = [cpc EXCEPT ![c] = l]
Count(c, S) == tally' = [tally EXCEPT ![c] = @ \cup S]
world == <<issue, ranked, pinned, lost, edited>>
lease == <<flock, active>>

Acquire(c) ==
    /\ cpc[c] = "idle"
    /\ IF flock = NULL THEN flock' = c /\ Goto(c, "start")
                       ELSE Goto(c, "busy") /\ UNCHANGED flock
    /\ UNCHANGED <<world, active, rows, row, got, body, tally, verdict>>

Start(c) ==
    /\ cpc[c] = "start" /\ Goto(c, "row")
    /\ active' = [run |-> c, status |-> "running"]
    /\ UNCHANGED <<world, flock, rows, row, got, body, tally, verdict>>

(* The issue is read, and the repair computed from what was read. *)
TakeRow(c) ==
    /\ cpc[c] = "row"
    /\ IF rows[c] = {}
       THEN Goto(c, "scan") /\ UNCHANGED <<rows, row, got, body, tally>>
       ELSE \E i \in rows[c] :
            /\ rows' = [rows EXCEPT ![c] = @ \ {i}] /\ row' = [row EXCEPT ![c] = i]
            /\ \/ /\ LET r == Repaired(issue[i]) IN
                     /\ got' = [got EXCEPT ![c] = issue[i]] /\ body' = [body EXCEPT ![c] = r.body]
                     /\ CASE r.status = "repaired" -> Goto(c, "pin") /\ UNCHANGED tally
                          [] r.status = "complete" -> Goto(c, "dry") /\ Count(c, {"complete"})
                          [] OTHER -> Goto(c, "row") /\ Count(c, {r.status})
               \/ Count(c, {"failed"}) /\ UNCHANGED <<cpc, got, body>>
    /\ UNCHANGED <<world, lease, verdict>>

(* The body must still be the one the repair was computed from. *)
Pin(c) ==
    /\ cpc[c] = "pin"
    /\ IF SameBody(issue[row[c]], got[c]) THEN Goto(c, "edit") /\ UNCHANGED tally
       ELSE Goto(c, "row") /\ Count(c, {"failed"})
    /\ pinned' = [pinned EXCEPT ![c] = issue[row[c]].edits]
    /\ UNCHANGED <<issue, ranked, lost, edited, lease, rows, row, got, body, verdict>>

WriteBody(c) ==
    /\ cpc[c] = "edit"
    /\ \/ /\ issue' = [issue EXCEPT ![row[c]] = Written(@, body[c])]
          /\ lost' = lost \cup (pinned[c] \ body[c].edits)
          /\ Goto(c, "verify") /\ UNCHANGED tally
       \/ Goto(c, "row") /\ Count(c, {"failed"}) /\ UNCHANGED <<issue, lost>>
    /\ UNCHANGED <<ranked, pinned, edited, lease, rows, row, got, body, verdict>>

Verify(c) ==
    /\ cpc[c] = "verify"
    /\ IF SameBody(issue[row[c]], body[c]) THEN Goto(c, "label") /\ UNCHANGED tally
       ELSE Goto(c, "row") /\ Count(c, {"failed"})
    /\ UNCHANGED <<world, lease, rows, row, got, body, verdict>>

AddLabel(c) ==
    /\ cpc[c] = "label"
    /\ \/ /\ issue' = IF got[c].prio THEN issue ELSE [issue EXCEPT ![row[c]].prio = TRUE]
          /\ Goto(c, "dry") /\ Count(c, {"repaired"})
       \/ ~got[c].prio /\ Goto(c, "row") /\ Count(c, {"failed"}) /\ UNCHANGED issue
    /\ UNCHANGED <<ranked, pinned, lost, edited, lease, rows, row, got, body, verdict>>

(* promote_exact: a dry run for this issue, then the promotion itself. *)
PromoteDry(c) ==
    /\ cpc[c] = "dry"
    /\ \/ Promotable(row[c]) /\ Goto(c, "apply") /\ UNCHANGED tally
       \/ Goto(c, "row") /\ \E t \in {"failed", "skipped"} : Count(c, {t})
    /\ UNCHANGED <<world, lease, rows, row, got, body, verdict>>

PromoteApply(c) ==
    /\ cpc[c] = "apply" /\ Goto(c, "row")
    /\ \/ Promotable(row[c]) /\ ranked' = ranked \cup {row[c]} /\ Count(c, {"promoted"})
       \/ Count(c, {"failed"}) /\ UNCHANGED ranked
    /\ UNCHANGED <<issue, pinned, lost, edited, lease, rows, row, got, body, verdict>>

NeedsWork(i) == issue[i].open /\ i \notin ranked /\ issue[i].block \notin {"blocked"}

FinalScan(c) ==
    /\ cpc[c] = "scan" /\ Goto(c, "finish")
    /\ \/ /\ LET clean == /\ tally[c] \cap {"failed", "needs", "blocked"} = {}
                          /\ \A i \in Backlog : ~NeedsWork(i) IN
             verdict' = [verdict EXCEPT ![c] = IF clean THEN "complete" ELSE "action_required"]
          /\ UNCHANGED tally
       \/ Count(c, {"failed"}) /\ verdict' = [verdict EXCEPT ![c] = "action_required"]
    /\ UNCHANGED <<world, lease, rows, row, got, body>>

(* finish: the state file is written before the lock is let go *)
Finish(c) ==
    /\ cpc[c] = "finish" /\ Goto(c, "release")
    /\ active' = [run |-> c, status |-> "stopped"]
    /\ UNCHANGED <<world, flock, rows, row, got, body, tally, verdict>>

Release(c) ==
    /\ cpc[c] = "release" /\ Goto(c, "done")
    /\ flock' = NULL
    /\ UNCHANGED <<world, active, rows, row, got, body, tally, verdict>>

(* The kernel lets a dead process' lock go; the state file stays. *)
CoordinatorDies(c) ==
    /\ cpc[c] \notin {"idle", "busy", "done", "dead"} /\ Goto(c, "dead")
    /\ flock' = IF flock = c THEN NULL ELSE flock
    /\ UNCHANGED <<world, active, rows, row, got, body, tally, verdict>>

PeopleEdit(i) ==
    /\ edited < MaxBodyEdits /\ edited' = edited + 1
    /\ \E b \in Bodies :
          issue' = [issue EXCEPT ![i] = [b EXCEPT !.edits = issue[i].edits \cup {edited'}]]
    /\ UNCHANGED <<ranked, pinned, lost, lease, cpc, rows, row, got, body, tally, verdict>>

RepairNext ==
    \/ \E c \in Coordinator :
          \/ Acquire(c) \/ Start(c) \/ TakeRow(c) \/ Pin(c) \/ WriteBody(c) \/ Verify(c)
          \/ AddLabel(c) \/ PromoteDry(c) \/ PromoteApply(c) \/ FinalScan(c) \/ Finish(c)
          \/ Release(c) \/ CoordinatorDies(c)
    \/ \E i \in Backlog : PeopleEdit(i)

RepairSpec == RepairInit /\ [][RepairNext]_repairVars

----------------------------------------------------------------------------
(* The state file read by the other jobs names the coordinator that is at  *)
(* work, from its first row to its last, whoever died or finished before.  *)
ActiveNamesHolder ==
    \A c \in Coordinator :
        cpc[c] \in {"row", "pin", "edit", "verify", "label", "dry", "apply", "scan", "finish"} =>
            flock = c /\ active = [run |-> c, status |-> "running"]

(* A repair is a fixed point: what it wrote, read again, is complete and   *)
(* is not written a second time.                                           *)
RepairSettles ==
    \A c \in Coordinator : cpc[c] \in {"label", "dry"} /\ body[c] # NULL =>
        Repaired(body[c]).status = "complete"

(* An edit that was there when the pin was checked is never overwritten;   *)
(* the edit lost is the one between the check and the write.               *)
PinnedEditsKept == lost = {}

(* What the proofs of these carry along.  Whoever is between taking the lock *)
(* and letting it go holds it; what is about to be written is complete and   *)
(* contains the edits of what it was made from.                              *)
Working == {"row", "pin", "edit", "verify", "label", "dry", "apply", "scan", "finish"}

HolderIsAlone ==
    \A c \in Coordinator :
        /\ cpc[c] \in Working \cup {"start", "release"} => flock = c
        /\ cpc[c] \in Working => active = [run |-> c, status |-> "running"]

RowIsRepaired(c) ==
    /\ cpc[c] \in {"pin", "edit", "verify", "label", "dry", "apply"} => row[c] \in Backlog
    /\ cpc[c] \in {"pin", "edit", "verify", "label", "dry"} =>
         body[c] \in Contract /\ Repaired(body[c]).status = "complete"
    /\ cpc[c] \in {"pin", "edit", "verify", "label"} =>
         got[c] \in Contract /\ body[c].edits = got[c].edits
    /\ cpc[c] = "edit" => pinned[c] = body[c].edits

ContractInv == RepairTypeOK /\ HolderIsAlone /\ PinnedEditsKept /\ \A c \in Coordinator : RowIsRepaired(c)
=============================================================================
