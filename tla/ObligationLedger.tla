-------------------------- MODULE ObligationLedger --------------------------
(***************************************************************************)
(* The obligations table of `pm-ops-legacy.py`, for the rows of one pull   *)
(* request: upserts, typed and bulk resolution, the guarded resolution of  *)
(* the claim-aware sweep, the producers, and the reconciliation with       *)
(* GitHub, which reads the rows, asks GitHub without a transaction, and    *)
(* then closes the rows by the ids it read.  Every command is a process of *)
(* its own; a transaction of the database is one step.                     *)
(***************************************************************************)
EXTENDS Naturals, Sequences

CONSTANTS Kinds,    \* "rework", a continuation; "cleanup_pr", the debt of a
                    \* merged pull request; "first_boundary_reservation", the
                    \* right to release a slot once
          MaxRows,  \* bound: rows ever inserted
          MaxUpserts, \* bound: upserts asked for on the command line
          NULL

Continuation == {"rework"}
Evidence == {"no_head", "head", "malformed"}
Owner == {"unknown", "slot"}    \* "unknown": none, or one of the placeholders
RowId == 1 .. MaxRows
Row == [kind : Kinds, open : BOOLEAN, ev : Evidence, owner : Owner,
        claimed : BOOLEAN, typed : BOOLEAN]
Preview == [id : RowId, ev : Evidence, at : BOOLEAN]

VARIABLES
    rows,       \* the table, by id
    pr,         \* what GitHub says: open, merged, clean (merged and labelled), closed
    sweep,      \* a sweep's preview: [id, ev, at]; at: updated_at is as read
    producer,   \* the kind a producer found no typed resolution of
    rpc, scan, view,    \* a reconciliation: the rows it read, the state it was told
    collapsed,  \* a reconciliation has closed duplicates
    debt,       \* ghost: "handed", from the handing over of the cleanup until a command
                \* closes it, or a pass that dies loses it
    upserts     \* counts them

ledgerVars == <<rows, pr, sweep, producer, rpc, scan, view, collapsed, debt, upserts>>
reconcile == <<rpc, scan, view>>
beside == <<collapsed, debt, upserts>>

LedgerTypeOK ==
    /\ rows \in Seq(Row) /\ Len(rows) <= MaxRows
    /\ pr \in {"open", "merged", "clean", "closed"}
    /\ sweep \in Preview \cup {NULL}
    /\ producer \in Kinds \cup {NULL}
    /\ rpc \in {"idle", "dups", "ask", "close", "hand", "file"}
    /\ scan \subseteq RowId
    /\ view \in {"open", "merged", "clean", "closed", NULL}
    /\ collapsed \in BOOLEAN /\ debt \in {"none", "handed"}
    /\ upserts \in 0 .. MaxUpserts

Fresh(k, ev, owner, claimed) ==
    [kind |-> k, open |-> TRUE, ev |-> ev, owner |-> owner,
     claimed |-> claimed, typed |-> FALSE]

Ids == DOMAIN rows
OpenOf(k) == {i \in Ids : rows[i].open /\ rows[i].kind = k}
Newest(k) == {i \in OpenOf(k) : \A j \in OpenOf(k) : j <= i}

LedgerInit ==
    /\ \E k \in Kinds, n \in {0, 2} : rows = [i \in 1 .. n |->
          Fresh(k, IF k \in Continuation THEN "head" ELSE "no_head", "slot", FALSE)]
    /\ pr = "open" /\ sweep = NULL /\ producer = NULL
    /\ rpc = "idle" /\ scan = {} /\ view = NULL
    /\ collapsed = FALSE /\ debt = "none" /\ upserts = 0

----------------------------------------------------------------------------
(* What the tables of the file decide.                                     *)

(* A continuation row that names a head must be one the heartbeat accepts. *)
ContinuationRefused(k, ev, owner) ==
    /\ k \in Continuation /\ ev # "no_head"
    /\ ev = "malformed" \/ owner \in {NULL, "unknown"}

(* Wrong: any closed row is a receipt.                                      *)
ResolvedAtAll(k) == \E i \in Ids : rows[i].kind = k /\ ~rows[i].open

TypedResolution(k) ==
    \E i \in Ids : rows[i].kind = k /\ ~rows[i].open /\ rows[i].typed

(* A write stamps updated_at in whole seconds: a reader may not notice it. *)
Stamped(written) ==
    IF sweep = NULL \/ sweep.id \notin written THEN sweep' = sweep
    ELSE \E at \in {sweep.at, FALSE} : sweep' = [sweep EXCEPT !.at = at]

(* Of a closed row only the kind and the receipt are read again. *)
Resolved(k, typed) ==
    [Fresh(k, "no_head", "unknown", FALSE) EXCEPT !.open = FALSE, !.typed = typed]

Close(closing, typed) ==
    /\ rows' = [i \in Ids |->
          IF i \in closing /\ rows[i].open THEN Resolved(rows[i].kind, typed) ELSE rows[i]]
    /\ Stamped({i \in closing : rows[i].open})

(* What a command closes is settled by whoever gave it. *)
CloseAsked(closing, typed) ==
    /\ Close(closing, typed)
    /\ debt' = IF debt = "handed" /\ \E i \in closing : rows[i].open /\ rows[i].kind = "cleanup_pr"
               THEN "none" ELSE debt

----------------------------------------------------------------------------
(* obligation-upsert: NULL evidence or owner leaves the stored one.        *)

(* Wrong: the owner the row had is judged.                                  *)
RetainedAsStored(row, owner) == ContinuationRefused(row.kind, row.ev, row.owner)

RetainedRefused(row, owner) ==
    ContinuationRefused(row.kind, row.ev, IF owner = NULL THEN row.owner ELSE owner)

Updated(row, ev, owner, claim) ==
    [row EXCEPT !.ev = IF ev = NULL THEN @ ELSE ev,
                !.owner = IF owner = NULL THEN @ ELSE owner,
                !.claimed = @ \/ claim]

Update(i, ev, owner, claim) ==
    /\ ev = NULL => ~RetainedRefused(rows[i], owner)
    /\ rows' = [rows EXCEPT ![i] = Updated(rows[i], ev, owner, claim)]
    /\ Stamped({i})

Insert(k, ev, owner, claim) ==
    /\ Len(rows) < MaxRows
    /\ rows' = Append(rows, Fresh(k, IF ev = NULL THEN "no_head" ELSE ev,
                                 IF owner = NULL THEN "unknown" ELSE owner, claim))
    /\ UNCHANGED sweep

Upsert(k, ev, owner, claim) ==
    /\ ev # NULL => ~ContinuationRefused(k, ev, owner)
    /\ IF OpenOf(k) # {} THEN \E i \in Newest(k) : Update(i, ev, owner, claim)
                         ELSE Insert(k, ev, owner, claim)

(* What else a row says than that it changed is read of continuations only. *)
Asked(k) ==
    IF k \in Continuation THEN (Evidence \cup {NULL}) \X (Owner \cup {NULL})
                          ELSE {"no_head", "head", NULL} \X {"slot", NULL}

UpsertCommand ==
    /\ upserts < MaxUpserts /\ upserts' = upserts + 1
    /\ \E k \in Kinds, claim \in BOOLEAN : \E asked \in Asked(k) :
          /\ claim => asked[2] # NULL
          /\ Upsert(k, asked[1], asked[2], claim)
    /\ UNCHANGED <<pr, producer, reconcile, collapsed, debt>>

(* A claim is an owner and a suppression that has not run out yet. *)
ClaimExpires(i) ==
    /\ rows[i].claimed
    /\ rows' = [rows EXCEPT ![i].claimed = FALSE]
    /\ UNCHANGED <<pr, sweep, producer, reconcile, beside>>

(* An automatic producer looks for a typed resolution, then upserts. *)
ProducerLooks(k) ==
    /\ producer = NULL /\ ~TypedResolution(k)
    /\ producer' = k
    /\ UNCHANGED <<rows, pr, sweep, reconcile, beside>>

ProducerFiles ==
    /\ producer # NULL
    /\ \/ Upsert(producer, "no_head", "slot", FALSE)
       \/ UNCHANGED <<rows, sweep>>     \* it was refused, or it stopped
    /\ producer' = NULL
    /\ UNCHANGED <<pr, reconcile, beside>>

----------------------------------------------------------------------------
(* obligation-resolve and its relatives.                                   *)

ResolveKey(k) ==
    /\ k # "first_boundary_reservation" /\ OpenOf(k) # {}
    /\ CloseAsked(OpenOf(k), TRUE)
    /\ UNCHANGED <<pr, producer, reconcile, collapsed, upserts>>

ResolveId(i, k) ==
    /\ rows[i].open /\ rows[i].kind = k
    /\ CloseAsked({i}, TRUE)
    /\ UNCHANGED <<pr, producer, reconcile, collapsed, upserts>>

SweepReads(i) ==
    /\ sweep = NULL /\ rows[i].open
    /\ sweep' = [id |-> i, ev |-> rows[i].ev, at |-> TRUE]
    /\ UNCHANGED <<rows, pr, producer, reconcile, beside>>

SweepChanged == ~sweep.at \/ rows[sweep.id].ev # sweep.ev

(* --if-unclaimed with the fingerprint of the preview: the row is closed    *)
(* with its receipt, or, closed, claimed or touched meanwhile, left.        *)
SweepResolves ==
    /\ sweep # NULL /\ sweep' = NULL
    /\ LET row == rows[sweep.id]
           closes == row.open /\ ~row.claimed /\ ~SweepChanged
       IN  /\ rows' = IF closes THEN [rows EXCEPT ![sweep.id] = Resolved(row.kind, TRUE)] ELSE rows
           /\ debt' = IF debt = "handed" /\ closes /\ row.kind = "cleanup_pr" THEN "none" ELSE debt
    /\ UNCHANGED <<pr, producer, reconcile, collapsed, upserts>>

(* obligation-resolve-target by kind, or for everything of the pull request *)
ResolveTarget(k) ==
    /\ k # "first_boundary_reservation"
    /\ CloseAsked({i \in Ids : k \in {NULL, rows[i].kind}}, FALSE)
    /\ UNCHANGED <<pr, producer, reconcile, collapsed, upserts>>

----------------------------------------------------------------------------
(* The reconciliation: auto_reconcile_terminal_obligations and its tail.   *)

PassEnds == rpc' = "idle" /\ scan' = {} /\ view' = NULL

ReconcileReads ==
    /\ rpc = "idle"
    /\ scan' = {i \in Ids : rows[i].open}
    /\ rpc' = IF scan' = {} THEN "idle" ELSE "dups"
    /\ view' = NULL
    /\ UNCHANGED <<rows, pr, sweep, producer, beside>>

Older(read) == {i \in read : \E j \in read : j > i /\ rows[j].kind = rows[i].kind}

CloseDuplicates ==
    /\ rpc = "dups"
    /\ Close(Older(scan), FALSE)
    /\ rpc' = "ask" /\ collapsed' = TRUE
    /\ UNCHANGED <<pr, producer, scan, view, debt, upserts>>

AskGitHub ==
    /\ rpc = "ask"
    /\ \/ view' = pr /\ rpc' = "close"
          /\ UNCHANGED scan
       \/ PassEnds                           \* no answer
    /\ UNCHANGED <<rows, pr, sweep, producer, beside>>

(* Of an open pull request the newest rework row stays; a slot that works  *)
(* on it stands for all of them.                                           *)
Superseded ==
    LET rework == {i \in scan : rows[i].kind = "rework"} IN
    {rework, {i \in rework : \E j \in rework : j > i}}

Terminal(state) ==
    CASE state = "merged" -> {{i \in scan : rows[i].kind # "cleanup_pr"}}
      [] state \in {"clean", "closed"} -> {scan}
      [] state = "open" -> Superseded

CloseTerminal ==
    /\ rpc = "close"
    /\ \E closing \in Terminal(view) : Close(closing, FALSE)
    /\ IF view = "merged" THEN rpc' = "hand" /\ debt' = "handed" /\ scan' = {} /\ UNCHANGED view
                          ELSE PassEnds /\ UNCHANGED debt
    /\ UNCHANGED <<pr, producer, collapsed, upserts>>

(* upsert_cleanup_obligation_for_merged_pr: the check, then the upsert. *)
CleanupCheck ==
    /\ rpc = "hand"
    /\ IF TypedResolution("cleanup_pr") THEN PassEnds
       ELSE rpc' = "file" /\ UNCHANGED <<scan, view>>
    /\ UNCHANGED <<rows, pr, sweep, producer, beside>>

CleanupFile ==
    /\ rpc = "file"
    /\ Upsert("cleanup_pr", "no_head", "slot", FALSE)
    /\ PassEnds
    /\ UNCHANGED <<pr, producer, beside>>

(* The process dies, or a write finds the database locked.  The close of a  *)
(* merged pull request's rows and the upsert of its cleanup are two commits.*)
PassDies ==
    /\ rpc # "idle" /\ PassEnds
    /\ debt' = IF rpc \in {"hand", "file"} THEN "none" ELSE debt
    /\ UNCHANGED <<rows, pr, sweep, producer, collapsed, upserts>>

(* GitHub. *)
PRMoves ==
    /\ \/ pr = "open" /\ pr' \in {"merged", "closed"}
       \/ pr = "closed" /\ pr' = "open"
       \/ pr = "merged" /\ pr' = "clean"
    /\ UNCHANGED <<rows, sweep, producer, reconcile, beside>>

LedgerNext ==
    \/ UpsertCommand \/ ProducerFiles \/ SweepResolves
    \/ \E k \in Kinds : ProducerLooks(k) \/ ResolveKey(k)
    \/ \E k \in Kinds \cup {NULL} : ResolveTarget(k)
    \/ \E i \in Ids : ClaimExpires(i) \/ SweepReads(i) \/ \E k \in Kinds : ResolveId(i, k)
    \/ ReconcileReads \/ CloseDuplicates \/ AskGitHub \/ CloseTerminal
    \/ CleanupCheck \/ CleanupFile \/ PassDies
    \/ PRMoves

LedgerSpec == LedgerInit /\ [][LedgerNext]_ledgerVars

----------------------------------------------------------------------------
(* Properties.                                                             *)

(* An open continuation row that names a head is one the heartbeat can     *)
(* read, whichever of evidence and owner an upsert replaces.               *)
HeadedRowAccepted ==
    \A i \in Ids : rows[i].open => ~ContinuationRefused(rows[i].kind, rows[i].ev, rows[i].owner)

(* Once duplicates were closed there is one debt of each kind, though      *)
(* every command and producer files on its own.                            *)
OneOpenPerKey ==
    collapsed => \A k \in Kinds : \A i, j \in OpenOf(k) : i = j

(* Once a pass has closed the rows of a merged pull request, the debt of    *)
(* its cleanup is open until it is paid: until the receipt of a typed       *)
(* resolution, a command that closes it, or the label that the cleanup is   *)
(* done.  No close of duplicates, of terminal rows or of an earlier life of *)
(* the pull request settles it.  Only a pass that dies between its close    *)
(* and its upsert loses it.                                                 *)
Paid == \E i \in Ids : rows[i].kind = "cleanup_pr" /\ ~rows[i].open /\ rows[i].typed

HandoffKept ==
    debt = "handed" /\ pr = "merged" =>
        OpenOf("cleanup_pr") # {} \/ Paid \/ rpc \in {"hand", "file"}

(* The invariant of which they follow: the duplicates there are when a     *)
(* pass is about to close them are ones it has read, the cleanup it has     *)
(* read is still open, and its view of GitHub has not been taken back.      *)
TwinsAreRead ==
    rpc = "dups" => \A k \in Kinds : \A i, j \in OpenOf(k) : i # j => {i, j} \subseteq scan

DebtIsCurrent ==
    /\ debt # "none" => pr \in {"merged", "clean"}
    /\ debt = "handed" /\ rpc = "dups" =>
          \A i \in scan : i \in Ids /\ (rows[i].kind = "cleanup_pr" => rows[i].open)
    /\ debt = "handed" /\ rpc = "close" => view \in {"merged", "clean"}
    /\ rpc \in {"hand", "file"} => view = "merged"
    /\ view = "merged" => pr \in {"merged", "clean"}
    /\ view = "clean" => pr = "clean"

LedgerInv ==
    /\ LedgerTypeOK /\ HeadedRowAccepted /\ OneOpenPerKey /\ TwinsAreRead
    /\ DebtIsCurrent /\ HandoffKept

=============================================================================
