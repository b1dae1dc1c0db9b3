----------------------------- MODULE PRSnapshot ------------------------------
(* The open-PR snapshot the hourly drive and the heartbeat report from         *)
(* (heartbeat/pr-open-snapshot.py), for one pull request.  main reads the      *)
(* slots, then GitHub's list and, concurrently, the review threads, the        *)
(* receipt of the CI reconciliation, the three obligation rows of the ledger   *)
(* for a claim and two of them again for a hold, and says of the PR what state *)
(* it is in, who owns it and what is to be done next.  Meanwhile the branch is *)
(* pushed, checks run, labels, comments, rows and slots change.                *)
(*                                                                             *)
(* Abstracted: a head is a number; a check is the set of results GitHub lists  *)
(* under its name; an owner's name is its class for the patterns of the        *)
(* script; a ledger row says who, for which head (0: none) and whether its     *)
(* window is open.  Titles and wording are left out.                           *)
EXTENDS Naturals

CONSTANTS SnWorlds,  \* pull requests as they are at the start
          SnLedgers, \* the rows of a kind at the start
          SnRows,    \* rows that may be written: owner, bound to the head, window open
          SnLabels,  \* labels that come and go
          SnHeads,   \* bound: heads of the branch, 1 .. SnHeads
          SnMoves    \* bound: moves of the world until the report

VARIABLES snPr,       \* the pull request on GitHub
          snSlot,     \* a MoP slot works on it
          snRows,     \* kind -> its open obligation row
          snReceipt,  \* what ci-success-reconciliation.py left: head and resolution
          snView,     \* what the snapshot read
          snPc,       \* its next read
          snResult,   \* its row of the report
          snSteady,   \* ghost: facts true ever since the slots were read
          snSeen,     \* ghost: heads with a ready receipt, with a live claim, at some moment since
          snMoves

snVars == <<snPr, snSlot, snRows, snReceipt, snView, snPc, snResult, snSteady, snSeen, snMoves>>
World == <<snPr, snSlot, snRows, snReceipt, snMoves>>

Gates == {"test", "e2e"}
Checks == Gates \cup {"advisory"}
ClaimKinds == {"pr_admission", "pr_red_unowned", "pr_merge_ask"}
WaitOwners == {"ci", "review block"}        \* PM_WAIT_OWNER_RE, slot:N: also after the window
ReworkOwners == {"rework", "review block"}  \* REWORK_OWNER_RE
Owners == {"PM", "agent"} \cup WaitOwners \cup ReworkOwners
NoRow == [owner |-> "PM", head |-> 0, live |-> FALSE]   \* no open row; one of the PM counts as none
NoReceipt == [head |-> 0, resolution |-> "open"]
NoView == [slot |-> FALSE, mop |-> FALSE, pr |-> [head |-> 0], threads |-> "unread",
           receipt |-> NoReceipt, claim |-> "none",
           rows |-> [k \in {"pr_admission", "pr_merge_ask"} |-> NoRow], held |-> TRUE]
NoResult == [head |-> 0, state |-> "none", next |-> "none", owner |-> "none", actions |-> {}]

(* ------------------------------- the checks ------------------------------- *)
\* Checks of one name are collapsed: a failure wins, then a run that is not over.
Red(p) == {c \in Checks : "FAILURE" \in p.runs[c]}
Pending(p) == {c \in Checks \ Red(p) : "PENDING" \in p.runs[c]}
Green(p) == {c \in Checks \ (Red(p) \cup Pending(p)) : "SUCCESS" \in p.runs[c]}
RequiredRed(p) == Red(p) \cap Gates
GatesPending(p) == Pending(p) \cap Gates # {}
GatesGreen(p) == Gates \subseteq Green(p)
Admitted(p) == p.admit = p.head
ExemptEligible(p) == p.exempt /\ RequiredRed(p) = {}

(* ----------------------------- rows of the ledger ------------------------- *)
ActiveClaim(r) == r.owner # "PM" /\ r.live
PmWait(r) == ActiveClaim(r) \/ r.owner \in WaitOwners

\* A row that names a head holds that head, another as long as its window is open.
RowHolds(r, head) == r.owner # "PM" /\ (IF r.head # 0 THEN r.head = head ELSE r.live)

\* A claim is known only when it is live and names the head of the list.
KnownClaim(r, head) == PmWait(r) /\ r.live /\ r.head = head

\* admission_hold: what keeps an un-admitted PR from being raised again.
Hold(v) ==
  LET adm == v.rows["pr_admission"]
      ask == v.rows["pr_merge_ask"] IN
  IF \/ v.pr.verdict = "BLOCK"
     \/ v.pr.verdict # "PASS" /\ adm.owner \in ReworkOwners /\ RowHolds(adm, v.pr.head)
    THEN "rework-queued"
  ELSE IF ExemptEligible(v.pr) /\ (RowHolds(ask, v.pr.head) \/ RowHolds(adm, v.pr.head))
    THEN "merge-ask-pending"
  ELSE "none"

(* ---------------------------- classify_pr, in parts ----------------------- *)
CodexHeld(v) == v.threads = "live" \/ (v.threads = "unknown" /\ "pm-blocked:codex" \in v.pr.labels)
Blocked(v) == CodexHeld(v) \/ "pm-blocked:ci" \in v.pr.labels

SlotRework(v) ==
  \/ v.pr.labels \cap {"qa-failed-rework", "blocked-rework", "pm-state:blocked-rework"} # {}
  \/ v.threads = "unknown" /\ "pm-blocked:codex" \in v.pr.labels
  \/ v.slot

\* Nobody is on it: no slot, no slot label, no wait of the PM's.
RedIsUnowned(v) ==
  /\ "slot:1" \notin v.pr.labels /\ ~v.slot
  /\ v.claim = "none" /\ ~GatesPending(v.pr) /\ Hold(v) = "none"

Ready(v) == v.receipt.head = v.pr.head /\ v.receipt.resolution = "merge_ready"

MergeAskNext(v) ==
  IF v.pr.dnm THEN "blocked: DO NOT MERGE"
  ELSE IF v.pr.verdict = "BLOCK" THEN "rework-queued"
  ELSE IF Ready(v) THEN "CTO merge ask"
  ELSE IF v.receipt.head = v.pr.head /\ v.receipt.resolution = "blocked" THEN "PM readiness blocked"
  ELSE "PM readiness unverified"

RedNext(v) ==
  IF v.claim = "known" THEN "await existing owner terminal"
  ELSE IF v.claim = "unknown" THEN "reconcile ownership evidence"
  ELSE IF "e2e" \in RequiredRed(v.pr) THEN "e2e-failure-investigator" ELSE "ci-repair-agent"
GreenNext(v) ==
  IF ~Admitted(v.pr) THEN "not admitted: no merge ask"
  ELSE IF Hold(v) # "none" THEN Hold(v) ELSE MergeAskNext(v)
UnadmittedNext(v) ==
  IF v.pr.dnm THEN "blocked: DO NOT MERGE"
  ELSE IF Hold(v) # "none" THEN Hold(v)
  ELSE IF v.pr.exempt THEN "CI-exempt -> merge ask"
  ELSE IF v.pr.verdict = "PASS" THEN "12b done -> admit" ELSE "PM 12b review"

\* The first that fits.
State(v) ==
  IF v.pr.draft THEN "draft"
  ELSE IF SlotRework(v) THEN "rework"
  ELSE IF Blocked(v) THEN "held"
  ELSE IF RequiredRed(v.pr) # {} THEN "red"
  ELSE IF GatesPending(v.pr) \/ (Admitted(v.pr) /\ ~GatesGreen(v.pr) /\ Pending(v.pr) # {}) THEN "CI running"
  ELSE IF GatesGreen(v.pr) THEN "green"
  ELSE IF Admitted(v.pr) THEN "gate missing" ELSE "not admitted"

NextOf(v) ==
  CASE State(v) \in {"draft", "rework"} -> "slot rework"
    [] State(v) = "held" -> "wait"
    [] State(v) = "red" -> RedNext(v)
    [] State(v) = "CI running" -> IF v.pr.admit \notin {0, v.pr.head} THEN "CI running" ELSE "await terminal"
    [] State(v) = "green" -> GreenNext(v)
    [] State(v) = "gate missing" -> "await terminal"
    [] OTHER -> UnadmittedNext(v)

OwnerOf(v) ==
  IF State(v) = "red" /\ v.claim = "unknown" THEN "unknown"
  ELSE IF State(v) \in {"red", "not admitted"} /\ v.claim = "known" THEN "claim"
  ELSE IF Admitted(v.pr) \/ "slot:1" \notin v.pr.labels THEN "PM" ELSE "slot"

Asks == {"CI-exempt -> merge ask", "CTO merge ask"}
Driven == Asks \cup {"PM 12b review", "12b done -> admit", "not admitted: no merge ask"}
ActionsOf(v) ==
  {a \in {"drop codex label", "reconcile", "dispatch", "drop slot label", "drive"} :
     CASE a = "drop codex label" -> "pm-blocked:codex" \in v.pr.labels /\ v.threads = "none"
       [] a = "reconcile" -> State(v) = "red" /\ v.claim = "unknown"
       [] a = "dispatch" -> State(v) = "red" /\ RedIsUnowned(v)
       [] a = "drop slot label" -> State(v) = "green" /\ Admitted(v.pr) /\ "slot:1" \in v.pr.labels
       [] OTHER -> v.claim = "none" /\ NextOf(v) \in Driven}

ClassifyPr(v) == [head |-> v.pr.head, state |-> State(v), next |-> NextOf(v),
                  owner |-> OwnerOf(v), actions |-> ActionsOf(v)]

(* -------------------------------- the ghosts ------------------------------ *)
\* What is so now, of the PR at its head; those of the first set outlive a push.
AnyHeadFacts ==
  snPr.labels \cup {k \in ClaimKinds : PmWait(snRows[k])}
    \cup (IF snSlot THEN {"slot"} ELSE {}) \cup (IF snPr.draft THEN {"draft"} ELSE {})
    \cup (IF snPr.dnm THEN {"dnm"} ELSE {}) \cup (IF snPr.live THEN {"thread"} ELSE {})
ThisHeadFacts ==
  {f \in {"pending", "red", "not green", "block", "rework row", "ask row"} :
     CASE f = "pending" -> GatesPending(snPr)
       [] f = "red" -> RequiredRed(snPr) # {}
       [] f = "not green" -> ~GatesGreen(snPr)
       [] f = "block" -> snPr.verdict = "BLOCK"
       [] f = "rework row" -> /\ snPr.verdict # "PASS" /\ snRows["pr_admission"].owner \in ReworkOwners
                              /\ RowHolds(snRows["pr_admission"], snPr.head)
       [] OTHER -> ExemptEligible(snPr) /\ RowHolds(snRows["pr_merge_ask"], snPr.head)}
ReadyHeads == IF snReceipt.resolution = "merge_ready" THEN {snReceipt.head} ELSE {}
LiveHeads == {snRows[k].head : k \in {j \in ClaimKinds : ActiveClaim(snRows[j])}}
Ghosts ==
  /\ snSteady' = snSteady \cap (AnyHeadFacts' \cup (IF snPr'.head = snPr.head THEN ThisHeadFacts' ELSE {}))
  /\ snSeen' = IF snPc = "slots" THEN snSeen
               ELSE [ready |-> snSeen.ready \cup ReadyHeads', live |-> snSeen.live \cup LiveHeads']

PRSnapTypeOK ==
  /\ snPr.head \in 1 .. SnHeads /\ snPr.admit \in 0 .. SnHeads
  /\ \A k \in ClaimKinds : snRows[k].owner \in Owners /\ snRows[k].head \in 0 .. snPr.head
  /\ snReceipt.head \in 0 .. snPr.head /\ snView.pr.head \in 0 .. snPr.head
  /\ snView.threads \in {"unread", "none", "live", "unknown"}
  /\ snView.claim \in {"none", "unknown", "known"} /\ snMoves \in 0 .. SnMoves
  /\ snPc \in {"slots", "github", "receipt", "hold 1", "hold 2", "done", "failed"} \cup ClaimKinds
  /\ (snPc = "done") = (snResult.next # "none")
  /\ snResult.owner \in {"none", "PM", "slot", "claim", "unknown"}

(* -------------------------------- the world ------------------------------- *)
SnapInit ==
  /\ snPr \in SnWorlds /\ snSlot = FALSE /\ snMoves = 0
  /\ snRows \in SnLedgers
  /\ snReceipt = NoReceipt /\ snView = NoView /\ snPc = "slots" /\ snResult = NoResult
  /\ snSteady = {} /\ snSeen = [ready |-> {}, live |-> {}]

\* A push: no check of the new head has run, nobody has judged it, threads may be outdated.
PrChanges ==
  \/ /\ snPr.head < SnHeads
     /\ \E t \in {FALSE, snPr.live} :
          snPr' = [snPr EXCEPT !.head = @ + 1, !.runs = [c \in Checks |-> {}], !.verdict = "none", !.live = t]
  \/ \E c \in Checks : snPr' = [snPr EXCEPT !.runs[c] = @ \cup {"PENDING"}]
  \/ \E c \in Checks, x \in {"SUCCESS", "FAILURE", "PLACEHOLDER"} :
       /\ "PENDING" \in snPr.runs[c]
       /\ snPr' = [snPr EXCEPT !.runs[c] = (@ \ {"PENDING"}) \cup {x}]
  \/ \E l \in SnLabels : snPr' = [snPr EXCEPT !.labels = IF l \in @ THEN @ \ {l} ELSE @ \cup {l}]
  \/ snPr' = [snPr EXCEPT !.admit = snPr.head]
  \/ \E x \in {"PASS", "BLOCK"} : snPr' = [snPr EXCEPT !.verdict = x]
  \/ snPr' = [snPr EXCEPT !.draft = ~@]
  \/ snPr' = [snPr EXCEPT !.dnm = ~@]
  \/ snPr' = [snPr EXCEPT !.live = ~@]

RowChanges ==
  \E k \in ClaimKinds :
    \/ \E r \in SnRows \cup {NoRow} :
         snRows' = [snRows EXCEPT ![k] =
                      [owner |-> r.owner, live |-> r.live, head |-> IF r.head = 0 THEN 0 ELSE snPr.head]]
    \/ snRows' = [snRows EXCEPT ![k].live = FALSE]

WorldMoves ==
  /\ snPc \notin {"done", "failed"} /\ snMoves < SnMoves /\ snMoves' = snMoves + 1
  /\ \/ PrChanges /\ UNCHANGED <<snSlot, snRows, snReceipt>>
     \/ RowChanges /\ UNCHANGED <<snPr, snSlot, snReceipt>>
     \/ snSlot' = ~snSlot /\ UNCHANGED <<snPr, snRows, snReceipt>>
     \/ /\ \E x \in {"merge_ready", "blocked"} : snReceipt' = [head |-> snPr.head, resolution |-> x]
        /\ UNCHANGED <<snPr, snSlot, snRows>>
  /\ Ghosts /\ UNCHANGED <<snView, snPc, snResult>>

(* --------------------------------- the reads ------------------------------ *)
Read(pc, view) == snPc' = pc /\ snView' = view /\ UNCHANGED <<World, snSteady, snSeen>>

\* MoP down is an empty set of owned pull requests.
ReadSlots ==
  /\ snPc = "slots" /\ snPc' = "github"
  /\ \/ snView' = [snView EXCEPT !.slot = snSlot, !.mop = TRUE]
     \/ snView' = snView
  /\ snSteady' = AnyHeadFacts \cup ThisHeadFacts
  /\ snSeen' = [ready |-> ReadyHeads, live |-> LiveHeads]
  /\ UNCHANGED <<World, snResult>>

\* The list and the review threads are read by two threads, in either order.
Both(v) == IF v.pr.head # 0 /\ v.threads # "unread" THEN "receipt" ELSE "github"
ReadThreads ==
  /\ snPc = "github" /\ snView.threads = "unread"
  /\ \E t \in {IF snPr.live THEN "live" ELSE "none", "unknown"} :
       LET v == [snView EXCEPT !.threads = t] IN Read(Both(v), v)
  /\ UNCHANGED snResult

ReadList ==
  /\ snPc = "github" /\ snView.pr.head = 0
  /\ \/ LET v == [snView EXCEPT !.pr = snPr] IN Read(Both(v), v)
     \/ Read("failed", snView)
  /\ UNCHANGED snResult

ReadReceipt ==
  /\ snPc = "receipt"
  /\ \E r \in {snReceipt, NoReceipt} : Read("pr_admission", [snView EXCEPT !.receipt = r])
  /\ UNCHANGED snResult

\* One kind after another, each in a connection of its own; the first live claim
\* of the head ends it, what cannot be read or bound leaves the owner unknown.
After == [pr_admission |-> "pr_red_unowned", pr_red_unowned |-> "pr_merge_ask", pr_merge_ask |-> "hold 1"]
ReadClaim(k) ==
  /\ snPc = k
  /\ \/ KnownClaim(snRows[k], snView.pr.head) /\ Read("hold 1", [snView EXCEPT !.claim = "known"])
     \/ /\ PmWait(snRows[k]) /\ ~KnownClaim(snRows[k], snView.pr.head)
        /\ Read(After[k], [snView EXCEPT !.claim = "unknown"])
     \/ ~PmWait(snRows[k]) /\ Read(After[k], snView)
     \/ Read(After[k], [snView EXCEPT !.claim = "unknown"])
  /\ UNCHANGED snResult

\* A lookup that fails is no row here: the hold is not seen.
ReadHold(pc, k, next) ==
  /\ snPc = pc
  /\ \/ Read(next, [snView EXCEPT !.rows[k] = snRows[k]])
     \/ Read(next, [snView EXCEPT !.held = FALSE])
  /\ snResult' = IF next = "done" THEN ClassifyPr(snView') ELSE snResult

SnapNext ==
  \/ WorldMoves \/ ReadSlots \/ ReadThreads \/ ReadList \/ ReadReceipt
  \/ \E k \in ClaimKinds : ReadClaim(k)
  \/ ReadHold("hold 1", "pr_admission", "hold 2") \/ ReadHold("hold 2", "pr_merge_ask", "done")
SnapSpec == SnapInit /\ [][SnapNext]_snVars

(* ------------------------------- properties ------------------------------- *)
Unheld == {"draft", "pm-blocked:ci", "pm-state:blocked-rework", "block"}  \* what rules both out
ReadWhen(read, fact) == IF read THEN {fact} ELSE {}

\* A repair of a red pull request is asked for only when nobody was on it all
\* along: no slot or slot label, no wait of the ledger in a kind, no gate that
\* still ran, no hold or rejection; each counts if its read was answered
\* (red_is_unowned: a second agent would be sent to work that has one).
DispatchIsUnowned ==
  "dispatch" \in snResult.actions =>
    snSteady \cap (Unheld \cup ClaimKinds \cup {"slot:1", "pending"}
      \cup ReadWhen(snView.mop, "slot") \cup ReadWhen(snView.held, "rework row")) = {}

\* A merge is asked for only on a receipt that called this head ready while
\* the snapshot ran, or on exempt paths, and never over something that was in
\* the way all along: a draft, a label, a review thread, a rejection, rework
\* that waits for a slot, a gate that is not green, an ask already made.
AsksAreEarned ==
  snResult.next \in Asks =>
    /\ snResult.next = "CTO merge ask" => snResult.head \in snSeen.ready /\ "not green" \notin snSteady
    /\ snResult.next = "CI-exempt -> merge ask" => "red" \notin snSteady
    /\ snSteady \cap (Unheld \cup {"dnm"}
         \cup ReadWhen(snView.mop, "slot") \cup ReadWhen(snView.held, "rework row")
         \cup ReadWhen(snView.held /\ snResult.next = "CI-exempt -> merge ask", "ask row")
         \cup ReadWhen(snView.threads # "unknown", "thread")
         \cup ReadWhen(snView.threads = "unknown", "pm-blocked:codex")) = {}

\* An owner named from the ledger held a live claim of exactly the head the
\* report is about while the snapshot ran; an expired, unbound or old one
\* leaves the owner unknown (fetch_live_claims).
KnownOwnerWasLive == snResult.owner = "claim" => snResult.head \in snSeen.live

\* The invariant of which they follow: what was true all along is true, and was
\* when it was read, so that the view says so too.
PullRequest ==
  [head : 1 .. SnHeads, draft : BOOLEAN, dnm : BOOLEAN, exempt : BOOLEAN, admit : 0 .. SnHeads,
   labels : SUBSET SnLabels, verdict : {"none", "PASS", "BLOCK"}, live : BOOLEAN,
   runs : [Checks -> SUBSET {"PENDING", "SUCCESS", "FAILURE", "PLACEHOLDER"}]]
Row == [owner : Owners, head : 0 .. SnHeads, live : BOOLEAN]
Receipt == [head : 0 .. SnHeads, resolution : {"open", "merge_ready", "blocked"}]
ThisHeadNames == {"pending", "red", "not green", "block", "rework row", "ask row"}

SnapShape ==
  /\ snPr \in PullRequest /\ snSlot \in BOOLEAN /\ snRows \in [ClaimKinds -> Row]
  /\ \A k \in ClaimKinds : snRows[k].head \in 0 .. snPr.head
  /\ snReceipt \in Receipt /\ snReceipt.head \in 0 .. snPr.head /\ snMoves \in 0 .. SnMoves
  /\ snView \in [slot : BOOLEAN, mop : BOOLEAN, pr : PullRequest \cup {NoView.pr},
                 threads : {"unread", "none", "live", "unknown"}, receipt : Receipt,
                 claim : {"none", "unknown", "known"},
                 rows : [{"pr_admission", "pr_merge_ask"} -> Row], held : BOOLEAN]
  /\ snPc \in {"slots", "github", "receipt", "hold 1", "hold 2", "done", "failed"} \cup ClaimKinds
  /\ snView.pr.head \in 0 .. snPr.head

ListTold ==
  LET p == snView.pr IN
  p.head # 0 =>
    /\ SnLabels \cap snSteady \subseteq p.labels
    /\ ("draft" \in snSteady => p.draft) /\ ("dnm" \in snSteady => p.dnm)
    /\ ("pending" \in snSteady => GatesPending(p)) /\ ("red" \in snSteady => RequiredRed(p) # {})
    /\ ("not green" \in snSteady => ~GatesGreen(p)) /\ ("block" \in snSteady => p.verdict = "BLOCK")
    /\ ("rework row" \in snSteady => p.verdict # "PASS") /\ ("ask row" \in snSteady => ExemptEligible(p))
    /\ snSteady \cap ThisHeadNames # {} => p.head = snPr.head

ClaimWasRead(k) ==
  \/ snPc \in {"hold 1", "hold 2", "done"}
  \/ k = "pr_admission" /\ snPc \in {"pr_red_unowned", "pr_merge_ask"}
  \/ k = "pr_red_unowned" /\ snPc = "pr_merge_ask"
RestTold ==
  /\ snView.mop /\ "slot" \in snSteady => snView.slot
  /\ snView.threads = "none" => "thread" \notin snSteady
  /\ \A k \in ClaimKinds \cap snSteady : ClaimWasRead(k) => snView.claim # "none"
  /\ snView.held /\ "rework row" \in snSteady /\ snPc \in {"hold 2", "done"} =>
       LET adm == snView.rows["pr_admission"] IN adm.owner \in ReworkOwners /\ RowHolds(adm, snView.pr.head)
  /\ snView.held /\ "ask row" \in snSteady /\ snPc = "done" =>
       RowHolds(snView.rows["pr_merge_ask"], snView.pr.head)

SeenTold ==
  /\ snPc # "slots" => ReadyHeads \subseteq snSeen.ready /\ LiveHeads \subseteq snSeen.live
  /\ snView.receipt.resolution = "merge_ready" => snView.receipt.head \in snSeen.ready
  /\ snView.claim = "known" => snView.pr.head \in snSeen.live

SnapInv ==
  /\ SnapShape /\ ListTold /\ RestTold /\ SeenTold
  /\ snPc # "slots" => snSteady \subseteq AnyHeadFacts \cup ThisHeadFacts
  /\ snPc = "slots" => snView = NoView /\ snSteady = {}
  /\ snPc = "github" => snView.claim = "none" /\ snView.receipt = NoReceipt
  /\ snPc \notin {"slots", "github", "failed"} => snView.pr.head # 0 /\ snView.threads # "unread"
  /\ snResult = IF snPc = "done" THEN ClassifyPr(snView) ELSE NoResult
=============================================================================
