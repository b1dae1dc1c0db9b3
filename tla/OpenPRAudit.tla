----------------------------- MODULE OpenPRAudit -----------------------------
(* The open-PR activity audit of the heartbeat (sakshi-heartbeat.py), for one  *)
(* pull request: main reads the slots, the audit then reads the list of open   *)
(* PRs, the workflow runs and the jobs of the head it saw, and the durable     *)
(* continuation rows of the PM ledger, and answers one motion state.  While it *)
(* reads, work starts and stops, the branch is pushed and rows are written.    *)
(*                                                                             *)
(* Abstracted: a head is a number; a workflow of a head is executing (a job    *)
(* with a runner and a running step) or not; a slot's active turn is of one of *)
(* the kinds _numbered_motion_kind tells apart; a ledger row is the lane of    *)
(* its kind, the head it is bound to and its text, 0 when it is malformed.     *)
EXTENDS Naturals

CONSTANTS AuSlots,   \* numbered slots
          AuRows,    \* continuation rows that may be written
          AuHeads,   \* bound: heads of the branch, 1 .. AuHeads
          AuMoves    \* bound: moves of the world during the audit

VARIABLES auHead,    \* the branch's head
          auLive,    \* workflow lane -> the heads it executes on
          auSlot,    \* slot -> head and kind of its active turn (head 0: none)
          auRows,    \* the open continuation rows
          auView,    \* what the audit read
          auPc,      \* its next read
          auResult,  \* its answer
          auSteady,  \* ghost: lanes that executed on auView.head ever since the slots were read
          auSeen,    \* ghost: lanes and heads that executed at some moment of it
          auOff,     \* ghost: lanes whose executing run was not on the page that was read
          auMoves

auVars == <<auHead, auLive, auSlot, auRows, auView, auPc, auResult, auSteady, auSeen, auOff, auMoves>>

Flow == {"CI", "capture"}
Durable == {"CI", "capture", "repro/proof", "rework", "rework-blocked", "dependency-blocked"}
Progress == {"CI_IN_PROGRESS", "CAPTURE_IN_PROGRESS", "REPRO_OR_PROOF_IN_PROGRESS", "REWORK_IN_PROGRESS"}
MotionStates == Progress \cup {"REWORK_BLOCKED", "DEPENDENCY_BLOCKED", "PROCESS_LIMBO"}
StateOf == [l \in Durable |->
  CASE l = "CI" -> "CI_IN_PROGRESS" [] l = "capture" -> "CAPTURE_IN_PROGRESS"
    [] l = "repro/proof" -> "REPRO_OR_PROOF_IN_PROGRESS" [] l = "rework" -> "REWORK_IN_PROGRESS"
    [] l = "rework-blocked" -> "REWORK_BLOCKED" [] OTHER -> "DEPENDENCY_BLOCKED"]
KindLane == [repro |-> "repro/proof", rework |-> "rework", other |-> "none"]
NoResult == [ok |-> FALSE, state |-> "none", from |-> "none"]
NoTurn == [head |-> 0, kind |-> "other"]
NoView == [head |-> 0, slots |-> [s \in AuSlots |-> NoTurn],
           live |-> {}, unread |-> FALSE, rows |-> {}, dup |-> FALSE]

\* The lanes that execute on a head now.
Executing(h) == {l \in Flow : h \in auLive[l]}
                  \cup ({KindLane[auSlot[s].kind] : s \in {t \in AuSlots : auSlot[t].head = h}} \ {"none"})

AuditTypeOK ==
  /\ auHead \in 1 .. AuHeads /\ auLive \in [Flow -> SUBSET (1 .. AuHeads)]
  /\ \A s \in AuSlots : auSlot[s].head \in 0 .. AuHeads /\ auSlot[s].kind \in DOMAIN KindLane
  /\ auRows \subseteq AuRows /\ auView.rows \subseteq AuRows
  /\ auPc \in {"slots", "prs", "CI", "capture", "rows", "done"} /\ auOff \subseteq Flow
  /\ auResult.state \in MotionStates \cup {"none"} /\ auMoves \in 0 .. AuMoves

AuditInit ==
  /\ auHead = 1 /\ auLive \in [Flow -> SUBSET {1}]
  /\ auSlot \in [AuSlots -> {NoTurn} \cup [head : {1}, kind : DOMAIN KindLane]]
  /\ auRows \in {{}} \cup {{r} : r \in AuRows}
  /\ auView = NoView /\ auPc = "slots" /\ auResult = NoResult
  /\ auSteady = {} /\ auSeen = {} /\ auOff = {} /\ auMoves = 0

(* ------------------------------- the world -------------------------------- *)
Ghosts ==  \* what the move leaves of the ghosts
  /\ auSteady' = auSteady \cap {p \in Durable \X (1 .. AuHeads) : p[1] \in Executing(p[2])'}
  /\ auSeen' = auSeen \cup {p \in Durable \X (1 .. AuHeads) : p[1] \in Executing(p[2])'}

WorldMoves ==
  /\ auPc # "done" /\ auMoves < AuMoves /\ auMoves' = auMoves + 1
  /\ \/ /\ auHead < AuHeads /\ auHead' = auHead + 1 /\ UNCHANGED <<auLive, auSlot, auRows>>
     \/ \E l \in Flow :
          /\ auLive' = [auLive EXCEPT ![l] = IF auHead \in @ THEN @ \ {auHead} ELSE @ \cup {auHead}]
          /\ UNCHANGED <<auHead, auSlot, auRows>>
     \/ \E s \in AuSlots, k \in DOMAIN KindLane :
          /\ auSlot' = [auSlot EXCEPT ![s] = IF @.head = 0 THEN [head |-> auHead, kind |-> k]
                                             ELSE NoTurn]
          /\ UNCHANGED <<auHead, auLive, auRows>>
     \/ \E r \in AuRows \ auRows : auRows' = auRows \cup {r} /\ UNCHANGED <<auHead, auLive, auSlot>>
  /\ Ghosts /\ UNCHANGED <<auView, auPc, auResult, auOff>>

(* -------------------------------- the reads ------------------------------- *)
World == <<auHead, auLive, auSlot, auRows, auMoves>>
Answer(ok, state, from) == auResult' = [ok |-> ok, state |-> state, from |-> from] /\ auPc' = "done"

\* main: collect_mop and slot_state_map, well before the audit; none when /slots fails.
ReadSlots ==
  /\ auPc = "slots" /\ auPc' = "prs"
  /\ \/ auView' = [auView EXCEPT !.slots = auSlot]
     \/ auView' = auView
  /\ auSteady' = {p \in Durable \X (1 .. AuHeads) : p[1] \in Executing(p[2])} /\ auSeen' = auSteady'
  /\ UNCHANGED <<World, auResult, auOff>>

\* The list of open PRs: unreadable, or a row without one exact head and branch, or with a twin.
ReadPRs ==
  /\ auPc = "prs"
  /\ \/ Answer(FALSE, "none", "unreadable") /\ UNCHANGED auView
     \/ Answer(TRUE, "PROCESS_LIMBO", "identity") /\ UNCHANGED auView
     \/ \E twin \in BOOLEAN : /\ auView' = [auView EXCEPT !.head = auHead, !.dup = twin]
                              /\ auPc' = "CI" /\ UNCHANGED auResult
  /\ UNCHANGED <<World, auSteady, auSeen, auOff>>

\* One page of the repository's last hundred runs, of which those of exactly that
\* head are kept, and then their jobs, one call after another.  The run of a lane
\* that executes may be further back, or too young, to be on the page.
ReadJobsOf(lane, next) ==
  /\ auPc = lane
  /\ \/ /\ auView' = [auView EXCEPT !.live = IF auView.head \in auLive[lane] THEN @ \cup {lane} ELSE @]
        /\ UNCHANGED auOff
     \/ auView.head \in auLive[lane] /\ auOff' = auOff \cup {lane} /\ UNCHANGED auView
     \/ auView' = [auView EXCEPT !.unread = TRUE] /\ UNCHANGED auOff
  /\ auPc' = next /\ UNCHANGED <<World, auResult, auSteady, auSeen>>

(* ------------------------------ the evaluation ---------------------------- *)
Owners(v) == {s \in AuSlots : v.slots[s].head = v.head}
AtMostOne(S) == \A x, y \in S : x = y
Numbered(v) == IF AtMostOne(Owners(v))
               THEN {KindLane[v.slots[s].kind] : s \in Owners(v)} \ {"none"} ELSE {}
ActiveLanes(v) == v.live \cup Numbered(v)
Ambiguous(v) == ~AtMostOne(Owners(v)) \/ ~AtMostOne(ActiveLanes(v))

\* _load_open_pr_continuations: malformed rows are errors, other heads are left
\* out, rows that contradict each other are an error, the first that fits counts.
Bound(v) == {r \in v.rows : r.text # 0 /\ r.head = v.head}
RowError(v) ==
  \/ ~AtMostOne({<<r.lane, r.text>> : r \in Bound(v)})
  \/ Bound(v) = {} /\ \E r \in v.rows : r.text = 0

(* Wrong: the kind of the row is taken for a motion state.                  *)
DurableAsLane(lane) == lane

DurableState(lane) == IF lane \in Flow THEN "PROCESS_LIMBO" ELSE StateOf[lane]

EvaluateActivity(v, records) ==
  IF Ambiguous(v) THEN [ok |-> TRUE, state |-> "PROCESS_LIMBO", from |-> "several"]
  ELSE IF ActiveLanes(v) # {}
    THEN [ok |-> TRUE, state |-> StateOf[CHOOSE l \in ActiveLanes(v) : TRUE], from |-> "live"]
  ELSE IF records # {}
    THEN [ok |-> TRUE, state |-> DurableState((CHOOSE r \in records : TRUE).lane), from |-> "durable"]
  ELSE [ok |-> TRUE, state |-> "PROCESS_LIMBO", from |-> "none"]

MalformedRow == [ok |-> TRUE, state |-> "PROCESS_LIMBO", from |-> "malformed"]
\* A malformed sibling does not hide live evidence of the exact head.
EvaluateRow(v) ==
  IF ~RowError(v) THEN EvaluateActivity(v, Bound(v))
  ELSE IF EvaluateActivity(v, {}).state \in Progress THEN EvaluateActivity(v, {}) ELSE MalformedRow

\* Unread jobs end the row before the ledger is read; an unreadable ledger, or a
\* second row of the same PR, ends the whole audit.
ReadRows ==
  /\ auPc = "rows"
  /\ IF auView.unread THEN Answer(~auView.dup, "PROCESS_LIMBO", "unread") /\ UNCHANGED auView
     ELSE \/ Answer(FALSE, "none", "unreadable") /\ UNCHANGED auView
          \/ /\ auView' = [auView EXCEPT !.rows = auRows]
             /\ LET r == EvaluateRow(auView') IN Answer(r.ok /\ ~auView.dup, r.state, r.from)
  /\ UNCHANGED <<World, auSteady, auSeen, auOff>>

AuditNext == \/ WorldMoves \/ ReadSlots \/ ReadPRs
             \/ ReadJobsOf("CI", "capture") \/ ReadJobsOf("capture", "rows") \/ ReadRows
AuditSpec == AuditInit /\ [][AuditNext]_auVars

(* ------------------------------- properties ------------------------------- *)
\* A workflow lane is never reported in progress on a head it did not execute
\* on during the audit, whatever the ledger says; nor is any lane reported from
\* live evidence that was never there (_continuation_motion_metadata,
\* _job_is_genuinely_executing).
ProgressWasLive ==
  \A l \in Durable :
    auResult.state = StateOf[l] /\ (l \in Flow \/ auResult.from = "live")
      => <<l, auView.head>> \in auSeen

\* A lane that alone executed on the head through all the reads is what a
\* complete audit reports, if its run was on the page of runs the audit read: no
\* malformed or contradictory ledger row hides it.
LiveEvidenceWins ==
  \A l \in Durable :
    (/\ auPc = "done" /\ auResult.ok /\ auView.head # 0 /\ ~auView.unread
     /\ auView.slots # NoView.slots /\ l \notin auOff
     /\ <<l, auView.head>> \in auSteady
     /\ {x \in auSeen : x[2] = auView.head} = {<<l, auView.head>>}
     /\ AtMostOne(Owners(auView)))
      => auResult.state = StateOf[l]

\* The invariant of which they follow: what was read was there at that moment,
\* and what is there ever since was there when it was read.
Turn == [head : 0 .. AuHeads, kind : DOMAIN KindLane]
AuditShape ==
  /\ auHead \in 1 .. AuHeads /\ auLive \in [Flow -> SUBSET (1 .. AuHeads)]
  /\ auSlot \in [AuSlots -> Turn] /\ auRows \subseteq AuRows
  /\ auView \in [head : 0 .. AuHeads, slots : [AuSlots -> Turn], live : SUBSET Flow,
                 unread : BOOLEAN, rows : SUBSET AuRows, dup : BOOLEAN]
  /\ auPc \in {"slots", "prs", "CI", "capture", "rows", "done"} /\ auMoves \in 0 .. AuMoves
  /\ auResult \in [ok : BOOLEAN, state : MotionStates \cup {"none"},
                   from : {"none", "unreadable", "identity", "unread", "several", "live", "durable", "malformed"}]
  /\ auOff \subseteq Flow /\ auSteady \subseteq Durable \X (1 .. AuHeads) /\ auSeen \subseteq Durable \X (1 .. AuHeads)

GhostsHold ==
  auPc # "slots" =>
    \A l \in Durable, h \in 1 .. AuHeads :
      /\ l \in Executing(h) => <<l, h>> \in auSeen
      /\ <<l, h>> \in auSteady => l \in Executing(h)

ViewWasSeen ==
  /\ \A l \in auView.live : <<l, auView.head>> \in auSeen
  /\ \A s \in AuSlots : auView.slots[s].head # 0 /\ KindLane[auView.slots[s].kind] # "none"
        => <<KindLane[auView.slots[s].kind], auView.slots[s].head>> \in auSeen

LaneWasRead(l) == auPc \in {"rows", "done"} \/ (l = "CI" /\ auPc = "capture")
SteadyWasSeen ==
  /\ \A l \in Flow :
       LaneWasRead(l) /\ ~auView.unread /\ <<l, auView.head>> \in auSteady => l \in auView.live \cup auOff
  /\ auView.slots # NoView.slots =>
       \A l \in Durable \ Flow, h \in 1 .. AuHeads : <<l, h>> \in auSteady =>
         \E s \in AuSlots : auView.slots[s].head = h /\ KindLane[auView.slots[s].kind] = l

AuditInv ==
  /\ AuditShape /\ GhostsHold /\ ViewWasSeen /\ SteadyWasSeen
  /\ auPc \in {"slots", "prs"} => auView.head = 0 /\ auView.live = {} /\ auView.rows = {}
  /\ auPc = "slots" => auView = NoView
  /\ auPc \in {"CI", "capture", "rows"} => auView.head # 0
  /\ auPc # "done" => auResult = NoResult
  /\ ProgressWasLive /\ LiveEvidenceWins
=============================================================================
