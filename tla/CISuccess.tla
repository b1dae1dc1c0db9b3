----------------------------- MODULE CISuccess -----------------------------
(* ci-success-reconciliation.py: a watchdog turns each open PR whose exact   *)
(* head is green into a durable event (a sentinel file and an obligation of  *)
(* the PM) or, with a review marker, straight into the CTO's merge-ready     *)
(* handoff; the PM claims and resolves the same event. The files of one PR   *)
(* are written under its lock; GitHub and the ledger may fail at any call.   *)
EXTENDS Integers, Sequences, FiniteSets, TLC

CONSTANTS
    PRList,        \* the open PRs in the order GitHub lists them
    MaxChecks,     \* --max-checks: guard runs of one tick
    MaxPushes,     \* bound on pushes and settled checks
    MaxPmCalls,    \* bound on calls of the PM
    MaxFaults      \* bound on failed calls and deaths

PR == {PRList[i] : i \in DOMAIN PRList}
NoHead == -1
Head0 == 0 .. MaxPushes

VARIABLES
    pull,       \* GitHub, per PR: head, label, appears (the rollup), green (the guard), marker
    sentinel,   \* the event file: status, head, resolution
    duty,       \* open obligations of each PR
    handoff,    \* the handoff file of each PR and head
    dog, pm,    \* the two processes: pc, the PR at work, its head
    dogRows,    \* the rows of the tick that are left, by their place in the list
    dogChecks,
    proven,     \* <<pr, head>> the guard and the marker were seen to hold for (history)
    pushes, pmCalls, faults

reconcileVars == <<pull, sentinel, duty, handoff, dog, pm, dogRows, dogChecks, proven,
                   pushes, pmCalls, faults>>

Labels == {"awaiting", "review", "blocked_ci", "other"}
NoEvent == [status |-> "none", head |-> NoHead, resolution |-> "none"]
Off == [pc |-> "off", pr |-> PRList[1], head |-> NoHead, label |-> "other", wants |-> "none"]

\* open_candidates: is_success_candidate and appears_green
IsCandidate(pr) == pull[pr].label # "other" /\ pull[pr].appears

(* Wrong: what was resolved at this head is surfaced again.                 *)
HandledOpen(pr, head) ==
    sentinel[pr].head = head /\ sentinel[pr].status \in {"pending", "in_progress"}

Handled(pr, head) ==
    sentinel[pr].head = head /\ sentinel[pr].status \in {"pending", "in_progress", "resolved"}

LockFree(pr) == /\ ~(dog.pr = pr /\ dog.pc \in {"decide", "handoff", "ledger", "alert", "pending", "wake",
                                            "promoted"})
                /\ ~(pm.pr = pr /\ pm.pc # "off")

Fault == faults < MaxFaults /\ faults' = faults + 1
NoFault == UNCHANGED faults

-----------------------------------------------------------------------------
(* One tick of the watchdog. *)
Tick ==
    /\ dog.pc = "off"
    /\ dogRows' = [i \in {k \in DOMAIN PRList : IsCandidate(PRList[k])} |->
                      [pr |-> PRList[i], head |-> pull[PRList[i]].head, label |-> pull[PRList[i]].label]]
    /\ dogChecks' = 0 /\ dog' = [Off EXCEPT !.pc = "row"]
    /\ UNCHANGED <<pull, sentinel, duty, handoff, pm, proven, pushes, pmCalls, faults>>

NextRow == dog' = [Off EXCEPT !.pc = "row"]

First == CHOOSE i \in DOMAIN dogRows : \A k \in DOMAIN dogRows : i <= k

\* an event at this head is there already; an open one wakes the PM again
Row ==
    /\ dog.pc = "row" /\ DOMAIN dogRows # {}
    /\ dogRows' = [i \in DOMAIN dogRows \ {First} |-> dogRows[i]]
    /\ UNCHANGED <<pull, sentinel, handoff, pm, proven, pushes, pmCalls>>
    /\ LET r == dogRows[First]
       IN  \/ /\ Handled(r.pr, r.head) /\ NextRow /\ UNCHANGED dogChecks
              /\ \/ sentinel[r.pr].status = "resolved" /\ NoFault /\ UNCHANGED duty
                 \/ /\ sentinel[r.pr].status # "resolved" /\ NoFault
                    /\ duty' = [duty EXCEPT ![r.pr].ci = TRUE]
                 \/ sentinel[r.pr].status # "resolved" /\ Fault /\ UNCHANGED duty
           \/ /\ ~Handled(r.pr, r.head) /\ dogChecks < MaxChecks /\ NoFault
              /\ dogChecks' = dogChecks + 1 /\ UNCHANGED duty
              /\ dog' = [pc |-> "guard", pr |-> r.pr, head |-> r.head, label |-> r.label,
                         wants |-> "none"]

\* no rows left, or the checks of this tick are used up: the rest waits
EndTick ==
    /\ dog.pc = "row"
    /\ DOMAIN dogRows # {} => /\ ~Handled(dogRows[First].pr, dogRows[First].head)
                              /\ dogChecks = MaxChecks
    /\ dog' = Off /\ dogRows' = <<>> /\ dogChecks' = 0
    /\ UNCHANGED <<pull, sentinel, duty, handoff, pm, proven, pushes, pmCalls, faults>>

\* exact_green: the promotion guard in a clean worktree; drift and errors end the row
Guard ==
    /\ dog.pc = "guard"
    /\ UNCHANGED <<pull, sentinel, duty, handoff, pm, dogRows, dogChecks, proven, pushes, pmCalls>>
    /\ \/ /\ pull[dog.pr].green /\ pull[dog.pr].head = dog.head
          /\ dog' = [dog EXCEPT !.pc = "lock"] /\ NoFault
       \/ /\ ~(pull[dog.pr].green /\ pull[dog.pr].head = dog.head) /\ NextRow /\ NoFault
       \/ NextRow /\ Fault

\* under the lock the event is read again; a bound review marker promotes
TakeLock ==
    /\ dog.pc = "lock" /\ LockFree(dog.pr)
    /\ dog' = [dog EXCEPT !.pc = "decide"]
    /\ UNCHANGED <<pull, sentinel, duty, handoff, pm, dogRows, dogChecks, proven, pushes, pmCalls, faults>>

\* review_marker_binds_head: the marker of exactly this head
MarkerBinds(pr, head) == pull[pr].marker /\ pull[pr].head = head

Decide ==
    /\ dog.pc = "decide"
    /\ UNCHANGED <<pull, sentinel, duty, handoff, pm, dogRows, dogChecks, pushes, pmCalls, faults>>
    /\ IF Handled(dog.pr, dog.head) THEN NextRow /\ UNCHANGED proven
       ELSE IF dog.label = "awaiting" /\ MarkerBinds(dog.pr, dog.head)
       THEN /\ dog' = [dog EXCEPT !.pc = "handoff"]
            /\ proven' = proven \cup {<<dog.pr, dog.head>>}
       ELSE dog' = [dog EXCEPT !.pc = "pending"] /\ UNCHANGED proven

WritePending ==
    /\ dog.pc = "pending"
    /\ sentinel' = [sentinel EXCEPT ![dog.pr] =
                        [status |-> "pending", head |-> dog.head, resolution |-> "none"]]
    /\ dog' = [dog EXCEPT !.pc = "wake"]
    /\ UNCHANGED <<pull, duty, handoff, pm, dogRows, dogChecks, proven, pushes, pmCalls, faults>>

\* upsert_ci_reconcile_obligation
Wake ==
    /\ dog.pc = "wake" /\ NextRow
    /\ \/ duty' = [duty EXCEPT ![dog.pr].ci = TRUE] /\ NoFault
       \/ UNCHANGED duty /\ Fault
    /\ UNCHANGED <<pull, sentinel, handoff, pm, dogRows, dogChecks, proven, pushes, pmCalls>>

-----------------------------------------------------------------------------
(* promote_to_merge_ready, of the watchdog or of the PM (p is dog or pm). *)
Promoted(p, isDog) == [p EXCEPT !.pc = IF isDog THEN "promoted" ELSE "close"]
\* a refusal leaves the watchdog with a pending event, the PM with nothing
Unpromoted(p, isDog) == IF isDog THEN [p EXCEPT !.pc = "pending"] ELSE Off

PromoteStep(p, q, isDog) ==
    \/ /\ p.pc = "handoff"
       /\ UNCHANGED duty
       /\ \/ q = Unpromoted(p, isDog) /\ Fault /\ UNCHANGED handoff
          \/ /\ NoFault
             /\ IF pull[p.pr].head # p.head THEN q = Unpromoted(p, isDog) /\ UNCHANGED handoff
                ELSE IF handoff[p.pr][p.head] = "sent"
                THEN q = Promoted(p, isDog) /\ UNCHANGED handoff
                ELSE /\ handoff' = [handoff EXCEPT ![p.pr][p.head] = "pending"]
                     /\ q = [p EXCEPT !.pc = "ledger"]
    \/ /\ p.pc = "ledger" /\ UNCHANGED handoff
       /\ \/ q = Unpromoted(p, isDog) /\ Fault /\ UNCHANGED duty
          \/ /\ duty' = [duty EXCEPT ![p.pr].review = TRUE] /\ NoFault
             /\ q = [p EXCEPT !.pc = "alert"]
    \/ /\ p.pc = "alert" /\ UNCHANGED duty
       /\ \/ q = Unpromoted(p, isDog) /\ Fault /\ UNCHANGED handoff
          \/ /\ handoff' = [handoff EXCEPT ![p.pr][p.head] = "sent"] /\ NoFault
             /\ q = Promoted(p, isDog)

DogPromote ==
    /\ PromoteStep(dog, dog', TRUE)
    /\ UNCHANGED <<pull, sentinel, pm, dogRows, dogChecks, proven, pushes, pmCalls>>

PmPromote ==
    /\ PromoteStep(pm, pm', FALSE)
    /\ UNCHANGED <<pull, sentinel, dog, dogRows, dogChecks, proven, pushes, pmCalls>>

WritePromoted ==
    /\ dog.pc = "promoted"
    /\ sentinel' = [sentinel EXCEPT ![dog.pr] =
                        [status |-> "resolved", head |-> dog.head, resolution |-> "merge_ready"]]
    /\ NextRow
    /\ UNCHANGED <<pull, duty, handoff, pm, dogRows, dogChecks, proven, pushes, pmCalls, faults>>

-----------------------------------------------------------------------------
(* The PM. *)
Drifted(pr) == sentinel[pr].head \notin {NoHead, pull[pr].head}

\* claim: the whole call is under the lock
Claim(pr) ==
    /\ pm.pc = "off" /\ pmCalls < MaxPmCalls /\ pmCalls' = pmCalls + 1
    /\ LockFree(pr) /\ sentinel[pr] # NoEvent
    /\ \/ /\ Drifted(pr)
          /\ sentinel' = [sentinel EXCEPT ![pr] = [status |-> "superseded", head |-> sentinel[pr].head,
                                                  resolution |-> "head_drift"]]
       \/ /\ ~Drifted(pr) /\ sentinel[pr].status = "pending"
          /\ sentinel' = [sentinel EXCEPT ![pr] = [status |-> "in_progress", head |-> sentinel[pr].head,
                                                  resolution |-> sentinel[pr].resolution]]
    /\ UNCHANGED <<pull, duty, handoff, dog, pm, dogRows, dogChecks, proven, pushes, faults>>

\* resolve: head, replay, the blocked proof, or the marker and the guard
Resolve(pr, wants) ==
    LET head == pull[pr].head
    IN  /\ pm.pc = "off" /\ pmCalls < MaxPmCalls /\ pmCalls' = pmCalls + 1
        /\ LockFree(pr) /\ sentinel[pr] # NoEvent
        /\ wants = "superseded" \/ ~Drifted(pr)
        /\ ~(/\ wants = "merge_ready" /\ sentinel[pr].resolution = "merge_ready"
             /\ sentinel[pr].status = "resolved" /\ sentinel[pr].head = head)
        /\ wants = "merge_ready" => MarkerBinds(pr, head) /\ pull[pr].green
        /\ pm' = [pc |-> IF wants = "merge_ready" THEN "handoff" ELSE "close", pr |-> pr,
                  head |-> head, label |-> "other", wants |-> wants]
        /\ proven' = IF wants = "merge_ready" THEN proven \cup {<<pr, head>>} ELSE proven
        /\ UNCHANGED <<pull, sentinel, duty, handoff, dog, dogRows, dogChecks, pushes, faults>>

\* the obligations first: the Codex one is opened or closed, the CI one is closed
Close ==
    LET codex == CASE pm.wants = "codex_followup" -> TRUE
                   [] pm.wants \in {"merge_ready", "superseded"} -> FALSE
                   [] OTHER -> duty[pm.pr].codex
    IN  /\ pm.pc = "close"
        /\ UNCHANGED <<pull, sentinel, handoff, dog, dogRows, dogChecks, proven, pushes, pmCalls>>
        /\ \/ /\ duty' = [duty EXCEPT ![pm.pr].codex = codex, ![pm.pr].ci = FALSE]
              /\ pm' = [pm EXCEPT !.pc = "write"] /\ NoFault
           \/ /\ duty' \in {duty, [duty EXCEPT ![pm.pr].codex = codex]}
              /\ pm' = Off /\ Fault

(* Wrong: the next action of a blocker is taken for a resolution.           *)
SettlementAsAsked(wants, head) ==
    [status |-> IF wants = "superseded" THEN "superseded" ELSE "resolved", head |-> head,
     resolution |-> wants]

\* codex_followup is a blocker with a next action of its own
Settlement(wants, head) ==
    [status |-> IF wants = "superseded" THEN "superseded" ELSE "resolved", head |-> head,
     resolution |-> IF wants = "codex_followup" THEN "blocked" ELSE wants]

WriteResolved ==
    /\ pm.pc = "write"
    /\ sentinel' = [sentinel EXCEPT ![pm.pr] = Settlement(pm.wants, sentinel[pm.pr].head)]
    /\ pm' = Off
    /\ UNCHANGED <<pull, duty, handoff, dog, dogRows, dogChecks, proven, pushes, pmCalls, faults>>

-----------------------------------------------------------------------------
Dies ==
    /\ Fault
    /\ \/ dog.pc # "off" /\ dog' = Off /\ dogRows' = <<>> /\ dogChecks' = 0 /\ UNCHANGED pm
       \/ pm.pc # "off" /\ pm' = Off /\ UNCHANGED <<dog, dogRows, dogChecks>>
    /\ UNCHANGED <<pull, sentinel, duty, handoff, proven, pushes, pmCalls>>

\* a push; its checks settle, green or only seeming so, with a review or without
PullMove ==
    /\ pushes < MaxPushes /\ pushes' = pushes + 1
    /\ \E pr \in PR, g, m \in BOOLEAN :
         pull' = [pull EXCEPT ![pr] = [head |-> pull[pr].head + 1, label |-> pull[pr].label,
                                       appears |-> pull[pr].appears, green |-> g, marker |-> m]]
    /\ UNCHANGED <<sentinel, duty, handoff, dog, pm, dogRows, dogChecks, proven, pmCalls, faults>>

ReconcileInit ==
    /\ pull \in [PR -> [head : {0}, label : {"awaiting", "review"}, appears : {TRUE},
                        green : BOOLEAN, marker : BOOLEAN]]
    /\ sentinel \in [PR -> {NoEvent, [NoEvent EXCEPT !.status = "pending"]}]
    /\ duty = [pr \in PR |-> [ci |-> FALSE, codex |-> FALSE, review |-> FALSE]]
    /\ handoff = [pr \in PR |-> [h \in Head0 |-> "none"]]
    /\ dog = Off /\ pm = Off /\ dogRows = <<>> /\ dogChecks = 0 /\ proven = {}
    /\ pushes = 0 /\ pmCalls = 0 /\ faults = 0

DogNext == Tick \/ Row \/ EndTick \/ Guard \/ TakeLock \/ Decide \/ WritePending \/ Wake
             \/ DogPromote \/ WritePromoted
PmNext == \/ \E pr \in PR : Claim(pr)
          \/ \E pr \in PR, wants \in {"merge_ready", "blocked", "codex_followup", "superseded"} :
                 Resolve(pr, wants)
          \/ PmPromote \/ Close \/ WriteResolved

ReconcileNext == DogNext \/ PmNext \/ Dies \/ PullMove

ReconcileSpec == ReconcileInit /\ [][ReconcileNext]_reconcileVars

\* launchd starts a tick again and again; a started call of the PM ends
FairReconcileSpec == ReconcileSpec /\ WF_reconcileVars(DogNext)
                       /\ WF_reconcileVars(PmPromote \/ Close \/ WriteResolved)

-----------------------------------------------------------------------------
ReconcileTypeOK ==
    /\ \A pr \in PR :
         /\ sentinel[pr].status \in {"none", "pending", "in_progress", "resolved", "superseded"}
         /\ sentinel[pr].resolution \in {"none", "merge_ready", "blocked", "superseded", "head_drift"}
         /\ pull[pr].label \in Labels /\ \A h \in Head0 : handoff[pr][h] \in {"none", "pending", "sent"}
    /\ dogChecks \in 0 .. MaxChecks /\ DOMAIN dogRows \subseteq DOMAIN PRList
    /\ \A i \in DOMAIN dogRows : dogRows[i].pr \in PR
    /\ dog.pc \notin {"off", "row"} => dog.pr \in PR
    /\ pm.pc # "off" => pm.pr \in PR /\ pm.wants \in {"merge_ready", "blocked", "codex_followup", "superseded"}

\* The CTO is handed a head only after the guard was green and the review
\* marker bound for that very head, and the event says merge-ready only with a
\* sent handoff.
HandedOffIsProven ==
    \A pr \in PR :
        /\ \A h \in Head0 : handoff[pr][h] # "none" => <<pr, h>> \in proven
        /\ (sentinel[pr].status = "resolved" /\ sentinel[pr].resolution = "merge_ready")
             => \E h \in Head0 : handoff[pr][h] = "sent"

\* What the PM settled for a head (a blocker, a claim) the watchdog does not
\* take back, though it looked at the event before it had the lock.
SettledStaysStep ==
    \A pr \in PR :
        (/\ sentinel[pr].status \in {"in_progress", "resolved"} /\ sentinel[pr].head # NoHead
         /\ sentinel'[pr].head = sentinel[pr].head)
           => sentinel'[pr].status # "pending"
SettledStays == [][SettledStaysStep]_reconcileVars

\* "Do not leave a green PR in qa-passed-awaiting-ci": the watchdog makes an
\* event of every PR that is and stays green at its head.
GreenSurfaced ==
    \A pr \in PR :
        (pull[pr].green /\ IsCandidate(pr))
           ~> (Handled(pr, pull[pr].head) \/ sentinel[pr].status = "superseded" \/ ~pull[pr].green)

(* What the proofs of these two carry along.  Whoever is on the way to a     *)
(* handoff has its proof; the watchdog and the PM are never under the lock   *)
(* of one PR together, and what the watchdog decided under it still holds.   *)
Locked == {"decide", "handoff", "ledger", "alert", "pending", "wake", "promoted"}
Sent(p) == p.pr \in PR => p.head \in Head0 /\ handoff[p.pr][p.head] = "sent"

ReconcileShape ==
    /\ pull \in [PR -> [head : 0 .. pushes, label : Labels, appears : BOOLEAN, green : BOOLEAN,
                        marker : BOOLEAN]]
    /\ pushes \in Head0 /\ handoff \in [PR -> [Head0 -> {"none", "pending", "sent"}]]
    /\ sentinel = [pr \in PR |-> sentinel[pr]]
    /\ \A p \in {dog, pm} : p = [pc |-> p.pc, pr |-> p.pr, head |-> p.head, label |-> p.label,
                                wants |-> p.wants]

HandoffsAreProven ==
    /\ \A p \in {dog, pm} :
         /\ p.pc \in {"handoff", "ledger", "alert"} => <<p.pr, p.head>> \in proven
         /\ p.pc \in {"ledger", "alert"} => (p.pr \in PR => p.head \in Head0)
    /\ dog.pc = "promoted" => Sent(dog)
    /\ pm.pc \in {"close", "write"} /\ pm.wants = "merge_ready" => Sent(pm)
    /\ HandedOffIsProven

OneUnderTheLock ==
    /\ dog.pc \in Locked /\ pm.pc # "off" => dog.pr # pm.pr
    /\ dog.pc \in {"handoff", "ledger", "alert", "pending"} /\ dog.pr \in PR =>
         ~Handled(dog.pr, dog.head)

ReconcileInv == ReconcileShape /\ HandoffsAreProven /\ OneUnderTheLock
=============================================================================
