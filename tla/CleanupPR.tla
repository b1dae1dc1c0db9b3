----------------------------- MODULE CleanupPR -----------------------------
(* pm-cleanup-pr.py: one merged PR is finalised by a journal of effects (the *)
(* labels of the PR and of its issue, the close, the reply in the thread).   *)
(* A step is reserved and marked started in the file before its effect, read *)
(* back after it, and never retried once its outcome is unknown, whoever     *)
(* crashes. A reconciliation readback of the one label may continue a copy.  *)
EXTENDS Integers, Sequences, FiniteSets, TLC

CONSTANTS
    Requests,   \* the requests asked for, of {"linked", "label_only", "post_merge", "issue_less"}
    Worlds,     \* the states of the PR and its issue the runs start from
    MaxAsks,    \* bound on calls of the script
    MaxPRMoves  \* bound on what others change meanwhile

VARIABLES
    live,       \* GitHub and Slack: refs, prLabels, issueLabels, closed, mop, mapped
    journal,    \* the receipt file: a receipt or NoReceipt for each key
    readings,   \* the reconciliation records of each key
    runPc,      \* where the one run holding the lock stands
    mode,       \* its request after the MoP upgrade
    key,        \* the key it works under
    hint,       \* the first probe found no closing reference
    asks, prMoves,
    attempts,   \* how often each effect was asked of the outside, for each mode
    answered    \* what the last run said

cleanupVars == <<live, journal, readings, runPc, mode, key, hint, asks,
                 prMoves, attempts, answered>>

Modes == {"linked", "label_only", "post_merge", "issue_less", "authoritative"}
Key == Modes \X {"first", "continuation"}
PRSteps == {"pr_remove", "pr_add"}
IssueSteps == {"issue_remove", "issue_add", "issue_close"}
Step == PRSteps \cup IssueSteps \cup {"thread_reply"}
Unknown == {"effect_started", "ambiguous"}
StepStatus == {"none", "reserved", "completed"} \cup Unknown
NoReceipt == [status |-> "absent", plan |-> <<>>, steps |-> [s \in Step |-> "none"],
              unknown |-> {}, residue |-> FALSE, thread |-> FALSE]

WorldType == [refs : {"none", "this", "other", "many"}, prLabels : SUBSET {"stale", "clean"},
              issueLabels : SUBSET {"stale", "done"}, closed : BOOLEAN,
              mop : BOOLEAN, mapped : BOOLEAN]

-----------------------------------------------------------------------------
(* What a snapshot shows. *)
NamesIssue(w) == w.refs \in {"this", "many"}

\* _validate_pr_for_request and its two plainer forms
SnapshotValid(m, residue, w) ==
    CASE residue -> TRUE
      [] ~residue /\ m = "issue_less" -> w.refs = "none"
      [] ~residue /\ m = "authoritative" -> w.refs \in {"none", "this"}
      [] OTHER -> NamesIssue(w)

\* _validate_terminal_for_request: the reason it gives, "" when it passes
TerminalReason(m, w) ==
    IF m # "authoritative" /\ w.refs # "this" THEN "linked_issue_not_unique"
    ELSE IF ~w.closed THEN "linked_issue_not_terminal" ELSE ""

LabelPlan(remove, add, labels, terminal) ==
    (IF "stale" \in labels THEN <<remove>> ELSE <<>>)
      \o (IF terminal \in labels THEN <<>> ELSE <<add>>)

PlanOf(m, residue, w) ==
    LET pr == LabelPlan("pr_remove", "pr_add", w.prLabels, "clean")
        issue == LabelPlan("issue_remove", "issue_add", w.issueLabels, "done")
    IN  CASE residue \/ m = "issue_less" -> pr
          [] ~residue /\ m = "linked" -> pr \o issue \o <<"issue_close", "thread_reply">>
          [] ~residue /\ m = "label_only" -> pr \o issue
          [] OTHER -> pr \o issue \o (IF TerminalReason(m, w) = "" THEN <<>>
                                      ELSE <<"issue_close">>)

\* the plan may be made at all
Plannable(m, residue, w) ==
    /\ SnapshotValid(m, residue, w)
    /\ m = "label_only" => TerminalReason(m, w) = ""
    /\ m \in {"post_merge", "authoritative"}
         => TerminalReason(m, w) \in {"", "linked_issue_not_terminal"}

\* MoP's own assignment tuple names the issue of a PR without a reference
ResolveMopIssue(raw) ==
    IF raw = "issue_less" /\ live.refs = "none" /\ live.mop THEN "authoritative" ELSE raw

\* _thread_reply needs its close, a completed step is passed over
Waits(r, s) == /\ r.steps[s] # "completed"
               /\ s = "thread_reply" => r.steps["issue_close"] = "completed"
Pending(r) == {i \in DOMAIN r.plan : Waits(r, r.plan[i])}

\* the step the loop over the plan is at, if one is left
AtHand(r) == {r.plan[i] : i \in {j \in Pending(r) : \A k \in Pending(r) : j <= k}}

(* Wrong: a step that was started when the process died is done again.      *)
BlockedByStatus(r) == r.status = "ambiguous" \/ r.unknown # {}

Blocked(r) == r.status = "ambiguous" \/ r.unknown # {}
                \/ \E s \in Step : r.steps[s] \in Unknown

\* the one step a readback may settle, and nothing else unknown
OnlyLabelUnknown(r) ==
    /\ r.status = "ambiguous" /\ r.unknown = {"pr_add"}
    /\ {s \in Step : r.steps[s] \in Unknown} = {"pr_add"}

CurrentKey(m) == IF journal[<<m, "continuation">>] # NoReceipt
                 THEN <<m, "continuation">> ELSE <<m, "first">>

-----------------------------------------------------------------------------
End(said) == /\ runPc' = "idle" /\ answered' = said
             /\ UNCHANGED <<mode, key, hint>>

\* json.load, _validate_request, _resolve_mop_issue: before the lock
Ask == \E raw \in Requests :
    /\ runPc = "idle" /\ asks < MaxAsks
    /\ mode' \in {raw, ResolveMopIssue(raw)}      \* a failed lookup keeps raw
    /\ runPc' = "load" /\ asks' = asks + 1
    /\ UNCHANGED <<live, journal, readings, key, hint, prMoves, attempts, answered>>

\* a receipt of this call is there: answered, refused, continued or resumed
Mismatched(r) == r.residue /\ r.thread

FoundPrior ==
    LET k == CurrentKey(mode)
        r == journal[k]
        said == IF readings[k] # <<>> THEN readings[k][Len(readings[k])] ELSE "none"
        copy == [r EXCEPT !.steps["pr_add"] = IF said = "present" THEN "completed" ELSE "reserved",
                          !.unknown = {}, !.status = "processing"]
    IN  /\ runPc = "load" /\ r # NoReceipt
        /\ UNCHANGED <<live, prMoves, attempts, asks>>
        /\ \/ /\ Mismatched(r) /\ End("request_mismatch")
              /\ UNCHANGED <<journal, readings>>
           \/ /\ ~Mismatched(r) /\ r.status = "completed" /\ End("completed")
              /\ UNCHANGED <<journal, readings>>
           \/ /\ ~Mismatched(r) /\ OnlyLabelUnknown(r) /\ said \in {"absent", "present"}
              /\ journal' = [journal EXCEPT ![<<mode, "continuation">>] = copy]
              /\ readings' = [readings EXCEPT ![k] = Append(@, "consumed")]
              /\ key' = <<mode, "continuation">> /\ runPc' = "resume"
              /\ UNCHANGED <<mode, hint, answered>>
           \/ /\ ~Mismatched(r) /\ Blocked(r)
              /\ ~(OnlyLabelUnknown(r) /\ said \in {"absent", "present"})
              /\ End("ambiguous") /\ UNCHANGED <<journal, readings>>
           \/ /\ ~Mismatched(r) /\ r.status # "completed" /\ ~Blocked(r)
              /\ key' = k /\ runPc' = "resume"
              /\ UNCHANGED <<journal, readings, mode, hint, answered>>

\* a resumed label-only run is validated anew; the others go on
Resume ==
    /\ runPc = "resume"
    /\ UNCHANGED <<live, journal, readings, asks, prMoves, attempts>>
    /\ IF mode = "label_only" /\ ~(SnapshotValid(mode, FALSE, live) /\ TerminalReason(mode, live) = "")
       THEN End("refused")
       ELSE runPc' = "step" /\ UNCHANGED <<mode, key, hint, answered>>

\* no receipt: the probe, then the mapping of the thread
ProbeResidue ==
    /\ runPc = "load" /\ journal[CurrentKey(mode)] = NoReceipt
    /\ UNCHANGED <<live, journal, readings, asks, prMoves, attempts>>
    /\ \E residue \in {FALSE, mode = "linked" /\ ~NamesIssue(live)} :  \* a failed read is FALSE
         IF mode = "linked" /\ ~residue /\ ~live.mapped
         THEN End("mapping_missing")
         ELSE /\ hint' = residue /\ key' = <<mode, "first">> /\ runPc' = "plan"
              /\ UNCHANGED <<mode, answered>>

\* the second read makes the plan; "assert mapping is not None" stops the run
\* whose two reads disagree; the Slack identity may be refused as well
PrepareReceipt ==
    LET residue == mode = "linked" /\ ~NamesIssue(live)
    IN  /\ runPc = "plan"
        /\ UNCHANGED <<live, readings, asks, prMoves, attempts>>
        /\ \/ /\ ~Plannable(mode, residue, live) \/ (hint /\ ~residue) \/ mode = "linked"
              /\ End("refused") /\ UNCHANGED journal
           \/ /\ Plannable(mode, residue, live) /\ ~(hint /\ ~residue)
              /\ journal' = [journal EXCEPT ![key] =
                     [NoReceipt EXCEPT !.status = "prepared", !.residue = residue,
                                       !.plan = PlanOf(mode, residue, live),
                                       !.thread = mode = "linked" /\ ~hint]]
              /\ runPc' = "step" /\ UNCHANGED <<mode, key, hint, answered>>

Receipt == journal[key]
Write(r) == journal' = [journal EXCEPT ![key] = r]
Mark(s, status) == [Receipt EXCEPT !.steps[s] = status]
MarkUnknown(s) == [Mark(s, "ambiguous") EXCEPT !.status = "ambiguous",
                                               !.unknown = @ \cup {s}]

Reserve ==
    /\ runPc = "step" /\ runPc' = "reserved"
    /\ \E s \in AtHand(Receipt) :
          Write([Mark(s, "reserved") EXCEPT !.status = "processing"])
    /\ UNCHANGED <<live, readings, mode, key, hint, asks, prMoves, attempts, answered>>

MarkStarted ==
    /\ runPc = "reserved" /\ runPc' = "effect"
    /\ \E s \in AtHand(Receipt) : Write(Mark(s, "effect_started"))
    /\ UNCHANGED <<live, readings, mode, key, hint, asks, prMoves, attempts, answered>>

Applied(s, w) ==
    CASE s = "pr_remove" -> [w EXCEPT !.prLabels = @ \ {"stale"}]
      [] s = "pr_add" -> [w EXCEPT !.prLabels = @ \cup {"clean"}]
      [] s = "issue_remove" -> [w EXCEPT !.issueLabels = @ \ {"stale"}]
      [] s = "issue_add" -> [w EXCEPT !.issueLabels = @ \cup {"done"}]
      [] s = "issue_close" -> [w EXCEPT !.closed = TRUE]
      [] OTHER -> w

\* the call to GitHub or Slack: done and answered, done but lost, or not done.
\* DELETE of a label that is gone answers 404.
Effect ==
    /\ runPc = "effect"
    /\ UNCHANGED <<readings, mode, key, hint, asks, prMoves>>
    /\ \E s \in AtHand(Receipt) :
         /\ attempts' = [attempts EXCEPT ![mode][s] = @ + 1]
         /\ \/ /\ s = "pr_remove" => "stale" \in live.prLabels
               /\ s = "issue_remove" => "stale" \in live.issueLabels
               /\ live' = Applied(s, live) /\ runPc' = "readback"
               /\ UNCHANGED <<journal, answered>>
            \/ /\ live' \in {live, Applied(s, live)}
               /\ Write(MarkUnknown(s))
               /\ runPc' = "idle" /\ answered' = "ambiguous"

\* label_readback, the read of the issue, _thread_reply_readback
Visible(s, m, residue, w) ==
    CASE s = "pr_remove" -> SnapshotValid(m, residue, w) /\ "stale" \notin w.prLabels
      [] s = "pr_add" -> SnapshotValid(m, residue, w) /\ "clean" \in w.prLabels
      [] s = "issue_remove" -> "stale" \notin w.issueLabels
      [] s = "issue_add" -> "done" \in w.issueLabels
      [] s = "issue_close" -> w.closed
      [] OTHER -> TRUE

ReadBack ==
    /\ runPc = "readback"
    /\ UNCHANGED <<live, readings, mode, key, hint, asks, prMoves, attempts>>
    /\ \E s \in AtHand(Receipt) :
         \/ /\ Visible(s, mode, Receipt.residue, live)
            /\ Write(Mark(s, "completed")) /\ runPc' = "step" /\ UNCHANGED answered
         \/ /\ Write(MarkUnknown(s))          \* mismatch, or the read failed
            /\ runPc' = "idle" /\ answered' = "ambiguous"

\* every step is done: the terminal reads of the modes without a reply and of residue
TerminalValid ==
    /\ mode \in {"label_only", "post_merge", "authoritative"}
         => SnapshotValid(mode, FALSE, live) /\ TerminalReason(mode, live) = ""
    /\ Receipt.residue => "clean" \in live.prLabels

Complete ==
    /\ runPc = "step" /\ Pending(Receipt) = {}
    /\ UNCHANGED <<live, readings, asks, prMoves, attempts>>
    /\ IF TerminalValid
       THEN Write([Receipt EXCEPT !.status = "completed"]) /\ End("completed")
       ELSE Write([Receipt EXCEPT !.status = "ambiguous"]) /\ End("ambiguous")

\* the process dies, or its write of the file fails: memory is gone, the file stays
Crash ==
    /\ runPc # "idle" /\ End("crashed")
    /\ UNCHANGED <<live, journal, readings, asks, prMoves, attempts>>

\* reconcile_ambiguous: the operator reads the label back
Reconcile ==
    LET open == {k \in Key : OnlyLabelUnknown(journal[k])}
    IN  \E k \in open :
          /\ runPc = "idle" /\ open = {k} /\ Len(readings[k]) < 2
          /\ journal[<<k[1], "continuation">>] = NoReceipt
          /\ readings' = [readings EXCEPT ![k] =
                 Append(@, IF "clean" \in live.prLabels THEN "present" ELSE "absent")]
          /\ UNCHANGED <<live, journal, runPc, mode, key, hint, asks, prMoves,
                         attempts, answered>>

\* others: a label, the closing reference, the issue
PRMove ==
    /\ prMoves < MaxPRMoves /\ prMoves' = prMoves + 1
    /\ live' \in {[live EXCEPT !.refs = "this"], [live EXCEPT !.refs = "none"],
                  [live EXCEPT !.closed = ~@], [live EXCEPT !.prLabels = @ \ {"clean"}]}
    /\ UNCHANGED <<journal, readings, runPc, mode, key, hint, asks, attempts, answered>>

-----------------------------------------------------------------------------
CleanupInit ==
    /\ live \in Worlds
    /\ journal = [k \in Key |-> NoReceipt] /\ readings = [k \in Key |-> <<>>]
    /\ runPc = "idle" /\ mode = "linked" /\ key = <<"linked", "first">> /\ hint = FALSE
    /\ asks = 0 /\ prMoves = 0
    /\ attempts = [m \in Modes |-> [s \in Step |-> 0]] /\ answered = "none"

CleanupNext == Ask \/ FoundPrior \/ Resume \/ ProbeResidue \/ PrepareReceipt \/ Reserve
                 \/ MarkStarted \/ Effect \/ ReadBack \/ Complete \/ Crash \/ Reconcile \/ PRMove

CleanupSpec == CleanupInit /\ [][CleanupNext]_cleanupVars

-----------------------------------------------------------------------------
CleanupTypeOK ==
    /\ live \in WorldType
    /\ \A k \in Key : /\ journal[k].steps \in [Step -> StepStatus]
                      /\ journal[k].unknown \in SUBSET Step
                      /\ \A i \in DOMAIN journal[k].plan : journal[k].plan[i] \in Step
    /\ runPc \in {"idle", "load", "resume", "plan", "step", "reserved", "effect", "readback"}
    /\ mode \in Modes /\ key \in Key /\ hint \in BOOLEAN

\* Across every crash and every repeated call an effect is asked of GitHub or
\* Slack once; only the label a readback showed absent is asked for again.
EffectOnce ==
    \A m \in Modes, s \in Step :
        attempts[m][s] <= IF \E i \in DOMAIN readings[<<m, "first">>] :
                                 s = "pr_add" /\ readings[<<m, "first">>][i] = "absent"
                          THEN 2 ELSE 1

\* Once a step's outcome is unknown and its effect is no longer at hand, that
\* receipt stays as it is: whoever crashed, was called again or reconciles, no
\* later step of any call retries it or rewrites it.
AtHandOf(k) == runPc \in {"effect", "readback"} /\ key = k
UnknownKeptStep ==
    \A k \in Key : (Blocked(journal[k]) /\ ~AtHandOf(k)) => journal'[k] = journal[k]
UnknownKept == [][UnknownKeptStep]_cleanupVars

\* The reply that says the issue is closed is asked for only after the close
\* was read back, and a named but unlinked issue is never touched.
ReplyAfterClose ==
    \A k \in Key :
        LET r == journal[k]
        IN  /\ r.steps["thread_reply"] # "none" => r.steps["issue_close"] = "completed"
            /\ r.residue => \A s \in IssueSteps : r.steps[s] = "none"
            /\ r.status = "completed" => \A i \in DOMAIN r.plan : r.steps[r.plan[i]] = "completed"

(* What the proofs of these carry along.  A run works on the receipt a later *)
(* call would find, in which nothing is unknown but the step it has at hand; *)
(* an effect was asked for as often as the receipts show it tried.           *)
ReceiptType == [status : {"absent", "prepared", "processing", "completed", "ambiguous"},
                plan : Seq(Step), steps : [Step -> StepStatus], unknown : SUBSET Step,
                residue : BOOLEAN, thread : BOOLEAN]

CleanupShape ==
    /\ CleanupTypeOK /\ journal \in [Key -> ReceiptType]
    /\ attempts \in [Modes -> [Step -> Nat]]
    /\ readings \in [Key -> Seq({"absent", "present", "consumed"})]
    /\ \A m \in Modes : /\ readings[<<m, "continuation">>] = <<>>
                        /\ journal[<<m, "first">>] = NoReceipt
                             => journal[<<m, "continuation">>] = NoReceipt

AtWork == {"resume", "step", "reserved", "effect", "readback"}

RunKnowsItsReceipt ==
    /\ runPc \in AtWork \cup {"plan"} => key = CurrentKey(mode)
    /\ runPc = "plan" => Receipt = NoReceipt
    /\ runPc \in AtWork => /\ Receipt # NoReceipt
                           /\ Receipt.status # "ambiguous" /\ Receipt.unknown = {}
    /\ runPc \in {"resume", "step", "reserved"} => \A s \in Step : Receipt.steps[s] \notin Unknown
    /\ runPc \in {"effect", "readback"} =>
         \A s \in Step : Receipt.steps[s] \in Unknown <=> s \in AtHand(Receipt)

Tried(r, s) == r.steps[s] \in Unknown \cup {"completed"}
ReadAbsent(m) == \E i \in DOMAIN readings[<<m, "first">>] : readings[<<m, "first">>][i] = "absent"
Entering(m, s) == runPc = "effect" /\ mode = m /\ s \in AtHand(Receipt)

AsksAreMarked ==
    \A m \in Modes, s \in Step :
        LET again == /\ journal[<<m, "continuation">>] # NoReceipt
                     /\ s = "pr_add" /\ ReadAbsent(m)
        IN  attempts[m][s] + (IF Entering(m, s) THEN 1 ELSE 0)
              <= (IF Tried(journal[CurrentKey(m)], s) THEN 1 ELSE 0) + (IF again THEN 1 ELSE 0)

PlansAreWhole ==
    /\ ReplyAfterClose
    /\ \A k \in Key :
         LET Planned == {journal[k].plan[i] : i \in DOMAIN journal[k].plan}
         IN  /\ journal[k].residue => Planned \subseteq PRSteps
             /\ "thread_reply" \in Planned => "issue_close" \in Planned

CleanupInv == CleanupShape /\ RunKnowsItsReceipt /\ AsksAreMarked /\ PlansAreWhole
=============================================================================
