----------------------------- MODULE HourlyDebt -----------------------------
(***************************************************************************)
(* The report the manager owes each hour (pmCadence.ts): a record in the   *)
(* server's config, a row of the obligations ledger that a child process   *)
(* writes, and one reminder while the row stays open.  The minute tick and *)
(* a manual run both bring the record up to date, and a child may outlive  *)
(* the server that started it.  How a prompt reaches the pane is PMQueue.  *)
(***************************************************************************)
EXTENDS Naturals

CONSTANTS
    MaxBucket,      \* bound: hours
    MaxWriter,      \* bound: child processes
    MaxDebtCrash,   \* bound: restarts of the server
    NULL

Bucket == 1 .. MaxBucket
Writer == 1 .. MaxWriter
Caller == {"tick", "manual"}

VARIABLES
    hour,       \* the current bucket
    record,     \* HourlyReportRecord
    inflight,   \* hourlyWriterInflight
    writers,    \* the children: for which bucket, and what became of them
    callers,    \* the two asynchronous calls
    ledger,     \* the newest row of each bucket
    done,       \* buckets whose prompt was delivered (last_due_key)
    prompts,    \* buckets whose prompt was submitted (history)
    reminders,  \* how often a bucket's reminder was submitted (history)
    debtCrashes

debtVars == <<hour, record, inflight, writers, callers, ledger, done, prompts, reminders, debtCrashes>>

RecordType == [key : Bucket, writer : {"pending", "created", "failed", "unknown"},
               attempts : 1 .. 2, escalated : BOOLEAN]

ChildType == [key : Bucket, state : {"running", "wrote", "died"}]
CallerType == [pc : {"off", "ensuring", "submitting", "reconciling", "reminding"},
               key : Bucket, writer : Writer \cup {NULL}]

DebtTypeOK ==
    /\ hour \in Bucket /\ record \in RecordType \cup {NULL} /\ inflight \in Bucket \cup {NULL}
    /\ writers \in [Writer -> ChildType \cup {NULL}] /\ \A c \in Caller : callers[c] \in CallerType
    /\ ledger \in [Bucket -> {"absent", "open", "resolved"}]
    /\ done \subseteq Bucket /\ prompts \subseteq Bucket
    /\ reminders \in [Bucket -> Nat] /\ debtCrashes \in 0 .. MaxDebtCrash

Then(pc) == [pc |-> pc, key |-> 1, writer |-> NULL]
Off == Then("off")

DebtInit ==
    /\ hour = 1 /\ record = NULL /\ inflight = NULL /\ writers = [w \in Writer |-> NULL]
    /\ callers = [c \in Caller |-> Off] /\ ledger = [b \in Bucket |-> "absent"]
    /\ done = {} /\ prompts = {} /\ reminders = [b \in Bucket |-> 0] /\ debtCrashes = 0

-----------------------------------------------------------------------------
Call(c, pc, key, w) == callers' = [callers EXCEPT ![c] = [pc |-> pc, key |-> key, writer |-> w]]

(* runHourlyWriter up to its await. *)
StartWriter(c, pc, rec) ==
    \E w \in Writer :
        /\ writers[w] = NULL /\ \A v \in Writer : writers[v] = NULL => w <= v
        /\ writers' = [writers EXCEPT ![w] = [key |-> rec.key, state |-> "running"]]
        /\ record' = rec /\ inflight' = rec.key /\ Call(c, pc, rec.key, w)

(* Only what definitely did not commit is tried once more.  Wrong: whatever *)
(* is not known to have committed.                                          *)
RetriedUnlessCreated(rec) == rec.attempts < 2 /\ rec.key = hour
Retried(rec) == rec.writer = "failed" /\ rec.attempts < 2 /\ rec.key = hour

(* reconcileHourlyDebt; the ledger may be unreadable, and the failure too   *)
(* recent for another attempt.                                              *)
Reconcile(c, awaiting, next) ==
    \/ /\ callers' = [callers EXCEPT ![c] = next] /\ UNCHANGED <<inflight, writers>>
       /\ \/ UNCHANGED record
          \/ /\ record # NULL /\ record.writer # "created" /\ inflight # record.key
             /\ \/ ledger[record.key] # "absent" /\ record' = [record EXCEPT !.writer = "created"]
                \/ /\ ledger[record.key] = "absent" /\ record.writer = "pending"
                   /\ record' = [record EXCEPT !.writer = "unknown"]
    \/ /\ record # NULL /\ inflight # record.key
       /\ ledger[record.key] = "absent" /\ record.writer \notin {"created", "pending"} /\ Retried(record)
       /\ StartWriter(c, awaiting, [key |-> record.key, writer |-> "pending",
                                    attempts |-> record.attempts + 1, escalated |-> record.escalated])

Asks(key) == [pc |-> "submitting", key |-> key, writer |-> NULL]

(* triggerTask of the hourly prompt: ensureHourlyDebt first.  The tick runs *)
(* it when the journal has no delivery of the bucket, a manual run always.  *)
Trigger(c) ==
    /\ callers[c].pc = "off" /\ (c = "tick" => hour \notin done)
    /\ IF record # NULL /\ record.key = hour THEN Reconcile(c, "ensuring", Asks(hour))
       ELSE StartWriter(c, "ensuring", [key |-> hour, writer |-> "pending", attempts |-> 1, escalated |-> FALSE])
    /\ UNCHANGED <<hour, ledger, done, prompts, reminders, debtCrashes>>

(* settleHourlyWriter reads the record again.  Wrong: it writes the one     *)
(* that was persisted before the attempt.                                   *)
SettledAsBegun(outcome) == [record EXCEPT !.writer = outcome, !.escalated = FALSE]
SettledRecord(outcome) == [record EXCEPT !.writer = outcome]

(* The writer's child ends or is killed after ten seconds: an exit of 2 and *)
(* a kill say nothing about the commit.                                     *)
WriterSettles(c) ==
    LET me == callers[c]
        w == writers[me.writer]
    IN  /\ me.pc \in {"ensuring", "reconciling"} /\ me.writer # NULL
        /\ \E outcome \in {"created", "failed", "unknown"} :
             /\ outcome = "created" => w.state = "wrote"
             /\ outcome = "failed" => w.state = "died"
             /\ outcome = "unknown" => w.state # "died"
             /\ writers' = [writers EXCEPT ![me.writer] =
                               [key |-> w.key, state |-> IF w.state = "running" THEN "died" ELSE w.state]]
             /\ record' = IF record.key = me.key THEN SettledRecord(outcome) ELSE record
        /\ inflight' = NULL
        /\ Call(c, IF me.pc = "ensuring" THEN "submitting" ELSE "reminding", me.key, NULL)
        /\ UNCHANGED <<hour, ledger, done, prompts, reminders, debtCrashes>>

(* submitToPM of the prompt: delivered or kept in the queue. *)
PromptSubmitted(c) ==
    /\ callers[c].pc = "submitting" /\ prompts' = prompts \cup {callers[c].key}
    /\ done' \in {done, done \cup {callers[c].key}}
    /\ callers' = [callers EXCEPT ![c] = IF c = "tick" THEN Then("reconciling") ELSE Off]
    /\ UNCHANGED <<hour, record, inflight, writers, ledger, reminders, debtCrashes>>

(* The end of every tick: the record is reconciled, then the reminder. *)
TickReconciles ==
    /\ \/ callers["tick"].pc = "off"
       \/ callers["tick"].pc = "reconciling" /\ callers["tick"].writer = NULL
    /\ Reconcile("tick", "reconciling", Then("reminding"))
    /\ UNCHANGED <<hour, ledger, done, prompts, reminders, debtCrashes>>

(* escalateHourlyReportIfMissed: claimed in the record before the submit.   *)
TickReminds ==
    /\ callers["tick"].pc = "reminding" /\ callers' = [callers EXCEPT !["tick"] = Off]
    /\ \/ UNCHANGED <<record, reminders>>
       \/ /\ record # NULL /\ ~record.escalated /\ record.key = hour /\ ledger[hour] = "open"
          /\ record' = [record EXCEPT !.escalated = TRUE]
          /\ reminders' = [reminders EXCEPT ![hour] = @ + 1]
    /\ UNCHANGED <<hour, inflight, writers, ledger, done, prompts, debtCrashes>>

-----------------------------------------------------------------------------
(* obligation-upsert commits, also for a server that is gone: an open row   *)
(* is kept, else a new one is written.                                      *)
WriterCommits(w) ==
    /\ writers[w] # NULL /\ writers[w].state = "running"
    /\ \E state \in {"wrote", "died"} :
         /\ writers' = [writers EXCEPT ![w] = [key |-> writers[w].key, state |-> state]]
         /\ ledger' = IF state = "wrote" THEN [ledger EXCEPT ![writers[w].key] = "open"] ELSE ledger
    /\ UNCHANGED <<hour, record, inflight, callers, done, prompts, reminders, debtCrashes>>

(* The agent posts its report, which resolves the row. *)
Posts(b) ==
    /\ ledger[b] = "open" /\ ledger' = [ledger EXCEPT ![b] = "resolved"]
    /\ UNCHANGED <<hour, record, inflight, writers, callers, done, prompts, reminders, debtCrashes>>

HourPasses ==
    /\ hour < MaxBucket /\ hour' = hour + 1
    /\ UNCHANGED <<record, inflight, writers, callers, ledger, done, prompts, reminders, debtCrashes>>

DebtCrash ==
    /\ debtCrashes < MaxDebtCrash /\ debtCrashes' = debtCrashes + 1
    /\ inflight' = NULL /\ callers' = [c \in Caller |-> Off]
    /\ UNCHANGED <<hour, record, writers, ledger, done, prompts, reminders>>

DebtNext ==
    \/ \E c \in Caller : Trigger(c) \/ WriterSettles(c) \/ PromptSubmitted(c)
    \/ TickReconciles \/ TickReminds
    \/ \E w \in Writer : WriterCommits(w)
    \/ \E b \in Bucket : Posts(b)
    \/ HourPasses \/ DebtCrash

DebtSpec == DebtInit /\ [][DebtNext]_debtVars

-----------------------------------------------------------------------------
(* A bucket is reminded once, whatever restarts, manual runs and late       *)
(* writers do, and its prompt is not submitted before the record of its     *)
(* debt: while the bucket is current the record is there.                   *)
RemindedOnce ==
    /\ \A b \in Bucket : reminders[b] <= 1
    /\ hour \in prompts => record # NULL /\ record.key = hour

(* "Resolved debt is never recreated" (pmCadence.ts:631): no writer of the  *)
(* server opens a row for a bucket whose report was posted.                 *)
NotReopenedStep == \A b \in Bucket : ledger[b] = "resolved" => ledger'[b] = "resolved"
NotReopened == [][NotReopenedStep]_debtVars

(* What the proofs of these two carry along.  Every bucket that was written, *)
(* asked for or reminded of is one a record was kept for, and the record     *)
(* only moves on; a bucket has one running writer at most, none once its row *)
(* is there or its record says that the writer failed.                       *)
Owed(b) == record # NULL /\ b <= record.key
Running(w) == writers[w] # NULL /\ writers[w].state = "running"

DebtShape ==
    /\ hour \in Bucket /\ record \in RecordType \cup {NULL}
    /\ writers \in [Writer -> ChildType \cup {NULL}] /\ callers \in [Caller -> CallerType]
    /\ ledger \in [Bucket -> {"absent", "open", "resolved"}]
    /\ prompts \subseteq Bucket /\ reminders \in [Bucket -> Nat]

DebtsAreRecorded ==
    /\ record # NULL => record.key <= hour
    /\ \A b \in Bucket : b \in prompts \/ ledger[b] # "absent" \/ reminders[b] > 0 => Owed(b)
    /\ \A w \in Writer : writers[w] # NULL => Owed(writers[w].key)
    /\ \A c \in Caller : callers[c].pc \in {"ensuring", "submitting"} => Owed(callers[c].key)

RemindersAreClaimed ==
    \A b \in Bucket : /\ reminders[b] <= 1
                      /\ reminders[b] > 0 /\ record.key = b => record.escalated

WritersAreAlone ==
    /\ \A w \in Writer : Running(w) =>
         /\ ledger[writers[w].key] = "absent"
         /\ \A v \in Writer : Running(v) /\ writers[v].key = writers[w].key => v = w
         /\ writers[w].key = record.key => record.writer # "failed"
    /\ \A c \in Caller : callers[c].writer # NULL =>
         /\ writers[callers[c].writer] # NULL /\ writers[callers[c].writer].key = callers[c].key
         /\ callers[c].key = record.key =>
              /\ record.writer # "failed"
              /\ \A d \in Caller : callers[d].writer # NULL /\ callers[d].key = record.key => d = c
              /\ \A w \in Writer : Running(w) /\ writers[w].key = record.key => w = callers[c].writer

DebtInv == DebtShape /\ DebtsAreRecorded /\ RemindersAreClaimed /\ WritersAreAlone
=============================================================================
