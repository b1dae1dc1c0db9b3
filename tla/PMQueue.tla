------------------------------ MODULE PMQueue ------------------------------
(***************************************************************************)
(* The queue of events for the manager (relay.ts, pm_pending_events).  A   *)
(* message becomes a row, one per slot and type, and jobs of one promise   *)
(* chain paste rows into the manager's pane: a drain takes the winner of   *)
(* the slot's state rows and all others, a delivery the row it was given.  *)
(* Each attempt is journalled before the paste and after it, so that a row *)
(* whose paste may have happened is never pasted again.                    *)
(***************************************************************************)
EXTENDS Naturals, Sequences, FiniteSets

CONSTANTS
    SlotState,      \* the types of a slot's state that occur
    MaxStamp,       \* bound: rows written
    MaxJobs,        \* bound: jobs waiting in the chain
    MaxQueueCrash,  \* bound: restarts of the server
    NULL

Stamp == 1 .. MaxStamp
Types == SlotState \cup {"cadence", "reminder"}
Rank == [blocked |-> 1, idle |-> 2, active |-> 3, check |-> 4]

VARIABLES
    runtime,    \* pmRuntime
    rows,       \* pm_pending_events of one slot and of the manager: the stamp, or 0
    type,       \* what each stamp was
    mark,       \* the latest journal entry of each stamp
    last,       \* the latest stamp
    chain,      \* pmDrainChain: the jobs that wait
    job,        \* the one that runs
    tick,       \* the cadence's call: what it submitted and what it heard
    due,        \* last_due_key is this bucket
    pasted,     \* how often each stamp reached the pane (history)
    restarts

queueVars == <<runtime, rows, type, mark, last, chain, job, tick, due, pasted, restarts>>

JobType == [kind : {"drain", "deliver"}, pc : {"pane", "next", "look", "mark", "deliver", "send", "key"},
            left : Seq(Stamp), at : 0 .. MaxStamp, tick : BOOLEAN]
Marks == {"none", "started", "deferred", "ambiguous", "delivered"}

QueueTypeOK ==
    /\ runtime \in {"omp", "claude"} /\ rows \in [Types -> 0 .. MaxStamp]
    /\ type \in [Stamp -> Types \cup {NULL}] /\ mark \in [Stamp -> Marks]
    /\ last \in 0 .. MaxStamp /\ Len(chain) <= MaxJobs /\ \A i \in DOMAIN chain : chain[i] \in JobType
    /\ job \in JobType \cup {NULL}
    /\ tick \in [of : {"none", "cadence", "reminder"}, heard : {"nothing", "ok", "refused"}]
    /\ due \in BOOLEAN /\ pasted \in [Stamp -> 0 .. 2] /\ restarts \in 0 .. MaxQueueCrash

NoTick == [of |-> "none", heard |-> "nothing"]
Drain == [kind |-> "drain", pc |-> "pane", left |-> <<>>, at |-> 0, tick |-> FALSE]
Deliver(n, t) == [kind |-> "deliver", pc |-> "deliver", left |-> <<>>, at |-> n, tick |-> t]

QueueInit ==
    /\ runtime \in {"omp", "claude"} /\ rows = [t \in Types |-> 0]
    /\ type = [n \in Stamp |-> NULL] /\ mark = [n \in Stamp |-> "none"] /\ last = 0
    /\ chain = <<>> /\ job = NULL /\ tick = NoTick /\ due = FALSE
    /\ pasted = [n \in Stamp |-> 0] /\ restarts = 0

-----------------------------------------------------------------------------
(* The job is at an await: only then other code of the server runs. *)
Awaiting == ~(job # NULL /\ job.pc \in {"next", "mark", "deliver"})

Push(j) == Len(chain) < MaxJobs /\ chain' = Append(chain, j)

(* Deletion names the stamp: a fresher row of the type stays.  Wrong: by    *)
(* slot and type alone.                                                     *)
WithoutType(n) == [rows EXCEPT ![type[n]] = 0]
Without(n) == IF rows[type[n]] = n THEN [rows EXCEPT ![type[n]] = 0] ELSE rows

Enqueue(t, r) ==
    /\ last < MaxStamp /\ last' = last + 1
    /\ rows' = [r EXCEPT ![t] = last + 1] /\ type' = [type EXCEPT ![last + 1] = t]

(* injectToPM and injectToPMDirect; a direct slot-active takes the queued   *)
(* check with it.  A native Claude pane that is ready is written directly,  *)
(* without a row.                                                           *)
SlotEvent(t) ==
    /\ Awaiting
    /\ \E direct \in BOOLEAN :
         Enqueue(t, IF runtime = "omp" /\ direct /\ t = "active" THEN [rows EXCEPT !["check"] = 0]
                    ELSE rows)
    /\ IF runtime = "omp" THEN Push(Drain) ELSE UNCHANGED chain
    /\ UNCHANGED <<runtime, mark, job, tick, due, pasted, restarts>>

(* drainPMQueue from the Stop hook, the health checks and a direct write. *)
DrainAsked ==
    /\ Awaiting /\ Push(Drain)
    /\ UNCHANGED <<runtime, rows, type, mark, last, job, tick, due, pasted, restarts>>

(* A mark after which the pane may hold the text.  Wrong: one that forgets  *)
(* that the end of an attempt was not seen.                                 *)
BlockingUnlessSeen(m) == m \in {"delivered", "ambiguous"}
Blocking(m) == m \in {"started", "ambiguous", "delivered"}

(* submitToPM with a database: the row that is there, or a new one, and a   *)
(* delivery of it in the chain.  Both kinds of caller wait for its answer;  *)
(* Heard is what the tick hears without one.                                *)
Submit(t, same, isTick) ==
    IF rows[t] # 0 /\ same
    THEN IF Blocking(mark[rows[t]])
         THEN /\ rows' = (IF mark[rows[t]] = "delivered" THEN [rows EXCEPT ![t] = 0] ELSE rows)
              /\ tick' = (IF isTick THEN [of |-> t, heard |->
                             IF mark[rows[t]] = "delivered" THEN "ok" ELSE "refused"] ELSE tick)
              /\ UNCHANGED <<type, last, chain>>
         ELSE /\ Push(Deliver(rows[t], isTick))
              /\ tick' = (IF isTick THEN [of |-> t, heard |-> "nothing"] ELSE tick)
              /\ UNCHANGED <<rows, type, last>>
    ELSE /\ Enqueue(t, rows) /\ Push(Deliver(last + 1, isTick))
         /\ tick' = (IF isTick THEN [of |-> t, heard |-> "nothing"] ELSE tick)

(* POST /slots/0/send.  Only the text of a check differs between two of a   *)
(* kind; a ready native pane is written directly, one that is not gets the  *)
(* row of SlotEvent.                                                        *)
StateSubmitted(t) ==
    /\ Awaiting /\ runtime = "omp" /\ \E same \in (IF t = "check" THEN BOOLEAN ELSE {TRUE}) : Submit(t, same, FALSE)
    /\ UNCHANGED <<runtime, mark, job, due, pasted, restarts>>

(* runIfDue and triggerTask of one bucket: the journal is read before a     *)
(* new submit.                                                              *)
Undelivered == ~due /\ ~\E n \in Stamp : type[n] = "cadence" /\ mark[n] = "delivered"

CadenceTick ==
    /\ Awaiting /\ tick = NoTick /\ ~due
    /\ IF Undelivered THEN Submit("cadence", TRUE, TRUE) /\ UNCHANGED due
       ELSE due' = TRUE /\ UNCHANGED <<rows, type, last, chain, tick>>
    /\ UNCHANGED <<runtime, mark, job, pasted, restarts>>

(* escalateHourlyReportIfMissed, asked once (HourlyDebt). *)
ReminderTick ==
    /\ Awaiting /\ tick = NoTick /\ \A n \in Stamp : type[n] # "reminder"
    /\ Submit("reminder", TRUE, TRUE)
    /\ UNCHANGED <<runtime, mark, job, due, pasted, restarts>>

TickEnds ==
    /\ Awaiting /\ tick.heard # "nothing" /\ tick' = NoTick
    /\ due' = (due \/ tick = [of |-> "cadence", heard |-> "ok"])
    /\ UNCHANGED <<runtime, rows, type, mark, last, chain, job, pasted, restarts>>

-----------------------------------------------------------------------------
JobStarts ==
    /\ job = NULL /\ chain # <<>> /\ job' = Head(chain) /\ chain' = Tail(chain)
    /\ UNCHANGED <<runtime, rows, type, mark, last, tick, due, pasted, restarts>>

Goto(pc) == job' = [job EXCEPT !.pc = pc]

(* drainPendingPMEvents: of the slot's state rows the most urgent stays. *)
Beaten(t) == t \in SlotState /\ \E u \in SlotState : rows[u] # 0 /\ Rank[u] < Rank[t]
Coalesced == [t \in Types |-> IF Beaten(t) THEN 0 ELSE rows[t]]
OldestFirst(S) ==
    CHOOSE s \in [1 .. Cardinality(S) -> S] : \A i, j \in DOMAIN s : i < j => s[i] < s[j]
Batch(r) == OldestFirst({r["cadence"], r["reminder"]} \ {0})
              \o OldestFirst({r[t] : t \in SlotState} \ {0})

DrainReads ==
    /\ job # NULL /\ job.pc = "pane"
    /\ \/ job' = NULL /\ UNCHANGED rows                    \* isPMPaneReady: no
       \/ rows' = Coalesced /\ job' = [job EXCEPT !.pc = "next", !.left = Batch(Coalesced)]
    /\ UNCHANGED <<runtime, type, mark, last, chain, tick, due, pasted, restarts>>

NextRow ==
    /\ job # NULL /\ job.pc = "next"
    /\ job' = IF job.left = <<>> THEN NULL
              ELSE [job EXCEPT !.at = Head(job.left), !.left = Tail(job.left),
                               !.pc = IF type[Head(job.left)] = "check" THEN "look" ELSE "mark"]
    /\ UNCHANGED <<runtime, rows, type, mark, last, chain, tick, due, pasted, restarts>>

(* shouldDropQueuedCheckSlot, after reading the check's file: too old, or a *)
(* later check says skip.                                                   *)
CheckLooked ==
    /\ job # NULL /\ job.pc = "look"
    /\ \/ Goto("mark") /\ UNCHANGED rows
       \/ Goto("next") /\ rows' = Without(job.at)
    /\ UNCHANGED <<runtime, type, mark, last, chain, tick, due, pasted, restarts>>

MarkRead ==
    /\ job # NULL /\ job.pc = "mark"
    /\ CASE mark[job.at] = "delivered" -> Goto("next") /\ rows' = Without(job.at)
         [] mark[job.at] = "started" -> Goto("next") /\ UNCHANGED rows
         [] OTHER -> Goto("deliver") /\ UNCHANGED rows
    /\ UNCHANGED <<runtime, type, mark, last, chain, tick, due, pasted, restarts>>

(* The end of deliverPMRowNow for its caller. *)
Reply(ok) ==
    /\ IF job.kind = "drain" THEN Goto("next") ELSE job' = NULL
    /\ tick' = IF job.tick THEN [tick EXCEPT !.heard = IF ok THEN "ok" ELSE "refused"] ELSE tick

(* deliverPMRowNow up to its await; the check of a reminder's debt may keep *)
(* the row or drop it.                                                      *)
RowDelivered ==
    /\ job # NULL /\ job.pc = "deliver"
    /\ \/ /\ Blocking(mark[job.at])
          /\ Reply(mark[job.at] = "delivered") /\ UNCHANGED <<rows, mark>>
       \/ /\ ~Blocking(mark[job.at]) /\ type[job.at] = "reminder"
          /\ rows' \in {rows, Without(job.at)} /\ Reply(FALSE) /\ UNCHANGED mark
       \/ /\ ~Blocking(mark[job.at]) /\ mark' = [mark EXCEPT ![job.at] = "started"]
          /\ Goto("send") /\ UNCHANGED <<rows, tick>>
    /\ UNCHANGED <<runtime, type, last, chain, due, pasted, restarts>>

(* injectDirectNow: before the paste is asked for nothing can have arrived, *)
(* from then on it may have.                                                *)
Sent ==
    /\ job # NULL /\ job.pc = "send"
    /\ \/ /\ mark' = [mark EXCEPT ![job.at] = "deferred"]
          /\ Reply(FALSE) /\ UNCHANGED pasted
       \/ /\ pasted' = [pasted EXCEPT ![job.at] = @ + 1]
          /\ Goto("key") /\ UNCHANGED <<mark, tick>>
       \/ /\ pasted' \in {pasted, [pasted EXCEPT ![job.at] = @ + 1]}
          /\ mark' = [mark EXCEPT ![job.at] = "ambiguous"] /\ Reply(FALSE)
    /\ UNCHANGED <<runtime, rows, type, last, chain, due, restarts>>

KeySent ==
    /\ job # NULL /\ job.pc = "key"
    /\ \/ /\ mark' = [mark EXCEPT ![job.at] = "delivered"]
          /\ rows' = Without(job.at) /\ Reply(TRUE)
       \/ mark' = [mark EXCEPT ![job.at] = "ambiguous"] /\ Reply(FALSE) /\ UNCHANGED rows
    /\ UNCHANGED <<runtime, type, last, chain, due, pasted, restarts>>

(* The promises and what awaits them go, the table and the journal stay. *)
Restart ==
    /\ Awaiting /\ restarts < MaxQueueCrash /\ restarts' = restarts + 1
    /\ job' = NULL /\ chain' = <<>> /\ tick' = NoTick
    /\ UNCHANGED <<runtime, rows, type, mark, last, due, pasted>>

QueueNext ==
    \/ \E t \in SlotState : SlotEvent(t) \/ StateSubmitted(t)
    \/ DrainAsked \/ CadenceTick \/ ReminderTick \/ TickEnds
    \/ JobStarts \/ DrainReads \/ NextRow \/ CheckLooked \/ MarkRead \/ RowDelivered \/ Sent \/ KeySent
    \/ Restart

QueueSpec == QueueInit /\ [][QueueNext]_queueVars

-----------------------------------------------------------------------------
(* However drains, deliveries, repeated submits and restarts interleave, no *)
(* row reaches the pane twice, and one bucket of the cadence reaches it     *)
(* once and is due only when it did.                                        *)
OccurrenceOnce ==
    /\ \A n \in Stamp : pasted[n] <= 1
    /\ \A m, n \in Stamp : type[m] = "cadence" /\ type[n] = "cadence"
                             /\ pasted[m] + pasted[n] > 1 => m = n
    /\ due => \E n \in Stamp : type[n] = "cadence" /\ pasted[n] = 1

(* A row leaves the table when it was delivered, for a fresher or a more    *)
(* urgent one, or because the job that had it found it out of date: what    *)
(* came during a delivery is not taken away with the delivered one.         *)
RowsKeptStep ==
    \A t \in Types : rows[t] # 0 /\ rows'[t] # rows[t] =>
        \/ mark'[rows[t]] = "delivered" \/ rows'[t] > rows[t]
        \/ t \in SlotState /\ \E u \in SlotState : rows'[u] # 0 /\ Rank[u] < Rank[t]
        \/ t \in {"check", "reminder"} /\ job # NULL /\ job.at = rows[t]
RowsKept == [][RowsKeptStep]_queueVars

(* What the proof of these two carries along.  The jobs that wait are as     *)
(* they were pushed; a job that runs has the row it marked, and at most one *)
(* job is the tick's.                                                       *)
Running == job # NULL
QueuedJob == {Drain} \cup {Deliver(n, TRUE) : n \in Stamp} \cup {Deliver(n, FALSE) : n \in Stamp}
TickJob(j) ==
    /\ tick.heard = "nothing" /\ tick.of \in {"cadence", "reminder"}
    /\ j.at \in 1 .. last /\ type[j.at] = tick.of

QueueShape ==
    /\ last \in 0 .. MaxStamp /\ rows \in [Types -> 0 .. last]
    /\ type \in [Stamp -> Types \cup {NULL}] /\ \A n \in Stamp : n > last => type[n] = NULL
    /\ mark \in [Stamp -> Marks] /\ pasted \in [Stamp -> Nat] /\ due \in BOOLEAN
    /\ tick \in [of : {"none", "cadence", "reminder"}, heard : {"nothing", "ok", "refused"}]
    /\ chain \in Seq(QueuedJob)
    /\ Running =>
         /\ job = [kind |-> job.kind, pc |-> job.pc, left |-> job.left, at |-> job.at,
                   tick |-> job.tick]
         /\ job.kind \in {"drain", "deliver"} /\ job.tick \in BOOLEAN
    /\ \A t \in Types : rows[t] # 0 => type[rows[t]] = t

AttemptsJournalled ==
    /\ \A n \in Stamp : /\ pasted[n] <= 1 /\ (pasted[n] = 1 => Blocking(mark[n]))
                        /\ (mark[n] = "delivered" => pasted[n] = 1)
    /\ Running /\ job.at \in Stamp =>
         /\ job.pc = "send" => (mark[job.at] = "started" /\ pasted[job.at] = 0)
         /\ job.pc = "key" => (mark[job.at] = "started" /\ pasted[job.at] = 1)
         /\ job.pc = "look" => type[job.at] = "check"

OneTickJob ==
    /\ Running /\ job.tick => /\ TickJob(job) /\ job.kind = "deliver" /\ job.pc \in {"deliver", "send", "key"}
                              /\ \A i \in DOMAIN chain : ~chain[i].tick
    /\ \A i \in DOMAIN chain : chain[i].tick =>
         TickJob(chain[i]) /\ \A k \in DOMAIN chain : chain[k].tick => k = i

OneCadenceRow ==
    /\ \A n \in Stamp : type[n] = "cadence" => rows["cadence"] = n \/ mark[n] = "delivered"
    /\ \A m, n \in Stamp : type[m] = "cadence" /\ type[n] = "cadence" => m = n
    /\ due \/ tick = [of |-> "cadence", heard |-> "ok"] =>
         \E n \in Stamp : type[n] = "cadence" /\ mark[n] = "delivered"

QueueInv == QueueShape /\ AttemptsJournalled /\ OneTickJob /\ OneCadenceRow
=============================================================================
