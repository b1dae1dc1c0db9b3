--------------------------- MODULE CapacityAlerts ---------------------------
(* The runner-capacity part of the hourly heartbeat (sakshi-heartbeat.py): it  *)
(* reads the inventory of workflow runs, for each eligible run the jobs of     *)
(* exactly that attempt, and the inventory again, and reports the paid jobs    *)
(* that stay queued without a runner.  GitHub moves between the reads: a job   *)
(* is picked up, a run ends, a run is started again as the next attempt.       *)
(*                                                                             *)
(* Abstracted: a run has one paid job and one classify job; "old" stands for   *)
(* a queue age of at least RUNNER_CAPACITY_ALERT_MIN_QUEUED_SECONDS, measured  *)
(* against the now_utc the heartbeat took when it started.                     *)
EXTENDS Naturals

CONSTANTS CapRuns,      \* workflow runs of the CI and E2E workflows
          MaxAttempts,  \* bound: attempts of a run
          MaxBeats      \* bound: heartbeats

VARIABLES capWorld,  \* run -> its attempt, whether it goes on, and each attempt's jobs
          capFile,   \* the acknowledgement file: kind and keys
          capBeat,   \* the heartbeat under way
          capEnded,  \* ghost: runs that ended while this heartbeat was still reading them
          capCount   \* heartbeats started

capVars == <<capWorld, capFile, capBeat, capEnded, capCount>>

Keys == CapRuns \X (1 .. MaxAttempts)
Paid == {"none", "young", "old", "running", "done"}
NoJobs == [classify |-> FALSE, paid |-> "none"]
Unread == [r \in CapRuns |-> [attempt |-> 0, live |-> FALSE]]
Idle == [pc |-> "idle", old |-> {}, view |-> Unread, todo |-> {},
         jobs |-> [r \in CapRuns |-> NoJobs], prior |-> {}, stateError |-> FALSE,
         error |-> FALSE, alerts |-> {}]

CapTypeOK ==
  /\ \A r \in CapRuns : /\ capWorld[r].attempt \in 1 .. MaxAttempts
                        /\ capWorld[r].live \in BOOLEAN
                        /\ \A a \in 1 .. MaxAttempts : capWorld[r].jobs[a].paid \in Paid
  /\ capFile.kind \in {"missing", "ok", "malformed"} /\ capFile.keys \subseteq Keys
  /\ capBeat.pc \in {"idle", "inventory", "jobs", "again", "report"}
  /\ capBeat.alerts \subseteq Keys

CapInit ==
  /\ capWorld = [r \in CapRuns |-> [attempt |-> 1, live |-> TRUE,
                                    jobs |-> [a \in 1 .. MaxAttempts |-> NoJobs]]]
  /\ capFile \in {[kind |-> "missing", keys |-> {}], [kind |-> "malformed", keys |-> {}]}
                   \cup [kind : {"ok"}, keys : {{<<r, 1>>} : r \in CapRuns}]
  /\ capBeat = Idle /\ capEnded = {} /\ capCount = 0

(* --------------------------- what GitHub does ----------------------------- *)
JobNow(r) == capWorld[r].jobs[capWorld[r].attempt]
SetJob(r, j) == capWorld' = [capWorld EXCEPT ![r].jobs[capWorld[r].attempt] = j]

JobMoves(r) ==
  /\ capWorld[r].live
  /\ \/ ~JobNow(r).classify /\ SetJob(r, [classify |-> TRUE, paid |-> "young"])
     \/ JobNow(r).paid = "young" /\ \E p \in {"old", "running"} : SetJob(r, [JobNow(r) EXCEPT !.paid = p])
     \/ JobNow(r).paid = "old" /\ SetJob(r, [JobNow(r) EXCEPT !.paid = "running"])
  /\ UNCHANGED <<capFile, capBeat, capEnded, capCount>>

RunEnds(r) ==
  /\ capWorld[r].live
  /\ capWorld' = [capWorld EXCEPT ![r].live = FALSE,
                    ![r].jobs[capWorld[r].attempt].paid = "done"]
  /\ capEnded' = IF r \in capBeat.todo THEN capEnded \cup {r} ELSE capEnded
  /\ UNCHANGED <<capFile, capBeat, capCount>>

RunAgain(r) ==
  /\ ~capWorld[r].live /\ capWorld[r].attempt < MaxAttempts
  /\ capWorld' = [capWorld EXCEPT ![r].live = TRUE, ![r].attempt = @ + 1]
  /\ UNCHANGED <<capFile, capBeat, capEnded, capCount>>

(* ------------------------------ the heartbeat ----------------------------- *)
\* main: now_utc is taken once; a job is old against it, however long the reads take.
BeatStart ==
  /\ capBeat.pc = "idle" /\ capCount < MaxBeats
  /\ capCount' = capCount + 1
  /\ capBeat' = [Idle EXCEPT !.pc = "inventory",
                   !.old = {k \in Keys : capWorld[k[1]].jobs[k[2]].paid = "old"}]
  /\ UNCHANGED <<capWorld, capFile, capEnded>>

RunIsNonterminal(v) == v.live
\* No file is an empty history; a malformed one is uncertainty and suppresses all alerts.
StateUnreadable == capFile.kind = "malformed"
\* The acknowledgement file first, then the inventory; the ended set starts here.
ReadInventory ==
  /\ capBeat.pc = "inventory"
  /\ \/ capBeat' = [capBeat EXCEPT !.pc = "report", !.error = TRUE]
     \/ LET view == [r \in CapRuns |-> [attempt |-> capWorld[r].attempt, live |-> capWorld[r].live]]
            some == {r \in CapRuns : RunIsNonterminal(view[r])}
        IN capBeat' = [capBeat EXCEPT
             !.view = view, !.todo = some, !.pc = IF some = {} THEN "report" ELSE "jobs",
             !.prior = capFile.keys, !.stateError = StateUnreadable]
  /\ capEnded' = {}
  /\ UNCHANGED <<capWorld, capFile, capCount>>

Dropped(r, bad) ==
  LET left == capBeat.todo \ {r}
  IN [capBeat EXCEPT !.todo = left, !.error = @ \/ bad, !.pc = IF left = {} THEN "report" ELSE "jobs"]
OneOf(s) == CHOOSE r \in s : TRUE

\* The jobs of the attempt the inventory named, not of the newest one.
ReadJobs ==
  /\ capBeat.pc = "jobs"
  /\ LET r == OneOf(capBeat.todo)
     IN \/ capBeat' = Dropped(r, TRUE)
        \/ capBeat' = [capBeat EXCEPT !.pc = "again",
             !.jobs[r] = capWorld[r].jobs[capBeat.view[r].attempt]]
  /\ UNCHANGED <<capWorld, capFile, capEnded, capCount>>

SameRunIdentity(r) == capWorld[r].attempt = capBeat.view[r].attempt
\* Wrong: any attempt of the run will do.
StillSomeRun(r) == RunIsNonterminal(capWorld[r])
Revalidated(r) == SameRunIdentity(r) /\ RunIsNonterminal(capWorld[r])

\* The inventory again: unreadable, another attempt or a terminal run is an error.
ReadAgain ==
  /\ capBeat.pc = "again"
  /\ LET r == OneOf(capBeat.todo)
     IN \/ capBeat' = Dropped(r, TRUE)
        \/ capBeat' = Dropped(r, ~Revalidated(r))
  /\ UNCHANGED <<capWorld, capFile, capEnded, capCount>>

ClassifyDone(j) == j.classify
IsRunnerlessPaidJob(j) == j.paid \in {"young", "old"}
EvaluateAlerts ==
  {k \in capBeat.old : /\ capBeat.view[k[1]].attempt = k[2]
                       /\ ClassifyDone(capBeat.jobs[k[1]])
                       /\ IsRunnerlessPaidJob(capBeat.jobs[k[1]])}
NewAlerts == IF capBeat.error \/ capBeat.stateError THEN {} ELSE EvaluateAlerts \ capBeat.prior

\* build_report and send_slack: what is new is told.  Nothing writes the
\* acknowledgement file: _persist_runner_capacity_alert_keys has no caller.
Report ==
  /\ capBeat.pc = "report"
  /\ capBeat' = [Idle EXCEPT !.alerts = NewAlerts]
  /\ UNCHANGED <<capWorld, capFile, capEnded, capCount>>

CapNext ==
  \/ \E r \in CapRuns : JobMoves(r) \/ RunEnds(r) \/ RunAgain(r)
  \/ BeatStart \/ ReadInventory \/ ReadJobs \/ ReadAgain \/ Report

CapSpec == CapInit /\ [][CapNext]_capVars

(* ------------------------------- properties ------------------------------- *)
\* An alert names an attempt that went on from the inventory to the second
\* read of it: a run that ended, or went on as another attempt, while it was
\* being read is never told as stalled (collect_runner_capacity_alerts).
AlertsAreCurrent == \A k \in capBeat.alerts : k[1] \notin capEnded

\* The invariant of which it follows: a run that ended while it was being read
\* is an error by now, or is still to be read again, and then will not pass.
EndedIsFound ==
  \A r \in capEnded :
    \/ capBeat.error
    \/ r \in capBeat.todo /\ (~capWorld[r].live \/ capBeat.view[r].attempt < capWorld[r].attempt)

CapShape ==
  /\ capWorld \in [CapRuns -> [attempt : 1 .. MaxAttempts, live : BOOLEAN,
                               jobs : [1 .. MaxAttempts -> [classify : BOOLEAN, paid : Paid]]]]
  /\ capFile \in [kind : {"missing", "ok", "malformed"}, keys : SUBSET Keys]
  /\ capBeat \in [pc : {"idle", "inventory", "jobs", "again", "report"}, old : SUBSET Keys,
                  view : [CapRuns -> [attempt : 0 .. MaxAttempts, live : BOOLEAN]],
                  todo : SUBSET CapRuns, jobs : [CapRuns -> [classify : BOOLEAN, paid : Paid]],
                  prior : SUBSET Keys, stateError : BOOLEAN, error : BOOLEAN, alerts : SUBSET Keys]
  /\ capEnded \subseteq CapRuns

CapInv ==
  /\ CapShape /\ AlertsAreCurrent
  /\ \A r \in CapRuns : capBeat.view[r].attempt <= capWorld[r].attempt
  /\ (capBeat.pc \in {"jobs", "again"}) = (capBeat.todo # {})
  /\ \A r \in capBeat.todo : capBeat.view[r].attempt # 0
  /\ capBeat.pc # "idle" => capBeat.alerts = {}
  /\ capBeat.pc \in {"jobs", "again", "report"} => EndedIsFound
=============================================================================
