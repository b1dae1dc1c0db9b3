----------------------------- MODULE SessionAge -----------------------------
(* How old is the session of a pane, and is it due to be cleared?  The         *)
(* heartbeat (sakshi-heartbeat.py) answers through runtime_observation.py: it  *)
(* reads the slots and the clear events of MoP, the command of the pane, the   *)
(* prefix and tail of its transcripts, and then the chosen transcript in full. *)
(* The pane works, is cleared and changes transcript between those reads.      *)
(*                                                                             *)
(* Time is in units of 90 minutes: 2 is the activity window and the clear      *)
(* threshold of three hours.  A transcript is its first and last record and,   *)
(* for OMP, the start of an unfinished tool.                                   *)
EXTENDS Naturals

CONSTANTS SaPanes,   \* panes: is it the PM's, and what its command resolves to
          SaMaxTime  \* bound: time

VARIABLES saNow,
          saPane,    \* the pane that is observed
          saTx,      \* transcript -> start, last (0: not there) and tool (0: none)
          saRow,     \* MoP's row: occupied, turn
          saClear,   \* time of the newest successful clear event, 0 none
          saEye      \* the observation under way

saVars == <<saNow, saPane, saTx, saRow, saClear, saEye>>

Fresh == 2
Threshold == 2
Tx == {1, 2}
Absent == [start |-> 0, last |-> 0, tool |-> 0]
NoEye == [pc |-> "idle", row |-> [occupied |-> FALSE, turn |-> FALSE], clear |-> 0, at |-> 0,
          chosen |-> 0, due |-> FALSE, told |-> FALSE, active |-> TRUE, latest |-> 0]
There == {t \in Tx : saTx[t].start # 0}
Later(a, b) == IF a >= b THEN a ELSE b

SessionTypeOK ==
  /\ saNow \in 1 .. SaMaxTime /\ saPane \in SaPanes
  /\ \A t \in Tx : saTx[t].start <= saTx[t].last /\ saTx[t].last <= saNow /\ saTx[t].tool <= saNow
  /\ saClear <= saNow /\ saEye.pc \in {"idle", "pane", "full", "done"} /\ saEye.chosen \in {0} \cup Tx

SessionInit ==
  /\ saNow = 1 /\ saPane \in SaPanes
  /\ saTx = [t \in Tx |-> IF t = 1 THEN [start |-> 1, last |-> 1, tool |-> 0] ELSE Absent]
  /\ saRow \in [occupied : BOOLEAN, turn : {FALSE}]
  /\ saClear = 0 /\ saEye = NoEye

(* --------------------------- the pane and MoP ----------------------------- *)
Rest == <<saPane, saEye>>
Tick == saNow < SaMaxTime /\ saNow' = saNow + 1 /\ UNCHANGED <<saTx, saRow, saClear, Rest>>
\* A record is written; a transcript that is not there begins (a cleared or a new session).
Works(t) ==
  /\ saTx' = [saTx EXCEPT ![t] = [start |-> IF @.start = 0 THEN saNow ELSE @.start,
                                  last |-> saNow, tool |-> @.tool]]
  /\ UNCHANGED <<saNow, saRow, saClear, Rest>>
Tool(t) ==
  /\ t \in There /\ saPane.source = "omp"
  /\ saTx' = [saTx EXCEPT ![t].tool = IF @ = 0 THEN saNow ELSE 0, ![t].last = saNow]
  /\ UNCHANGED <<saNow, saRow, saClear, Rest>>
Turn == saRow' = [saRow EXCEPT !.turn = ~@] /\ UNCHANGED <<saNow, saTx, saClear, Rest>>
\* The first successful clear; more of them only move its time.
Cleared == saClear = 0 /\ saClear' = saNow /\ UNCHANGED <<saNow, saTx, saRow, Rest>>

(* ------------------------- runtime_observation.py ------------------------- *)
\* The heartbeat reads MoP (slots and clear events) first, and takes its now.
ReadMoP ==
  /\ saEye.pc = "idle"
  /\ \/ saEye' = [NoEye EXCEPT !.pc = "pane", !.row = saRow, !.clear = saClear, !.at = saNow]
     \/ saEye' = [NoEye EXCEPT !.pc = "pane", !.at = saNow]
  /\ UNCHANGED <<saNow, saPane, saTx, saRow, saClear>>

Quiet(t, at) == saTx[t].last = saTx[t].start \/ at - saTx[t].last > Fresh
Unique(s) == IF \E t \in s : s = {t} THEN CHOOSE t \in s : TRUE ELSE 0
\* latest_claude_session: the newest activity of those that are active, or else
\* the newest start; a tie is nobody.  Bootstrap records alone are no activity.
ClaudeChoice(at) ==
  LET active == {t \in There : ~Quiet(t, at)}
  IN IF active # {} THEN Unique({t \in active : \A u \in active : saTx[u].last <= saTx[t].last})
     ELSE Unique({t \in There : \A u \in There : saTx[u].start <= saTx[t].start})
\* latest_omp_session: newest start, then mtime.
OmpChoice ==
  IF There = {} THEN 0
  ELSE CHOOSE t \in There : \A u \in There :
         saTx[u].start < saTx[t].start \/ (saTx[u].start = saTx[t].start /\ (saTx[u].last <= saTx[t].last))

\* The pane is identified and the transcript selected by its prefix and tail.
ReadPane ==
  /\ saEye.pc = "pane"
  /\ LET t == CASE saPane.source = "omp" -> OmpChoice [] saPane.source = "claude" -> ClaudeChoice(saEye.at) [] OTHER -> 0
     IN saEye' = [saEye EXCEPT !.pc = "full", !.chosen = t]
  /\ UNCHANGED <<saNow, saPane, saTx, saRow, saClear>>

Since(at, x) == IF at >= x THEN at - x ELSE 0  \* a record may be newer than now_utc
\* _active_omp_evidence for OMP; for Claude a record in the window is activity.
ActiveEvidence(t, at) ==
  /\ t # 0
  /\ CASE saPane.source = "omp" -> /\ saTx[t].tool # 0 /\ saTx[t].tool >= saTx[t].start
                              /\ Since(at, saTx[t].tool) <= Fresh
       [] OTHER -> Since(at, saTx[t].last) <= Fresh

\* mark_recent_clear_requests and build_report: only the PM's row becomes an action
\* line, and none after a clear of the last four hours; the age of a numbered slot
\* is shown and nothing else (apply_clear_policy).
RecentlyCleared(eye) == eye.clear # 0 /\ Since(eye.at, eye.clear) < 3
Directive(eye, due) == due /\ saPane.pm /\ ~RecentlyCleared(eye)

ClearDueFor(effective, active, idle, row, at) ==
  /\ effective # 0 /\ active = "no"
  /\ saPane.pm \/ (row.occupied /\ idle)
  /\ Since(at, effective) >= Threshold

\* observe_slot: full parse of the chosen transcript and the verdict.  Without
\* a session an OMP or unknown pane is neither active nor idle; a Claude pane is
\* what MoP's row says.
Observe ==
  /\ saEye.pc = "full"
  /\ LET t == saEye.chosen
         row == saEye.row
         boundary == IF t = 0 THEN 0 ELSE IF saPane.source = "claude" THEN saTx[t].start ELSE saTx[t].last
         evidence == ActiveEvidence(t, saEye.at)
         busy == IF ~row.occupied /\ ~evidence THEN FALSE ELSE row.turn \/ evidence
         known == t # 0 \/ saPane.source = "claude"
         active == IF ~known THEN "unknown" ELSE IF busy THEN "yes" ELSE "no"
         due == ClearDueFor(Later(boundary, saEye.clear), active, ~busy, row, saEye.at)
     IN saEye' = [saEye EXCEPT !.pc = "done", !.due = due, !.told = Directive(saEye, due), !.active = busy,
                    !.latest = IF t = 0 THEN 0 ELSE saTx[t].last]
  /\ UNCHANGED <<saNow, saPane, saTx, saRow, saClear>>

Forget == /\ saEye.pc = "done" /\ saEye' = NoEye
          /\ UNCHANGED <<saNow, saPane, saTx, saRow, saClear>>

SessionNext ==
  \/ Tick \/ Turn \/ Cleared \/ \E t \in Tx : Works(t) \/ Tool(t)
  \/ ReadMoP \/ ReadPane \/ Observe \/ Forget
SessionSpec == SessionInit /\ [][SessionNext]_saVars

(* ------------------------------- properties ------------------------------- *)
\* A pane is never due while the transcript it was bound to was written in the
\* last three hours, or before three hours have passed since its last clear:
\* the age of a Claude session that works, or was just cleared, never clears it.
DueMeansQuiet ==
  saEye.pc = "done" /\ saEye.due =>
    /\ saEye.clear = 0 \/ saEye.at - saEye.clear >= Threshold
    /\ saPane.source = "claude" /\ saEye.chosen # 0 => saEye.latest + Fresh < saEye.at
    /\ IF saPane.pm THEN saEye.told => saEye.at - saEye.clear > Threshold
       ELSE saEye.row.occupied /\ ~saEye.row.turn /\ ~saEye.told

\* With the types its steps count on.
AgeInv ==
  /\ SessionTypeOK /\ DueMeansQuiet
  /\ saTx \in [Tx -> [start : Nat, last : Nat, tool : Nat]] /\ saClear \in Nat
  /\ saRow \in [occupied : BOOLEAN, turn : BOOLEAN]
  /\ saEye \in [pc : {"idle", "pane", "full", "done"}, row : [occupied : BOOLEAN, turn : BOOLEAN],
                clear : Nat, at : Nat, chosen : {0} \cup Tx, due : BOOLEAN, told : BOOLEAN,
                active : BOOLEAN, latest : Nat]
=============================================================================
