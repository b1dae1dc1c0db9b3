--------------------------- MODULE CleanupStreaks ---------------------------
(***************************************************************************)
(* The parts of `stale-process-cleanup.py` that remember: replayd and the  *)
(* Codex renderers are ended after consecutive apply runs that find them   *)
(* hot; the counts live in the history file, keyed by pid and start.  One  *)
(* instance follows one of the two.  Runs may only scan, may fail to read  *)
(* the process table, and may die before they save.                        *)
(***************************************************************************)
EXTENDS Naturals, Sequences

CONSTANTS MaxRuns,      \* bound: passes of the script
          Enough        \* CODEX_RENDERER_STREAK and REPLAYD_STREAK_RESTART

VARIABLES
    watch,      \* replayd, or a renderer
    start,      \* the incarnation that holds the pid now
    hot,        \* above the CPU threshold, and for a renderer old enough
    saved,      \* the history file: the incarnation and its streak
    loaded,     \* what a pass read and counts on
    upc,        \* idle, read, start (replayd's second read), act, killing, save
    apply,
    seen,       \* what the saved apply passes saw, oldest first
    now,        \* what this pass saw: the key it counts under, whose CPU it read
    shot,       \* the incarnation the last look before the signal found, or 0
    runs

streakVars == <<watch, start, hot, saved, loaded, upc, apply, seen, now, shot, runs>>

(* Key 0 is that of a pid whose start could not be read, "<pid>:None".      *)
Entry == [key : 0 .. MaxRuns, streak : 0 .. Enough]
None == [key |-> 0, streak |-> 0]
Sight == [key : 0 .. MaxRuns, of : 0 .. MaxRuns, hot : BOOLEAN]
Nothing == [key |-> 0, of |-> 0, hot |-> FALSE]

StreakTypeOK ==
    /\ watch \in {"replayd", "renderer"}
    /\ start \in 1 .. MaxRuns /\ hot \in BOOLEAN
    /\ saved \in Entry /\ loaded \in Entry
    /\ upc \in {"idle", "read", "start", "act", "killing", "save"} /\ apply \in BOOLEAN
    /\ seen \in Seq(Sight) /\ now \in Sight
    /\ shot \in 0 .. MaxRuns /\ runs \in 0 .. MaxRuns

StreakInit ==
    /\ watch \in {"replayd", "renderer"} /\ start = 1 /\ hot \in BOOLEAN
    /\ saved = None /\ loaded = None /\ upc = "idle" /\ apply = FALSE
    /\ seen = <<>> /\ now = Nothing /\ shot = 0 /\ runs = 0

Begin ==
    /\ upc = "idle" /\ runs < MaxRuns /\ runs' = runs + 1
    /\ apply' \in BOOLEAN
    /\ loaded' \in {saved, None}    \* an unreadable history is an empty one
    /\ upc' = "read"
    /\ UNCHANGED <<watch, start, hot, saved, seen, now, shot>>

(* Wrong: the count goes with the pid, not the incarnation.                 *)
StreakOfThePid(key) == loaded.streak

Streak(key) == IF loaded.key = key THEN loaded.streak ELSE 0
AtMost(n) == IF n > Enough THEN Enough ELSE n

(* A process table that cannot be read, or without the process, forgets.    *)
ReadNothing ==
    /\ upc = "read" /\ upc' = "act"
    /\ now' = Nothing /\ loaded' = None
    /\ UNCHANGED <<watch, start, hot, saved, apply, seen, shot, runs>>

(* A renderer's pid, start and CPU come from one reading; one that is not   *)
(* hot is not tracked.                                                      *)
ReadRenderer ==
    /\ watch = "renderer" /\ upc = "read" /\ upc' = "act"
    /\ now' = [key |-> start, of |-> start, hot |-> hot]
    /\ loaded' = IF hot THEN [key |-> start, streak |-> AtMost(Streak(start) + 1)]
                        ELSE None
    /\ UNCHANGED <<watch, start, hot, saved, apply, seen, shot, runs>>

(* replayd's pid and CPU first, then in a second call the start of the pid, *)
(* which may be another's by then, or unreadable; a scan counts nothing.    *)
ReadCpu ==
    /\ watch = "replayd" /\ upc = "read" /\ upc' = "start"
    /\ now' = [key |-> 0, of |-> start, hot |-> hot]
    /\ UNCHANGED <<watch, start, hot, saved, loaded, apply, seen, shot, runs>>

ReadStart ==
    /\ upc = "start" /\ upc' = "act"
    /\ \E key \in {start, 0} :
          /\ now' = [now EXCEPT !.key = key]
          /\ loaded' = IF ~apply THEN loaded
                       ELSE [key |-> key,
                             streak |-> IF now.hot THEN AtMost(Streak(key) + 1) ELSE 0]
    /\ UNCHANGED <<watch, start, hot, saved, apply, seen, shot, runs>>

(* The last look before the signal.  A renderer must be the one counted and *)
(* still hot, and one that is not is forgotten; replayd must only still     *)
(* have the start that was counted, and keeps its count when it has not.    *)
(* The look may fail, and so may its reading of the start.                  *)
Due == apply /\ loaded.streak = Enough

Look ==
    /\ upc = "act" /\ Due
    /\ loaded.key \in (IF watch = "replayd" THEN {start, 0} ELSE {start})
    /\ watch = "replayd" \/ hot
    /\ upc' = "killing" /\ shot' = start
    /\ UNCHANGED <<watch, start, hot, saved, loaded, apply, seen, now, runs>>

(* Also a look that fails, and a renderer beyond the kills of one pass.     *)
Refuse ==
    /\ upc = "act" /\ upc' = "save"
    /\ loaded' \in IF Due /\ watch = "renderer" THEN {loaded, None} ELSE {loaded}
    /\ UNCHANGED <<watch, start, hot, saved, apply, seen, now, shot, runs>>

(* It obeys; or it was gone, is another by now, or resists.                 *)
End ==
    /\ upc = "killing" /\ upc' = "save" /\ shot' = 0
    /\ \/ start = shot /\ start < MaxRuns /\ start' = start + 1 /\ loaded' = None
       \/ /\ UNCHANGED start
          /\ loaded' \in IF watch = "replayd" \/ start # shot THEN {loaded, None}
                                                           ELSE {loaded}
    /\ UNCHANGED <<watch, hot, saved, apply, seen, now, runs>>

(* A write that fails is passed over. *)
Save ==
    /\ upc = "save" /\ upc' = "idle"
    /\ \/ apply /\ saved' = loaded /\ seen' = Append(seen, now)
       \/ UNCHANGED <<saved, seen>>
    /\ UNCHANGED <<watch, start, hot, loaded, apply, now, shot, runs>>

(* A pass that dies leaves the history as it was. *)
Dies ==
    /\ upc # "idle" /\ upc' = "idle" /\ shot' = 0
    /\ UNCHANGED <<watch, start, hot, saved, loaded, apply, seen, now, runs>>

Heats ==
    /\ hot' = ~hot
    /\ UNCHANGED <<watch, start, saved, loaded, upc, apply, seen, now, shot, runs>>
Restarts ==
    /\ start < MaxRuns /\ start' = start + 1 /\ hot' \in BOOLEAN
    /\ UNCHANGED <<watch, saved, loaded, upc, apply, seen, now, shot, runs>>

StreakNext ==
    \/ Begin \/ ReadNothing \/ ReadRenderer \/ ReadCpu \/ ReadStart
    \/ Look \/ Refuse \/ End \/ Save \/ Dies \/ Heats \/ Restarts
StreakSpec == StreakInit /\ [][StreakNext]_streakVars

----------------------------------------------------------------------------
(* Properties.                                                             *)

(* Who is ended was hot in this pass and in the saved apply passes just     *)
(* before it, as the same incarnation: a restart, a cool pass, a dry run or *)
(* an unreadable table never adds to the count.  Two things replayd alone   *)
(* may have: the CPU its oldest pass read may be that of the incarnation    *)
(* before; and passes that none of them could read a start count together.  *)
HotSight(s, key, oldest) ==
    /\ s.hot /\ s.key = key
    /\ key # 0 /\ (watch = "renderer" \/ ~oldest) => s.of = key

EndedAfterStreak ==
    shot # 0 =>
        \E key \in IF watch = "replayd" THEN {shot, 0} ELSE {shot} :
            /\ HotSight(now, key, FALSE)
            /\ Len(seen) >= Enough - 1
            /\ \A i \in 1 .. Enough - 1 :
                  HotSight(seen[Len(seen) + 1 - i], key, i = Enough - 1)

(* The invariant of which it follows: the count of an entry is the number  *)
(* of the last sights that saw its incarnation hot, of those in the        *)
(* history alone, or of those and the present one.                         *)
Recalls(e, n) ==
    /\ n <= Len(seen)
    /\ \A i \in 1 .. n : HotSight(seen[Len(seen) + 1 - i], e.key, i = n)

Counts(e) ==
    e.streak > 0 => HotSight(now, e.key, e.streak = 1) /\ Recalls(e, e.streak - 1)

StreakInv ==
    /\ StreakTypeOK
    /\ saved.key <= start /\ loaded.key <= start /\ now.of <= start
    /\ Recalls(saved, saved.streak)
    /\ upc \in {"read", "start"} => Recalls(loaded, loaded.streak)
    /\ upc = "start" => watch = "replayd" /\ now.of # 0 /\ loaded.key <= now.of
    /\ upc \in {"act", "killing", "save"} /\ apply => Counts(loaded)
    /\ upc = "killing" =>
          Due /\ loaded.key \in IF watch = "replayd" THEN {shot, 0} ELSE {shot}
    /\ upc # "killing" => shot = 0

=============================================================================
