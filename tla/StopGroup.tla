----------------------------- MODULE StopGroup -----------------------------
(* hooks/pm-stop-group-runner.py: at each Stop of a PM session the group of  *)
(* validators runs, and what they find blocks the stop. The same finding of  *)
(* the same session is not shown again for a while; what says that the       *)
(* ledger has runnable work, or that a validator failed, always is. A turn   *)
(* longer than an hour is only held to the ledger. A hook over its ten       *)
(* seconds is killed, and a message over its length is cut.                  *)
EXTENDS Integers, FiniteSets

CONSTANTS
    Session, Hook,      \* PM sessions; hook processes that may run at once
    Finding,            \* what the ordinary validators find
    Grace,              \* PM_STOP_FINDING_COOLDOWN_SECONDS
    LongTurn,           \* PM_STOP_MAX_TURN_SECONDS
    MaxStopTime, MaxStops

VARIABLES
    now, turnStart,     \* the clock; when the real user turn of a session began
    standing,           \* what the validators find now, per session
    drain,              \* the ledger has runnable obligations
    cooldown,           \* the state file: when a finding was recorded, or NeverShown
    broken,             \* the file cannot be read
    hooks,              \* the running hooks
    shown,              \* when a finding last blocked a stop (history)
    lost,               \* when it was last to be shown, and was not (history)
    verdicts,           \* how the last stop of each session ended (history)
    stops

stopVars == <<now, turnStart, standing, drain, cooldown, broken, hooks, shown, lost, verdicts, stops>>

NeverShown == -1
Hard == {"drain", "failed"}     \* NON_COOLDOWN_FINDING_PREFIXES
Idle == [pc |-> "off", session |-> CHOOSE s \in Session : TRUE, long |-> FALSE,
         found |-> {}, surfaced |-> {}]
NoVerdict == [blocked |-> FALSE, found |-> {}, shown |-> {}]

Put(h, rec) == hooks' = [hooks EXCEPT ![h] = rec]

\* long_turn_bypass
LongTurnPassed(s) == now - turnStart[s] > LongTurn

\* main: the payload
Stop(h) == \E s \in Session :
    /\ hooks[h].pc = "off" /\ stops < MaxStops /\ stops' = stops + 1
    /\ \A g \in Hook : hooks[g].pc # "off" => hooks[g].session # s
    /\ Put(h, [Idle EXCEPT !.pc = "run", !.session = s, !.long = LongTurnPassed(s)])
    /\ UNCHANGED <<now, turnStart, standing, drain, cooldown, broken, shown, lost, verdicts>>

\* run_child and output_reasons: the ledger child of a failure says nothing, any
\* other child that fails or times out blocks
RunChildren(h) ==
    /\ hooks[h].pc = "run"
    /\ \E ledgerFails, otherFails \in BOOLEAN :
         Put(h, [hooks[h] EXCEPT !.pc = "cooldown",
                    !.found = (IF drain /\ ~ledgerFails THEN {"drain"} ELSE {})
                              \cup (IF hooks[h].long THEN {}
                                    ELSE standing[hooks[h].session]
                                           \cup IF otherFails THEN {"failed"} ELSE {})])
    /\ UNCHANGED <<now, turnStart, standing, drain, cooldown, broken, shown, lost, verdicts, stops>>

\* apply_finding_cooldown, under the lock of the file
Retention == IF 4 * Grace > LongTurn THEN 4 * Grace ELSE LongTurn
Retained(s, f) == cooldown[s][f] # NeverShown /\ now - cooldown[s][f] <= Retention
(* Wrong: the fingerprint does not name the session.                        *)
CoolingForSomeone(s, f) == \E t \in Session : Retained(t, f) /\ now - cooldown[t][f] < Grace
Cooling(s, f) == Retained(s, f) /\ now - cooldown[s][f] < Grace

ApplyCooldown(h) ==
    LET s == hooks[h].session
        candidates == hooks[h].found \ Hard
        fresh == {f \in candidates : ~Cooling(s, f)}
    IN  /\ hooks[h].pc = "cooldown"
        /\ IF broken \/ candidates = {}
           THEN /\ Put(h, [hooks[h] EXCEPT !.pc = "print", !.surfaced = hooks[h].found])
                /\ UNCHANGED cooldown
           ELSE /\ Put(h, [hooks[h] EXCEPT !.pc = "print",
                               !.surfaced = (hooks[h].found \cap Hard) \cup fresh])
                /\ cooldown' = [t \in Session |-> [f \in Finding |->
                       IF t = s /\ f \in fresh THEN now
                       ELSE IF Retained(t, f) THEN cooldown[t][f] ELSE NeverShown]]
        /\ UNCHANGED <<now, turnStart, standing, drain, broken, shown, lost, verdicts, stops>>

\* A message over its length loses reasons, though never all of them; in which
\* order they stand is left out.
Answer(h) == \E cut \in SUBSET hooks[h].surfaced :
    LET s == hooks[h].session
        given == hooks[h].surfaced \ cut
    IN  /\ hooks[h].pc = "print" /\ (cut # {} => given # {})
        /\ verdicts' = [verdicts EXCEPT ![s] = [blocked |-> given # {}, found |-> hooks[h].found,
                                                shown |-> given]]
        /\ shown' = [shown EXCEPT ![s] = [f \in Finding |-> IF f \in given THEN now ELSE @[f]]]
        /\ lost' = [lost EXCEPT ![s] = [f \in Finding |-> IF f \in cut THEN now ELSE @[f]]]
        /\ Put(h, Idle)
        /\ UNCHANGED <<now, turnStart, standing, drain, cooldown, broken, stops>>

\* The stop goes through; what the hook had recorded as shown was not.
Killed(h) ==
    LET s == hooks[h].session
    IN  /\ hooks[h].pc # "off" /\ Put(h, Idle)
        /\ lost' = [lost EXCEPT ![s] = [f \in Finding |->
                        IF f \in hooks[h].surfaced THEN now ELSE @[f]]]
        /\ verdicts' = [verdicts EXCEPT ![s] = NoVerdict]
        /\ UNCHANGED <<now, turnStart, standing, drain, cooldown, broken, shown, stops>>

-----------------------------------------------------------------------------
\* the clock (a hook is short beside it), a prompt of the user, the world
Advance ==
    /\ now < MaxStopTime /\ \A h \in Hook : hooks[h].pc = "off"
    /\ now' = now + 1
    /\ \/ UNCHANGED turnStart
       \/ \E s \in Session : turnStart' = [turnStart EXCEPT ![s] = now + 1]
    /\ verdicts' = [s \in Session |-> NoVerdict]
    /\ \/ UNCHANGED <<standing, drain, broken>>
       \/ drain' = ~drain /\ UNCHANGED <<standing, broken>>
       \/ broken' = ~broken /\ UNCHANGED <<standing, drain>>
       \/ \E s \in Session, f \in Finding :
            /\ standing' = [standing EXCEPT ![s] = IF f \in @ THEN @ \ {f} ELSE @ \cup {f}]
            /\ UNCHANGED <<drain, broken>>
    /\ UNCHANGED <<cooldown, hooks, shown, lost, stops>>

StopInit ==
    /\ now = 0 /\ turnStart = [s \in Session |-> 0]
    /\ standing \in [Session -> SUBSET Finding] /\ drain = FALSE /\ broken = FALSE
    /\ cooldown = [s \in Session |-> [f \in Finding |-> NeverShown]]
    /\ shown = cooldown /\ lost = cooldown /\ hooks = [h \in Hook |-> Idle]
    /\ verdicts = [s \in Session |-> NoVerdict] /\ stops = 0

StopNext ==
    \/ Advance
    \/ \E h \in Hook : Stop(h) \/ RunChildren(h) \/ ApplyCooldown(h) \/ Answer(h) \/ Killed(h)

StopSpec == StopInit /\ [][StopNext]_stopVars

-----------------------------------------------------------------------------
StopTypeOK ==
    /\ now \in 0 .. MaxStopTime /\ \A s \in Session : standing[s] \subseteq Finding
    /\ \A h \in Hook : hooks[h].found \subseteq Finding \cup Hard

Lately(when) == when # NeverShown /\ (when = now \/ now - when < Grace)

\* A finding that does not block the stop of its session did block one less
\* than the grace ago, or was lost then or now with a hook killed or a message cut
\* before it could; and while one of those exempt from it stands, every stop
\* that is answered is blocked.
SuppressedWasShown ==
    \A s \in Session :
        /\ verdicts[s].found \cap Hard # {} => verdicts[s].blocked
        /\ \A f \in verdicts[s].found \ (verdicts[s].shown \cup Hard) :
              Lately(shown[s][f]) \/ Lately(lost[s][f])

\* The invariant of which it follows.  What is on record in the file was shown
\* or lost since, or is about to be: its hook waits to print it.
Running(h) == hooks[h].pc # "off"
Printing(s, f) == \E h \in Hook :
    hooks[h].pc = "print" /\ hooks[h].session = s /\ f \in hooks[h].surfaced

OnePerSession == \A g, h \in Hook :
    Running(g) /\ Running(h) /\ hooks[g].session = hooks[h].session => g = h

Since(when, record) == when # NeverShown /\ record <= when

RecordedWasShown == \A s \in Session, f \in Finding :
    /\ shown[s][f] <= now /\ lost[s][f] <= now /\ cooldown[s][f] <= now
    /\ cooldown[s][f] # NeverShown =>
          \/ Since(shown[s][f], cooldown[s][f]) \/ Since(lost[s][f], cooldown[s][f])
          \/ Printing(s, f)

Told(found, given, s) ==
    \A f \in found \ (given \cup Hard) : Lately(shown[s][f]) \/ Lately(lost[s][f])

StopShape ==
    /\ now \in 0 .. MaxStopTime /\ standing \in [Session -> SUBSET Finding]
    /\ cooldown \in [Session -> [Finding -> Int]] /\ shown \in [Session -> [Finding -> Int]]
    /\ lost \in [Session -> [Finding -> Int]]
    /\ hooks \in [Hook -> [pc : {"off", "run", "cooldown", "print"}, session : Session, long : BOOLEAN,
                          found : SUBSET (Finding \cup Hard), surfaced : SUBSET (Finding \cup Hard)]]
    /\ verdicts \in [Session -> [blocked : BOOLEAN, found : SUBSET (Finding \cup Hard),
                                 shown : SUBSET (Finding \cup Hard)]]

StopInv ==
    /\ StopShape /\ OnePerSession /\ RecordedWasShown
    /\ \A h \in Hook : hooks[h].pc = "print" =>
          /\ hooks[h].found \cap Hard \subseteq hooks[h].surfaced
          /\ Told(hooks[h].found, hooks[h].surfaced, hooks[h].session)
    /\ SuppressedWasShown
=============================================================================
