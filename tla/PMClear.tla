------------------------------ MODULE PMClear ------------------------------
(***************************************************************************)
(* Clearing the project manager's pane. A clear that is due only opens an  *)
(* obligation to save the handoff (pmHandoffClear.ts). The next Stop hook  *)
(* after the save arms a durable latch (pmClearLatch.ts) and writes /clear *)
(* through the pane's one fenced writer (relay.ts); a Stop hook with a     *)
(* deferred latch tries again. The write counts once the pane's            *)
(* SessionStart says "clear".                                              *)
(*                                                                         *)
(* Several hooks are handled at once, the writer answers over HTTP, and    *)
(* the server may die at any point. The database outlives it; gen, the     *)
(* handlers and the writes do not. Requests and clears are numbered in     *)
(* their order, which their timestamps give in the code.                   *)
(*                                                                         *)
(* The exit of the pane that pmHandoffExit.ts puts before a clear appears  *)
(* as a Stop that leaves the clear alone. What the pane shows is chosen.   *)
(***************************************************************************)
EXTENDS Naturals, FiniteSets

CONSTANTS Stop,          \* Stop hooks that may be handled at once
          MaxAttempts,   \* PM_HANDOFF_MAX_RECONCILE_ATTEMPTS
          MaxRequest, MaxGen, MaxBoot, MaxCrash    \* for model checking

ASSUME PMClearBounds ==
    /\ MaxAttempts \in Nat /\ MaxRequest \in Nat \ {0}
    /\ MaxGen \in Nat /\ MaxBoot \in Nat \ {0} /\ MaxCrash \in Nat

VARIABLES
    handoff,    \* pm_handoff_*: the request that waits for a save
    asked,      \* how many requests there have been
    upserting,  \* requests whose obligation is being written
    saved,      \* both handoff files are newer than the waiting request
    latch,      \* clear_pending_0, pm_clear_requested_at, delivery state
    aged,       \* the fail-open bound has passed since the last attempt
    failOpen,   \* pm_clear_failopen_session
    gen,        \* pmClearDrainGeneration
    boot,       \* the latest SessionStart event
    session,    \* the session it belongs to
    stop,       \* the Stop handlers
    write,      \* the write of each clear
    effects,    \* history: what each clear has done to the pane
    crashes

vars == <<handoff, asked, upserting, saved, latch, aged, failOpen, gen, boot,
          session, stop, write, effects, crashes>>

Request == 1 .. MaxRequest

Clear == Request    \* a request arms at most one clear

(* With its obligation's row in the operations ledger. The rows of earlier *)
(* requests are closed by their own keys and ids, and nothing reads them.  *)
NoHandoff == [req |-> 0, session |-> 0, obl |-> "uncertain", attempts |-> 0,
              row |-> "absent"]

IdleStop == [pc |-> "idle", gen |-> 0, boot |-> 0, session |-> 0, stale |-> FALSE]

NoWrite == [pc |-> "none", gen |-> 0, boot |-> 0, stale |-> FALSE,
            reply |-> "unknown", awaited |-> FALSE]

Init ==
    /\ handoff = NoHandoff
    /\ asked = 0
    /\ upserting = {}
    /\ saved = FALSE
    /\ latch = [pending |-> FALSE, at |-> 0, state |-> "none"]
    /\ aged = FALSE
    /\ failOpen = 0
    /\ gen = 0
    /\ boot = 1
    /\ session = 1
    /\ stop = [h \in Stop |-> IdleStop]
    /\ write = [c \in Clear |-> NoWrite]
    /\ effects = [c \in Clear |-> [pastes |-> 0, stale |-> FALSE]]
    /\ crashes = 0

-----------------------------------------------------------------------------
(* The saved handoff.                                                      *)

ledgerVars == <<asked, upserting>>

latchVars == <<latch, aged, failOpen>>

hookVars == <<gen, boot, session>>

paneVars == <<effects, crashes>>

(* While a writer of the row is active an empty lookup proves nothing.     *)
Reconciles ==
    /\ handoff.req \notin {0} \cup upserting
    /\ handoff.obl # "created"

(* What the keyed lookup answers; "unknown" is an unreadable ledger.       *)
Lookups ==
    IF ~Reconciles THEN {"unknown"}
    ELSE {"unknown", IF handoff.row # "absent" THEN "found" ELSE "absent"}

Reconciled(lookup) ==
    IF ~Reconciles THEN handoff
    ELSE IF lookup = "found" THEN [handoff EXCEPT !.obl = "created", !.attempts = @ + 1]
    ELSE IF handoff.attempts >= MaxAttempts THEN NoHandoff
    ELSE [handoff EXCEPT !.attempts = @ + 1]

(* A row proven absent is written once more.                               *)
Rewritten(lookup) ==
    IF Reconciles /\ lookup = "absent" /\ handoff.attempts < MaxAttempts
    THEN {handoff.req} ELSE {}

(* requestPmHandoffClear, and the caller's reset for an operator: the      *)
(* requests of the session-age policy are automatic and reset nothing.     *)
RequestClear(automatic, replace, lookup) ==
    LET latched == IF replace THEN [latch EXCEPT !.pending = FALSE] ELSE latch
        kept    == IF replace THEN NoHandoff ELSE Reconciled(lookup)
    IN  /\ automatic => ~replace /\ failOpen # session
        /\ latch' = latched
        /\ IF kept.req # 0
           THEN /\ handoff' = kept
                /\ upserting' = upserting \cup Rewritten(lookup)
                /\ UNCHANGED <<asked, saved>>
           ELSE /\ asked < MaxRequest
                /\ asked' = asked + 1
                /\ handoff' = [NoHandoff EXCEPT !.req = asked', !.session = session]
                /\ upserting' = upserting \cup {asked'}
                /\ saved' = FALSE
        /\ UNCHANGED <<aged, failOpen, hookVars, stop, write, paneVars>>

(* Wrong: an id that comes too late is recorded with the request of the    *)
(* moment.                                                                 *)
UpsertedLate(r, written, acked) ==
    /\ r \in upserting
    /\ acked => written
    /\ upserting' = upserting \ {r}
    /\ handoff' = IF handoff.req = 0 \/ (handoff.req # r /\ ~acked) THEN handoff
                  ELSE [handoff EXCEPT !.obl = IF acked THEN "created" ELSE "uncertain",
                                       !.row = IF handoff.req = r /\ written THEN "open" ELSE @]
    /\ UNCHANGED <<asked, saved, latchVars, hookVars, stop, write, paneVars>>

(* The upsert returns: written and acknowledged, written and not           *)
(* acknowledged, or not written. An id that comes too late is dropped, and *)
(* its row resolved.                                                       *)
Upserted(r, written, acked) ==
    /\ r \in upserting
    /\ acked => written
    /\ upserting' = upserting \ {r}
    /\ handoff' = IF handoff.req # r THEN handoff
                  ELSE [handoff EXCEPT !.obl = IF acked THEN "created" ELSE "uncertain",
                                       !.row = IF written THEN "open" ELSE @]
    /\ UNCHANGED <<asked, saved, latchVars, hookVars, stop, write, paneVars>>

(* The manager saves both files, or closes the obligation by hand.         *)
SaveHandoff ==
    /\ handoff.req # 0 /\ ~saved
    /\ saved' = TRUE
    /\ UNCHANGED <<handoff, ledgerVars, latchVars, hookVars, stop, write, paneVars>>

ResolveByHand ==
    /\ handoff.req # 0 /\ handoff.row = "open"
    /\ handoff' = [handoff EXCEPT !.row = "resolved"]
    /\ UNCHANGED <<ledgerVars, saved, latchVars, hookVars, stop, write, paneVars>>

-----------------------------------------------------------------------------
(* A Stop hook, in three steps: registerPMSoftBoundary pins the generation *)
(* and the boot at its entry, reads the body and looks at the handoff and  *)
(* the latch; HookProcessor then handles the Stop itself.                  *)

Undelivered == latch.pending /\ latch.state = "deferred_busy"

Attempted == latch.pending /\ latch.state \in {"sending", "awaiting_ack", "uncertain"}

Pinned(p) == p.gen = gen /\ p.boot = boot

(* evaluatePmHandoffAtStop, after the reconciliation has adopted or        *)
(* dropped what it could.                                                  *)
Ready(h) ==
    /\ h.req # 0 /\ h.session = session
    /\ saved \/ (h.obl = "created" /\ h.row = "resolved")

(* requestPmClearOnce with deferUntilStop: a latch that may have been      *)
(* written, or a clear just asked for or confirmed, arms nothing.          *)
Armed(recent) ==
    IF latch.pending \/ recent THEN latch
    ELSE [pending |-> TRUE, at |-> latch.at + 1, state |-> "deferred_busy"]

(* What a Stop still has to do needs its session, not its pins.            *)
ToHook(h) == [IdleStop EXCEPT !.pc = "hook", !.session = stop[h].session]

StopEnters(h, s) ==
    /\ stop[h].pc = "idle"
    /\ stop' = [stop EXCEPT ![h] = [pc |-> "entered", gen |-> gen, boot |-> boot,
                                    session |-> s, stale |-> FALSE]]
    /\ UNCHANGED <<handoff, ledgerVars, saved, latchVars, hookVars, write, paneVars>>

(* armPmClearAfterSavedHandoff consumes the request and arms the latch.    *)
ArmAfterSave(h, lookup, recent) ==
    LET tried == Reconciled(lookup)
        moved == tried.req # 0 /\ tried.session # session
    IN  /\ upserting' = upserting \cup Rewritten(lookup)
        /\ handoff' = IF Ready(tried) \/ moved THEN NoHandoff ELSE tried
        /\ IF Ready(tried)
           THEN /\ latch' = Armed(recent)
                /\ aged' = IF latch'.at # latch.at THEN FALSE ELSE aged
           ELSE UNCHANGED <<latch, aged>>
        /\ saved' = (saved /\ handoff'.req # 0)
        /\ UNCHANGED <<asked, failOpen, hookVars, write, effects, crashes>>

StopClaims(h, exits, lookup, recent) ==
    LET claimed == stop[h].session = session /\ Pinned(stop[h])
    IN  /\ stop[h].pc = "entered"
        /\ exits => ~latch.pending
        /\ recent => latch.at # 0 \/ boot > 1
        /\ stop' = [stop EXCEPT ![h] = IF claimed /\ ~exits
                                       THEN [@ EXCEPT !.pc = "claimed"] ELSE ToHook(h)]
        /\ IF claimed /\ ~exits
           THEN ArmAfterSave(h, lookup, recent)
           ELSE UNCHANGED <<handoff, ledgerVars, saved, latchVars, hookVars, write, paneVars>>

(* Wrong: the fence is pinned when the request is made, not at the entry.  *)
SendsUnpinned(h) ==
    /\ stop[h].pc = "claimed"
    /\ stop' = [stop EXCEPT ![h] = ToHook(h)]
    /\ IF Undelivered
       THEN /\ latch' = [latch EXCEPT !.state = "sending"]
            /\ aged' = FALSE
            /\ write' = [write EXCEPT ![latch.at] =
                   [pc |-> "sent", gen |-> gen, boot |-> boot, stale |-> stop[h].stale,
                    reply |-> "unknown", awaited |-> TRUE]]
       ELSE UNCHANGED <<latch, aged, write>>
    /\ UNCHANGED <<handoff, ledgerVars, saved, failOpen, hookVars, paneVars>>

(* sendPendingPmClearAtStop hands the pinned Stop to the writer.           *)
StopSends(h) ==
    /\ stop[h].pc = "claimed"
    /\ stop' = [stop EXCEPT ![h] = ToHook(h)]
    /\ IF Undelivered /\ Pinned(stop[h])
       THEN /\ latch' = [latch EXCEPT !.state = "sending"]
            /\ aged' = FALSE
            /\ write' = [write EXCEPT ![latch.at] =
                   [pc |-> "sent", gen |-> stop[h].gen, boot |-> stop[h].boot,
                    stale |-> stop[h].stale, reply |-> "unknown", awaited |-> TRUE]]
       ELSE UNCHANGED <<latch, aged, write>>
    /\ UNCHANGED <<handoff, ledgerVars, saved, failOpen, hookVars, paneVars>>

(* Wrong: a write that was under way at a restart is never given up.       *)
HandledUnlessSending(h) ==
    /\ stop[h].pc = "hook"
    /\ stop' = [stop EXCEPT ![h] = IdleStop]
    /\ IF Attempted /\ latch.state # "sending" /\ aged
       THEN /\ latch' = [latch EXCEPT !.pending = FALSE, !.state = "failed_open"]
            /\ failOpen' = stop[h].session
       ELSE UNCHANGED <<latch, failOpen>>
    /\ UNCHANGED <<handoff, ledgerVars, saved, aged, hookVars, write, paneVars>>

(* failOpenUnobservedPmClear gives up a write nobody acknowledged, for the *)
(* session the hook names.                                                 *)
StopHandled(h) ==
    /\ stop[h].pc = "hook"
    /\ stop' = [stop EXCEPT ![h] = IdleStop]
    /\ IF Attempted /\ aged
       THEN /\ latch' = [latch EXCEPT !.pending = FALSE, !.state = "failed_open"]
            /\ failOpen' = stop[h].session
       ELSE UNCHANGED <<latch, failOpen>>
    /\ UNCHANGED <<handoff, ledgerVars, saved, aged, hookVars, write, paneVars>>

-----------------------------------------------------------------------------
(* The writer. makePmClearWriteFence is asked again before the paste and   *)
(* before the Enter, with no await between the answer and the effect; the  *)
(* earlier question before the buffer is loaded refuses nothing that this  *)
(* one would not. Another write waits for its turn (directInjectChain).    *)

Replaced(c) == ~latch.pending \/ latch.at # c \/ latch.state # "sending"

(* The refusals the fence or the pane can give; "none" lets the effect     *)
(* happen.                                                                 *)
Refusals(c) ==
    IF Replaced(c) THEN {"refused"}
    ELSE IF write[c].gen # gen THEN {"busy"}
    ELSE IF write[c].boot # boot THEN {"refused"}
    ELSE {"none", "busy", "refused"}

WriterFree == \A c \in Clear : write[c].pc # "pasted"

(* An answer that nobody waits for is lost.                                *)
Replies(c, answer) ==
    [write EXCEPT ![c] = IF ~write[c].awaited THEN NoWrite
                         ELSE [NoWrite EXCEPT !.pc = "replied", !.reply = answer,
                                              !.awaited = TRUE]]

(* Once the paste is attempted its failure proves nothing.                 *)
WriterPastes(c, refusal, fails) ==
    /\ write[c].pc = "sent" /\ WriterFree
    /\ refusal \in Refusals(c)
    /\ IF refusal = "none"
       THEN /\ write' = IF fails THEN Replies(c, "unknown")
                        ELSE [write EXCEPT ![c].pc = "pasted"]
            /\ effects' = [effects EXCEPT ![c] =
                   [pastes |-> @.pastes + 1, stale |-> @.stale \/ write[c].stale]]
       ELSE /\ write' = Replies(c, refusal)
            /\ effects' = effects
    /\ UNCHANGED <<handoff, ledgerVars, saved, latchVars, hookVars, stop, crashes>>

(* Wrong: a refusal after the paste is reported as one before it.          *)
EntersOrRefuses(c, refusal, fails) ==
    /\ write[c].pc = "pasted"
    /\ refusal \in Refusals(c)
    /\ write' = Replies(c, IF refusal # "none" THEN refusal
                           ELSE IF fails THEN "unknown" ELSE "ok")
    /\ effects' = IF refusal = "none"
                  THEN [effects EXCEPT ![c].stale = @ \/ write[c].stale] ELSE effects
    /\ UNCHANGED <<handoff, ledgerVars, saved, latchVars, hookVars, stop, crashes>>

(* After the paste no refusal proves that nothing happened, and the Enter  *)
(* itself may fail.                                                        *)
WriterEnters(c, refusal, fails) ==
    /\ write[c].pc = "pasted"
    /\ refusal \in Refusals(c)
    /\ write' = Replies(c, IF refusal = "none" /\ ~fails THEN "ok" ELSE "unknown")
    /\ effects' = IF refusal = "none"
                  THEN [effects EXCEPT ![c].stale = @ \/ write[c].stale] ELSE effects
    /\ UNCHANGED <<handoff, ledgerVars, saved, latchVars, hookVars, stop, crashes>>

(* Wrong: a failed HTTP request counts as a write that did not happen.     *)
SettledAsUnsent(c, reply) ==
    IF ~latch.pending \/ latch.at # c THEN latch
    ELSE CASE reply = "ok"      -> [latch EXCEPT !.state = "awaiting_ack"]
           [] reply \in {"busy", "unknown"} -> [latch EXCEPT !.state = "deferred_busy"]
           [] reply = "refused" -> [latch EXCEPT !.state = "failed", !.pending = FALSE]

(* requestPmClearOnce settles its own request and leaves a successor's     *)
(* latch alone.                                                            *)
Settled(c, reply) ==
    IF ~latch.pending \/ latch.at # c THEN latch
    ELSE CASE reply = "ok"      -> [latch EXCEPT !.state = "awaiting_ack"]
           [] reply = "busy"    -> [latch EXCEPT !.state = "deferred_busy"]
           [] reply = "refused" -> [latch EXCEPT !.state = "failed", !.pending = FALSE]
           [] reply = "unknown" -> [latch EXCEPT !.state = "uncertain"]

WriteSettles(c) ==
    /\ write[c].pc = "replied"
    /\ write' = [write EXCEPT ![c] = NoWrite]
    /\ latch' = Settled(c, write[c].reply)
    /\ UNCHANGED <<handoff, ledgerVars, saved, aged, failOpen, hookVars, stop, paneVars>>

(* The caller's HTTP request fails while the writer goes on.               *)
ReplyLost(c) ==
    /\ write[c].pc # "none" /\ write[c].awaited
    /\ write' = [write EXCEPT ![c] = IF @.pc = "replied" THEN NoWrite
                                     ELSE [@ EXCEPT !.awaited = FALSE]]
    /\ latch' = Settled(c, "unknown")
    /\ UNCHANGED <<handoff, ledgerVars, saved, aged, failOpen, hookVars, stop, paneVars>>

-----------------------------------------------------------------------------
(* The manager works on, a session starts, time passes, the server dies.   *)

MarkStale ==
    /\ stop' = [h \in Stop |-> IF stop[h].pc \in {"idle", "hook"} THEN stop[h]
                               ELSE [stop[h] EXCEPT !.stale = TRUE]]
    /\ write' = [c \in Clear |-> IF write[c].pc \in {"none", "replied"} THEN write[c]
                                 ELSE [write[c] EXCEPT !.stale = TRUE]]

(* UserPromptSubmit, PreToolUse, or /pm-status "start".                    *)
WorkArrives ==
    /\ gen < MaxGen
    /\ gen' = gen + 1
    /\ MarkStale
    /\ UNCHANGED <<handoff, ledgerVars, saved, latchVars, boot, session, paneVars>>

(* Compaction keeps the session; a clear is the acknowledgement.           *)
SessionStarts(source) ==
    /\ gen < MaxGen /\ boot < MaxBoot
    /\ gen' = gen + 1
    /\ boot' = boot + 1
    /\ session' = IF source = "compact" THEN session ELSE boot + 1
    /\ latch' = IF source = "clear" THEN [latch EXCEPT !.pending = FALSE] ELSE latch
    /\ MarkStale
    /\ UNCHANGED <<handoff, ledgerVars, saved, aged, failOpen, paneVars>>

TimePasses ==
    /\ Attempted /\ ~aged
    /\ aged' = TRUE
    /\ UNCHANGED <<handoff, ledgerVars, saved, latch, failOpen, hookVars, stop, write, paneVars>>

Crash(landed) ==
    /\ crashes < MaxCrash
    /\ crashes' = crashes + 1
    /\ landed => handoff.req \in upserting
    /\ upserting' = {}
    /\ handoff' = IF landed THEN [handoff EXCEPT !.row = "open"] ELSE handoff
    /\ gen' = 0
    /\ stop' = [h \in Stop |-> IdleStop]
    /\ write' = [c \in Clear |-> NoWrite]
    /\ UNCHANGED <<asked, saved, latchVars, boot, session, effects>>

-----------------------------------------------------------------------------
Requests ==
    \/ \E automatic, replace \in BOOLEAN, lookup \in Lookups :
          RequestClear(automatic, replace, lookup)
    \/ \E r \in Request, written, acked \in BOOLEAN : Upserted(r, written, acked)
    \/ SaveHandoff
    \/ ResolveByHand

StopSteps(h) ==
    \/ \E exits, recent \in BOOLEAN, lookup \in Lookups :
          StopClaims(h, exits, lookup, recent)
    \/ StopSends(h)
    \/ StopHandled(h)

Writes(c) ==
    \/ \E refusal \in Refusals(c), fails \in BOOLEAN :
          \/ WriterPastes(c, refusal, fails)
          \/ WriterEnters(c, refusal, fails)
    \/ WriteSettles(c)

Environment ==
    \/ WorkArrives
    \/ \E source \in {"startup", "compact", "clear"} : SessionStarts(source)
    \/ TimePasses
    \/ \E landed \in BOOLEAN : Crash(landed)

Next ==
    \/ Requests
    \/ \E h \in Stop : (\E s \in 1 .. session : StopEnters(h, s)) \/ StopSteps(h)
    \/ \E c \in Clear : Writes(c) \/ ReplyLost(c)
    \/ Environment

Spec == Init /\ [][Next]_vars

(* A handler that has begun goes on, since each of its awaits ends by a    *)
(* timeout; the manager's turns end, each with a Stop; time passes.        *)
FairSpec ==
    /\ Spec
    /\ \A h \in Stop : WF_vars(StopEnters(h, session)) /\ WF_vars(StopSteps(h))
    /\ \A c \in Clear : WF_vars(Writes(c))
    /\ WF_vars(TimePasses)

-----------------------------------------------------------------------------
(* Types of the state, the model's and the database's.                     *)
TypeOK ==
    /\ handoff \in [req : 0 .. MaxRequest, session : Nat,
                    obl : {"uncertain", "created"}, attempts : Nat,
                    row : {"absent", "open", "resolved"}]
    /\ asked \in 0 .. MaxRequest
    /\ upserting \subseteq Request
    /\ saved \in BOOLEAN /\ aged \in BOOLEAN
    /\ latch \in [pending : BOOLEAN, at : 0 .. MaxRequest,
                  state : {"none", "deferred_busy", "sending", "awaiting_ack",
                           "uncertain", "failed", "failed_open"}]
    /\ failOpen \in Nat /\ gen \in Nat /\ boot \in Nat /\ session \in 1 .. boot
    /\ stop \in [Stop -> [pc : {"idle", "entered", "claimed", "hook"}, gen : Nat,
                          boot : Nat, session : Nat, stale : BOOLEAN]]
    /\ write \in [Clear -> [pc : {"none", "sent", "pasted", "replied"}, gen : Nat,
                            boot : Nat, stale : BOOLEAN, awaited : BOOLEAN,
                            reply : {"ok", "busy", "refused", "unknown"}]]
    /\ effects \in [Clear -> [pastes : Nat, stale : BOOLEAN]]
    /\ crashes \in Nat

(* A clear is pasted at most once, across Stops, lost replies, replaced    *)
(* requests and restarts.                                                  *)
PastedOnce == \A c \in Clear : effects[c].pastes <= 1

(* A latch that will be tried again belongs to a clear that has not        *)
(* reached the pane.                                                       *)
RetryIsUntried == Undelivered => effects[latch.at].pastes = 0

(* The writer neither pastes nor enters a clear once work or a session has *)
(* come in since its Stop.                                                 *)
NoStaleEffect == \A c \in Clear : ~effects[c].stale

(* An obligation the handoff counts as created is in the ledger.           *)
CreatedIsKnown == handoff.obl = "created" => handoff.row # "absent"

(* A clear that was attempted is acknowledged, refused or given up in the  *)
(* end; it never stays pending for good.                                   *)
AttemptEnds == Attempted ~> ~Attempted

=============================================================================
