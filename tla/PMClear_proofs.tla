--------------------------- MODULE PMClear_proofs ---------------------------
(***************************************************************************)
(* What holds of the manager's clear for every number of Stop hooks,       *)
(* requests, attempts, sessions and crashes. That a clear is pasted once   *)
(* follows from what its write and the latch know of each other: a clear   *)
(* the latch may try again has no write under way and has not reached the  *)
(* pane. That nothing stale reaches the pane follows from the pins: work   *)
(* that comes in advances the generation past every pin taken before it.   *)
(***************************************************************************)
EXTENDS PMClear, TLAPS

Handoffs == [req : 0 .. MaxRequest, session : Nat, obl : {"uncertain", "created"},
             attempts : Nat, row : {"absent", "open", "resolved"}]

Latches == [pending : BOOLEAN, at : 0 .. MaxRequest,
            state : {"none", "deferred_busy", "sending", "awaiting_ack",
                     "uncertain", "failed", "failed_open"}]

Stops == [pc : {"idle", "entered", "claimed", "hook"}, gen : Nat,
          boot : Nat, session : Nat, stale : BOOLEAN]

WriteStates == [pc : {"none", "sent", "pasted", "replied"}, gen : Nat,
                boot : Nat, stale : BOOLEAN, awaited : BOOLEAN,
                reply : {"ok", "busy", "refused", "unknown"}]

(* Of the requests there have been, those that armed the latch and the one *)
(* that waits are different ones.                                          *)
Waiting == IF handoff.req = 0 THEN 0 ELSE 1

Counted == latch.at + Waiting <= asked /\ (latch.pending => latch.at # 0)

(* What the write of a clear and the latch know of each other.             *)
Consistent(c) ==
    /\ effects[c].pastes <= 1
    /\ c > latch.at => write[c].pc = "none" /\ effects[c].pastes = 0
    /\ write[c].pc = "sent" => effects[c].pastes = 0
    /\ write[c].pc = "replied" /\ write[c].reply = "busy" => effects[c].pastes = 0
    /\ Undelivered /\ latch.at = c => write[c].pc = "none" /\ effects[c].pastes = 0

(* A pin that is behind is older than the generation, and work that came   *)
(* in since has put it behind.                                             *)
PinOf(p) == p.gen <= gen /\ (p.stale => p.gen < gen)

PinsOld ==
    /\ \A h \in Stop : stop[h].pc \in {"entered", "claimed"} => PinOf(stop[h])
    /\ \A c \in Clear : write[c].pc \in {"sent", "pasted"} => PinOf(write[c])

Typed == TypeOK /\ Counted

Delivery == Typed /\ \A c \in Clear : Consistent(c)

-----------------------------------------------------------------------------
(* The operators the actions are built from return values of their types.  *)
LEMMA ReconciledTyped ==
    ASSUME TypeOK, NEW lookup
    PROVE  /\ Reconciled(lookup) \in Handoffs
           /\ Reconciled(lookup).req \in {0, handoff.req}
           /\ Rewritten(lookup) \subseteq Request
<1>1. handoff \in Handoffs
  BY DEF TypeOK, Handoffs
<1>2. NoHandoff \in Handoffs /\ NoHandoff.req = 0
  BY PMClearBounds DEF NoHandoff, Handoffs
<1>. DEFINE n == handoff.attempts + 1
<1>8. n \in Nat
  BY <1>1 DEF Handoffs
<1>. HIDE DEF n
<1>3. [handoff EXCEPT !.obl = "created", !.attempts = n] \in Handoffs
  BY <1>1, <1>8, Zenon DEF Handoffs
<1>4. [handoff EXCEPT !.attempts = n] \in Handoffs
  BY <1>1, <1>8, Zenon DEF Handoffs
<1>5. Reconciled(lookup) \in Handoffs
  BY <1>1, <1>2, <1>3, <1>4 DEF Reconciled, n
<1>6. Reconciled(lookup).req \in {0, handoff.req}
  BY <1>1, <1>2 DEF Reconciled, Handoffs
<1>7. Rewritten(lookup) \subseteq Request
  BY <1>1, PMClearBounds DEF Rewritten, Reconciles, Handoffs, Request
<1>. QED
  BY <1>5, <1>6, <1>7

LEMMA SettledTyped ==
    ASSUME TypeOK, NEW c, NEW reply \in {"ok", "busy", "refused", "unknown"}
    PROVE  /\ Settled(c, reply) \in Latches
           /\ Settled(c, reply).at = latch.at
           /\ Settled(c, reply).pending => latch.pending
<1>1. latch \in Latches
  BY DEF TypeOK, Latches
<1>. QED
  BY <1>1 DEF Settled, Latches

LEMMA RepliesTyped ==
    ASSUME TypeOK, NEW c \in Clear, NEW answer \in {"ok", "busy", "refused", "unknown"}
    PROVE  Replies(c, answer) \in [Clear -> WriteStates]
<1>1. write \in [Clear -> WriteStates]
  BY DEF TypeOK, WriteStates
<1>2. NoWrite \in WriteStates
  BY DEF NoWrite, WriteStates
<1>3. [NoWrite EXCEPT !.pc = "replied", !.reply = answer, !.awaited = TRUE] \in WriteStates
  BY DEF NoWrite, WriteStates
<1>. QED
  BY <1>1, <1>2, <1>3 DEF Replies

-----------------------------------------------------------------------------
(* The types, and the count of the requests.                               *)
LEMMA TypedInit == Init => Typed
<1>. SUFFICES ASSUME Init PROVE Typed
  OBVIOUS
<1>. USE PMClearBounds
<1>1. NoHandoff \in Handoffs
  BY DEF NoHandoff, Handoffs
<1>2. latch \in Latches
  BY DEF Init, Latches
<1>3. IdleStop \in Stops /\ NoWrite \in WriteStates
  BY DEF IdleStop, Stops, NoWrite, WriteStates
<1>4. effects \in [Clear -> [pastes : Nat, stale : BOOLEAN]]
  BY DEF Init
<1>7. stop \in [Stop -> Stops] /\ write \in [Clear -> WriteStates]
  BY <1>3 DEF Init
<1>8. /\ handoff \in Handoffs /\ upserting \subseteq Request
      /\ saved \in BOOLEAN /\ aged \in BOOLEAN
  BY <1>1, Zenon DEF Init
<1>9. /\ asked = 0 /\ failOpen = 0 /\ gen = 0 /\ boot = 1 /\ session = 1 /\ crashes = 0
  BY DEF Init
<1>10. /\ asked \in 0 .. MaxRequest /\ failOpen \in Nat /\ gen \in Nat
       /\ boot \in Nat /\ session \in 1 .. boot /\ crashes \in Nat
  BY <1>9
<1>5. TypeOK
  BY <1>2, <1>4, <1>7, <1>8, <1>10 DEF TypeOK, Handoffs, Latches, Stops, WriteStates
<1>6. Counted
  BY DEF Init, Counted, Waiting, NoHandoff
<1>. QED
  BY <1>5, <1>6 DEF Typed

LEMMA TypedRequest ==
    ASSUME Typed, NEW automatic, NEW replace \in BOOLEAN, NEW lookup,
           RequestClear(automatic, replace, lookup)
    PROVE  Typed'
<1>. USE PMClearBounds
<1>. DEFINE kept == IF replace THEN NoHandoff ELSE Reconciled(lookup)
<1>1. /\ handoff \in Handoffs /\ latch \in Latches /\ NoHandoff \in Handoffs
      /\ NoHandoff.req = 0
  BY DEF Typed, TypeOK, Handoffs, Latches, NoHandoff
<1>2. /\ kept \in Handoffs /\ kept.req \in {0, handoff.req}
      /\ Rewritten(lookup) \subseteq Request
  BY <1>1, ReconciledTyped DEF Typed
<1>3. /\ latch' \in Latches /\ latch'.at = latch.at /\ (latch'.pending => latch.pending)
  <2>1. latch' = IF replace THEN [latch EXCEPT !.pending = FALSE] ELSE latch
    BY DEF RequestClear
  <2>. QED
    BY <1>1, <2>1 DEF Latches
<1>4. CASE kept.req # 0
  <2>1. /\ handoff' = kept /\ upserting' \subseteq Request /\ asked' = asked /\ saved' = saved
    BY <1>2, <1>4 DEF RequestClear, Typed, TypeOK
  <2>. HIDE DEF kept
  <2>2. handoff'.req = handoff.req
    BY <1>2, <1>4, <2>1
  <2>. QED
    BY <1>1, <1>2, <1>3, <2>1, <2>2
       DEF Typed, TypeOK, Counted, Waiting, RequestClear, hookVars, paneVars, Handoffs, Latches
<1>5. CASE kept.req = 0
  <2>1. /\ asked < MaxRequest /\ asked' = asked + 1 /\ saved' = FALSE
        /\ handoff' = [NoHandoff EXCEPT !.req = asked', !.session = session]
        /\ upserting' = upserting \cup {asked'}
    BY <1>5 DEF RequestClear
  <2>. HIDE DEF kept
  <2>2. asked' \in Request /\ asked' \in 0 .. MaxRequest /\ session \in Nat
    BY <2>1 DEF Typed, TypeOK, Request
  <2>3. handoff' \in Handoffs
    BY <1>1, <2>1, <2>2, Zenon DEF Handoffs
  <2>4. latch.at <= asked
    BY <1>1 DEF Typed, TypeOK, Counted, Waiting, Latches
  <2>5. Counted'
    BY <1>1, <1>3, <2>1, <2>4 DEF Counted, Waiting, Typed, TypeOK, Latches
  <2>. QED
    BY <1>3, <2>1, <2>2, <2>3, <2>5
       DEF Typed, TypeOK, RequestClear, hookVars, paneVars, Handoffs, Latches
<1>. QED
  BY <1>4, <1>5

LEMMA TypedUpserted ==
    ASSUME Typed, NEW r \in Request, NEW written \in BOOLEAN, NEW acked \in BOOLEAN,
           Upserted(r, written, acked)
    PROVE  Typed' /\ handoff'.req = handoff.req
<1>1. handoff \in Handoffs
  BY DEF Typed, TypeOK, Handoffs
<1>2. handoff' \in Handoffs /\ handoff'.req = handoff.req
  <2>. DEFINE o == IF acked THEN "created" ELSE "uncertain"
              w == IF written THEN "open" ELSE handoff.row
  <2>1. o \in {"uncertain", "created"} /\ w \in {"absent", "open", "resolved"}
    BY <1>1 DEF Handoffs
  <2>2. handoff' = handoff \/ handoff' = [handoff EXCEPT !.obl = o, !.row = w]
    BY DEF Upserted
  <2>. HIDE DEF o, w
  <2>3. [handoff EXCEPT !.obl = o, !.row = w] \in Handoffs
    BY <1>1, <2>1, Zenon DEF Handoffs
  <2>. QED
    BY <1>1, <2>2, <2>3 DEF Handoffs
<1>. QED
  BY <1>2 DEF Typed, TypeOK, Counted, Waiting, Upserted, latchVars, hookVars, paneVars, Handoffs

(* The other steps of the saved handoff.                                   *)
LEMMA TypedHandoff ==
    ASSUME Typed, SaveHandoff \/ ResolveByHand
    PROVE  Typed' /\ handoff'.req = handoff.req
<1>1. handoff \in Handoffs
  BY DEF Typed, TypeOK, Handoffs
<1>2. [handoff EXCEPT !.row = "resolved"] \in Handoffs
  BY <1>1, Zenon DEF Handoffs
<1>3. handoff' \in Handoffs /\ handoff'.req = handoff.req
  BY <1>1, <1>2 DEF SaveHandoff, ResolveByHand, Handoffs
<1>. QED
  BY <1>3 DEF Typed, TypeOK, Counted, Waiting, SaveHandoff, ResolveByHand,
              ledgerVars, latchVars, hookVars, paneVars, Handoffs

(* A Stop at its entry, before and after the claim.                        *)
LEMMA TypedEnters ==
    ASSUME Typed, NEW h \in Stop, NEW s \in 1 .. session, StopEnters(h, s)
    PROVE  Typed'
<1>1. stop \in [Stop -> Stops] /\ gen \in Nat /\ boot \in Nat /\ s \in Nat
  BY DEF Typed, TypeOK, Stops
<1>2. [pc |-> "entered", gen |-> gen, boot |-> boot, session |-> s, stale |-> FALSE] \in Stops
  BY <1>1 DEF Stops
<1>3. stop' \in [Stop -> Stops]
  BY <1>1, <1>2 DEF StopEnters
<1>. QED
  BY <1>3 DEF Typed, TypeOK, Counted, Waiting, StopEnters,
              ledgerVars, latchVars, hookVars, paneVars, Stops

LEMMA HookTyped ==
    ASSUME TypeOK, NEW h \in Stop
    PROVE  /\ ToHook(h) \in Stops /\ ToHook(h).pc = "hook"
           /\ [stop[h] EXCEPT !.pc = "claimed"] \in Stops
           /\ IdleStop \in Stops
<1>1. stop[h] \in Stops
  BY DEF TypeOK, Stops
<1>2. IdleStop \in Stops
  BY DEF IdleStop, Stops
<1>3. stop[h].session \in Nat
  BY <1>1 DEF Stops
<1>4. ToHook(h) \in Stops
  BY <1>2, <1>3, Zenon DEF ToHook, Stops
<1>5. ToHook(h).pc = "hook"
  BY DEF ToHook, IdleStop
<1>6. [stop[h] EXCEPT !.pc = "claimed"] \in Stops
  BY <1>1 DEF Stops
<1>. QED
  BY <1>2, <1>4, <1>5, <1>6

(* What arming does to the latch: nothing, or it takes the next number for *)
(* a clear that is to be tried.                                            *)
LEMMA ArmSteps ==
    ASSUME Typed, NEW h \in Stop, NEW lookup, NEW recent, ArmAfterSave(h, lookup, recent)
    PROVE  /\ handoff' \in Handoffs /\ latch' \in Latches
           /\ upserting' \subseteq Request /\ saved' \in BOOLEAN /\ aged' \in BOOLEAN
           /\ Counted'
           /\ \/ latch' = latch
              \/ /\ ~latch.pending
                 /\ latch' = [pending |-> TRUE, at |-> latch.at + 1, state |-> "deferred_busy"]
<1>. USE PMClearBounds
<1>. DEFINE tried == Reconciled(lookup)
<1>1. /\ handoff \in Handoffs /\ latch \in Latches /\ NoHandoff \in Handoffs
      /\ NoHandoff.req = 0 /\ asked \in 0 .. MaxRequest
  BY DEF Typed, TypeOK, Handoffs, Latches, NoHandoff
<1>2. /\ tried \in Handoffs /\ tried.req \in {0, handoff.req}
      /\ Rewritten(lookup) \subseteq Request
  BY ReconciledTyped DEF Typed
<1>3. /\ upserting' \subseteq Request /\ saved' \in BOOLEAN /\ asked' = asked
  BY <1>2 DEF ArmAfterSave, Typed, TypeOK
<1>4. handoff' \in Handoffs /\ handoff'.req \in {0, handoff.req}
  <2>1. handoff' \in {NoHandoff, tried}
    BY DEF ArmAfterSave
  <2>. HIDE DEF tried
  <2>. QED
    BY <1>1, <1>2, <2>1
<1>5. CASE latch' = latch
  <2>1. aged' \in BOOLEAN
    BY <1>5 DEF ArmAfterSave, Typed, TypeOK
  <2>2. Counted'
    BY <1>1, <1>3, <1>4, <1>5 DEF Typed, Counted, Waiting, Latches, Handoffs
  <2>. QED
    BY <1>1, <1>3, <1>4, <1>5, <2>1, <2>2
<1>6. CASE latch' # latch
  <2>1. /\ Ready(tried) /\ latch' = Armed(recent)
        /\ aged' = IF latch'.at # latch.at THEN FALSE ELSE aged
    BY <1>6 DEF ArmAfterSave
  <2>2. handoff' = NoHandoff
    BY <2>1 DEF ArmAfterSave
  <2>3. tried.req # 0
    BY <2>1 DEF Ready
  <2>. HIDE DEF tried
  <2>4. /\ ~latch.pending
        /\ latch' = [pending |-> TRUE, at |-> latch.at + 1, state |-> "deferred_busy"]
    BY <1>6, <2>1 DEF Armed
  <2>5. latch.at + 1 <= asked
    BY <1>1, <1>2, <2>3 DEF Typed, Counted, Waiting, Latches, Handoffs
  <2>6. latch.at + 1 \in 0 .. MaxRequest
    BY <1>1, <2>5 DEF Latches
  <2>7. latch' \in Latches
    BY <2>4, <2>6 DEF Latches
  <2>8. Counted'
    BY <1>1, <1>3, <2>2, <2>4, <2>5 DEF Counted, Waiting, Latches
  <2>9. aged' \in BOOLEAN
    BY <2>1 DEF Typed, TypeOK
  <2>. QED
    BY <1>3, <1>4, <2>4, <2>7, <2>8, <2>9
<1>. QED
  BY <1>5, <1>6

LEMMA TypedClaims ==
    ASSUME Typed, NEW h \in Stop, NEW exits \in BOOLEAN, NEW lookup, NEW recent \in BOOLEAN,
           StopClaims(h, exits, lookup, recent)
    PROVE  Typed'
<1>1. stop' \in [Stop -> Stops]
  <2>1. stop \in [Stop -> Stops]
    BY DEF Typed, TypeOK, Stops
  <2>. QED
    BY <2>1, HookTyped DEF StopClaims, Typed
<1>2. CASE ArmAfterSave(h, lookup, recent)
  BY <1>1, <1>2, ArmSteps
     DEF ArmAfterSave, hookVars, Typed, TypeOK, Handoffs, Latches, Stops
<1>3. CASE UNCHANGED <<handoff, ledgerVars, saved, latchVars, hookVars, write, paneVars>>
  BY <1>1, <1>3 DEF Typed, TypeOK, Counted, Waiting, Stops,
                    ledgerVars, latchVars, hookVars, paneVars
<1>. QED
  BY <1>2, <1>3 DEF StopClaims

(* A Stop's request to the writer, of a clear the latch may try.           *)
Sends(h) ==
    /\ Undelivered /\ Pinned(stop[h]) /\ stop[h].pc = "claimed"
    /\ latch' = [latch EXCEPT !.state = "sending"]
    /\ write' = [write EXCEPT ![latch.at] =
           [pc |-> "sent", gen |-> stop[h].gen, boot |-> stop[h].boot,
            stale |-> stop[h].stale, reply |-> "unknown", awaited |-> TRUE]]

LEMMA TypedSends ==
    ASSUME Typed, NEW h \in Stop, StopSends(h)
    PROVE  Typed' /\ (Sends(h) \/ UNCHANGED <<latch, write>>)
<1>1. /\ stop \in [Stop -> Stops] /\ latch \in Latches /\ write \in [Clear -> WriteStates]
  BY DEF Typed, TypeOK, Stops, Latches, WriteStates
<1>2. stop' \in [Stop -> Stops]
  BY <1>1, HookTyped DEF StopSends, Typed
<1>3. Sends(h) \/ UNCHANGED <<latch, write>>
  BY DEF StopSends, Sends
<1>4. /\ latch' \in Latches /\ latch'.at = latch.at /\ latch'.pending = latch.pending
      /\ write' \in [Clear -> WriteStates] /\ aged' \in BOOLEAN
  <2>1. CASE Sends(h)
    <3>1. latch' \in Latches /\ latch'.at = latch.at /\ latch'.pending = latch.pending
      BY <1>1, <2>1 DEF Sends, Latches
    <3>2. [pc |-> "sent", gen |-> stop[h].gen, boot |-> stop[h].boot,
           stale |-> stop[h].stale, reply |-> "unknown", awaited |-> TRUE] \in WriteStates
      BY <1>1 DEF Stops, WriteStates
    <3>3. write' \in [Clear -> WriteStates]
      BY <1>1, <2>1, <3>2 DEF Sends
    <3>. QED
      BY <3>1, <3>3 DEF StopSends, Typed, TypeOK
  <2>2. CASE UNCHANGED <<latch, write>>
    BY <1>1, <2>2 DEF StopSends, Typed, TypeOK
  <2>. QED
    BY <1>3, <2>1, <2>2
<1>. QED
  BY <1>2, <1>3, <1>4 DEF StopSends, Typed, TypeOK, Counted, Waiting, Stops, Latches, WriteStates,
                          ledgerVars, hookVars, paneVars

LEMMA TypedHandled ==
    ASSUME Typed, NEW h \in Stop, StopHandled(h)
    PROVE  /\ Typed'
           /\ latch'.at = latch.at /\ (latch'.pending => latch' = latch)
<1>1. stop \in [Stop -> Stops] /\ latch \in Latches
  BY DEF Typed, TypeOK, Stops, Latches
<1>2. stop' \in [Stop -> Stops] /\ stop[h].session \in Nat
  BY <1>1, HookTyped DEF StopHandled, Typed, Stops
<1>3. /\ latch' \in Latches /\ latch'.at = latch.at /\ (latch'.pending => latch' = latch)
      /\ failOpen' \in Nat
  BY <1>1, <1>2 DEF StopHandled, Latches, Typed, TypeOK
<1>. QED
  BY <1>2, <1>3 DEF StopHandled, Typed, TypeOK, Counted, Waiting, Stops, Latches,
                    ledgerVars, hookVars, paneVars





(* The paste and the Enter touch the write and what it did to the pane.    *)
LEMMA TypedWriter ==
    ASSUME Typed, NEW c \in Clear, NEW refusal \in Refusals(c), NEW fails \in BOOLEAN,
           WriterPastes(c, refusal, fails) \/ WriterEnters(c, refusal, fails)
    PROVE  Typed'
<1>. DEFINE Done == [pastes : Nat, stale : BOOLEAN]
<1>1. write \in [Clear -> WriteStates] /\ effects \in [Clear -> Done]
  BY DEF Typed, TypeOK, WriteStates
<1>2. refusal \in {"none", "busy", "refused"}
  BY DEF Refusals
<1>3. \A answer \in {"ok", "busy", "refused", "unknown"} :
        Replies(c, answer) \in [Clear -> WriteStates]
  BY RepliesTyped DEF Typed
<1>4. write' \in [Clear -> WriteStates]
  <2>1. CASE WriterPastes(c, refusal, fails)
    <3>1. [write[c] EXCEPT !.pc = "pasted"] \in WriteStates
      BY <1>1 DEF WriteStates
    <3>. QED
      BY <1>1, <1>2, <1>3, <2>1, <3>1 DEF WriterPastes
  <2>2. CASE WriterEnters(c, refusal, fails)
    BY <1>2, <1>3, <2>2 DEF WriterEnters
  <2>. QED
    BY <2>1, <2>2
<1>5. effects' \in [Clear -> Done]
  <2>. DEFINE p == effects[c].pastes + 1
              t == effects[c].stale \/ write[c].stale
  <2>1. p \in Nat /\ effects[c] \in Done
    BY <1>1
  <2>2. t \in BOOLEAN
    BY Zenon
  <2>3. [pastes |-> p, stale |-> t] \in Done
    BY <2>1, <2>2
  <2>4. [effects[c] EXCEPT !.stale = t] \in Done
    BY <2>1, <2>2, Zenon
  <2>5. \/ effects' = effects
        \/ effects' = [effects EXCEPT ![c] = [pastes |-> p, stale |-> t]]
        \/ effects' = [effects EXCEPT ![c] = [effects[c] EXCEPT !.stale = t]]
    BY DEF WriterPastes, WriterEnters
  <2>. HIDE DEF p, t, Done
  <2>. QED
    BY <1>1, <2>3, <2>4, <2>5
<1>. HIDE DEF Done
<1>6. UNCHANGED <<handoff, ledgerVars, saved, latchVars, hookVars, stop, crashes>>
  BY DEF WriterPastes, WriterEnters
<1>. QED
  BY <1>4, <1>5, <1>6 DEF Done, Typed, TypeOK, Counted, Waiting, WriteStates,
                          ledgerVars, latchVars, hookVars

(* The answer, or its loss, settles the latch of the clear it is about.    *)
LEMMA TypedAnswers ==
    ASSUME Typed, NEW c \in Clear, WriteSettles(c) \/ ReplyLost(c)
    PROVE  /\ Typed'
           /\ \E reply \in {"ok", "busy", "refused", "unknown"} : latch' = Settled(c, reply)
<1>1. write \in [Clear -> WriteStates]
  BY DEF Typed, TypeOK, WriteStates
<1>2. write' \in [Clear -> WriteStates]
  <2>1. NoWrite \in WriteStates
    BY DEF NoWrite, WriteStates
  <2>2. [write[c] EXCEPT !.awaited = FALSE] \in WriteStates
    BY <1>1, Zenon DEF WriteStates
  <2>. QED
    BY <1>1, <2>1, <2>2 DEF WriteSettles, ReplyLost
<1>3. PICK reply \in {"ok", "busy", "refused", "unknown"} : latch' = Settled(c, reply)
  BY <1>1 DEF WriteSettles, ReplyLost, WriteStates
<1>4. /\ latch' \in Latches /\ latch'.at = latch.at /\ (latch'.pending => latch.pending)
  BY <1>3, SettledTyped DEF Typed
<1>. QED
  BY <1>2, <1>3, <1>4 DEF WriteSettles, ReplyLost, Typed, TypeOK, Counted, Waiting, WriteStates,
                          Latches, ledgerVars, hookVars, paneVars

LEMMA MarkedTyped ==
    ASSUME TypeOK, MarkStale
    PROVE  stop' \in [Stop -> Stops] /\ write' \in [Clear -> WriteStates]
<1>1. stop \in [Stop -> Stops] /\ write \in [Clear -> WriteStates]
  BY DEF TypeOK, Stops, WriteStates
<1>2. ASSUME NEW h \in Stop PROVE [stop[h] EXCEPT !.stale = TRUE] \in Stops
  BY <1>1, Zenon DEF Stops
<1>3. ASSUME NEW c \in Clear PROVE [write[c] EXCEPT !.stale = TRUE] \in WriteStates
  BY <1>1, Zenon DEF WriteStates
<1>. QED
  BY <1>1, <1>2, <1>3 DEF MarkStale

LEMMA TypedEnvironment ==
    ASSUME Typed, Environment
    PROVE  Typed'
<1>1. ASSUME WorkArrives
      PROVE  Typed'
  BY <1>1, MarkedTyped DEF WorkArrives, Typed, TypeOK, Counted, Waiting, Stops, WriteStates,
                           ledgerVars, latchVars, paneVars
<1>2. ASSUME NEW source, SessionStarts(source)
      PROVE  Typed'
  <2>1. latch' \in Latches /\ latch'.at = latch.at /\ (latch'.pending => latch.pending)
    BY <1>2 DEF SessionStarts, Typed, TypeOK, Latches
  <2>2. gen' \in Nat /\ boot' \in Nat /\ session' \in 1 .. boot'
    BY <1>2 DEF SessionStarts, Typed, TypeOK
  <2>. QED
    BY <1>2, <2>1, <2>2, MarkedTyped
       DEF SessionStarts, Typed, TypeOK, Counted, Waiting, Stops, WriteStates, Latches,
           ledgerVars, paneVars
<1>3. ASSUME TimePasses
      PROVE  Typed'
  BY <1>3 DEF TimePasses, Typed, TypeOK, Counted, Waiting, ledgerVars, hookVars, paneVars
<1>4. ASSUME NEW landed \in BOOLEAN, Crash(landed)
      PROVE  Typed'
  <2>1. handoff \in Handoffs
    BY DEF Typed, TypeOK, Handoffs
  <2>2. [handoff EXCEPT !.row = "open"] \in Handoffs
    BY <2>1, Zenon DEF Handoffs
  <2>3. handoff' \in Handoffs /\ handoff'.req = handoff.req
    BY <1>4, <2>1, <2>2 DEF Crash, Handoffs
  <2>4. IdleStop \in Stops /\ NoWrite \in WriteStates
    BY DEF IdleStop, Stops, NoWrite, WriteStates
  <2>5. stop' \in [Stop -> Stops] /\ write' \in [Clear -> WriteStates]
    BY <1>4, <2>4 DEF Crash
  <2>. QED
    BY <1>4, <2>3, <2>5 DEF Crash, Typed, TypeOK, Counted, Waiting, Handoffs, Stops, WriteStates,
                            latchVars
<1>. QED
  BY <1>1, <1>2, <1>3, <1>4 DEF Environment

LEMMA TypedStutters == Typed /\ UNCHANGED vars => Typed'
  BY DEF vars, Typed, TypeOK, Counted, Waiting

LEMMA TypedStep == Typed /\ [Next]_vars => Typed'
<1>. SUFFICES ASSUME Typed, [Next]_vars PROVE Typed'
  OBVIOUS
<1>1. CASE Requests
  BY <1>1, TypedRequest, TypedUpserted, TypedHandoff DEF Requests
<1>2. ASSUME NEW h \in Stop, NEW s \in 1 .. session, StopEnters(h, s)
      PROVE  Typed'
  BY <1>2, TypedEnters
<1>3. ASSUME NEW h \in Stop, StopSteps(h)
      PROVE  Typed'
  BY <1>3, TypedClaims, TypedSends, TypedHandled DEF StopSteps
<1>4. ASSUME NEW c \in Clear, Writes(c) \/ ReplyLost(c)
      PROVE  Typed'
  BY <1>4, TypedWriter, TypedAnswers DEF Writes
<1>. QED
  BY <1>1, <1>2, <1>3, <1>4, TypedEnvironment, TypedStutters DEF Next

(* The state keeps its types, and the latch's clear is one that was asked  *)
(* for: no number of Stops, requests and crashes takes the count past the  *)
(* requests there were.                                                    *)
THEOREM ClearTypeCorrect == Spec => []TypeOK
<1>1. Typed => TypeOK
  BY DEF Typed
<1>. QED
  BY TypedInit, TypedStep, <1>1, PTL DEF Spec

-----------------------------------------------------------------------------
(* A clear is delivered once.                                              *)

(* Steps that send nothing, paste nothing and put no clear up for another  *)
(* try: the latch keeps its clear, and a write goes on or is forgotten.    *)
Calm ==
    /\ effects' = effects
    /\ latch'.at = latch.at
    /\ Undelivered' => Undelivered
    /\ \A c \in Clear : \/ write'[c].pc = "none"
                        \/ write'[c].pc = write[c].pc /\ write'[c].reply = write[c].reply

LEMMA CalmDelivers ==
    ASSUME Delivery, Typed', Calm
    PROVE  Delivery'
  BY DEF Delivery, Consistent, Calm

LEMMA ArmDelivers ==
    ASSUME Delivery, Typed', UNCHANGED <<write, effects>>,
           latch' = [pending |-> TRUE, at |-> latch.at + 1, state |-> "deferred_busy"]
    PROVE  Delivery'
<1>1. latch.at \in Nat
  BY DEF Delivery, Typed, TypeOK
<1>. QED
  BY <1>1 DEF Delivery, Consistent, Undelivered, Clear, Request

LEMMA SendDelivers ==
    ASSUME Delivery, Typed', NEW h \in Stop, Sends(h), UNCHANGED effects
    PROVE  Delivery'
<1>1. write \in [Clear -> WriteStates] /\ latch \in Latches
  BY DEF Delivery, Typed, TypeOK, WriteStates, Latches
<1>2. /\ latch'.at = latch.at /\ latch'.state = "sending" /\ latch.at # 0
      /\ latch.pending /\ latch.state = "deferred_busy"
  BY <1>1 DEF Sends, Latches, Undelivered, Delivery, Typed, Counted
<1>3. latch.at \in Clear
  BY <1>1, <1>2 DEF Latches, Clear, Request
<1>4. write'[latch.at].pc = "sent" /\ \A c \in Clear \ {latch.at} : write'[c] = write[c]
  BY <1>1, <1>3 DEF Sends
<1>. QED
  BY <1>1, <1>2, <1>3, <1>4 DEF Delivery, Consistent, Undelivered, Clear, Request, Latches

LEMMA RepliesSay ==
    ASSUME TypeOK, NEW c \in Clear, NEW answer \in {"ok", "busy", "refused", "unknown"}
    PROVE  /\ Replies(c, answer)[c].pc \in {"none", "replied"}
           /\ Replies(c, answer)[c].pc = "replied" => Replies(c, answer)[c].reply = answer
           /\ \A d \in Clear \ {c} : Replies(c, answer)[d] = write[d]
<1>1. write \in [Clear -> WriteStates]
  BY DEF TypeOK, WriteStates
<1>. QED
  BY <1>1 DEF Replies, NoWrite

(* The latch of a clear that is under way is not up for another try.       *)
LEMMA PasteDelivers ==
    ASSUME Delivery, Typed', NEW c \in Clear, NEW refusal \in Refusals(c), NEW fails \in BOOLEAN,
           WriterPastes(c, refusal, fails)
    PROVE  Delivery'
<1>1. /\ write \in [Clear -> WriteStates] /\ latch' = latch
      /\ effects \in [Clear -> [pastes : Nat, stale : BOOLEAN]]
      /\ refusal \in {"none", "busy", "refused"} /\ TypeOK
  BY DEF Delivery, Typed, TypeOK, WriteStates, WriterPastes, latchVars, Refusals
<1>2. effects[c].pastes = 0 /\ write[c].pc = "sent"
  BY DEF WriterPastes, Delivery, Consistent
<1>3. CASE refusal = "none"
  <2>1. /\ write'[c].pc \in {"none", "pasted", "replied"}
        /\ write'[c].pc = "replied" => write'[c].reply = "unknown"
        /\ \A d \in Clear \ {c} : write'[d] = write[d]
    <3>1. CASE fails
      BY <1>1, <1>3, <3>1, RepliesSay DEF WriterPastes
    <3>2. CASE ~fails
      <4>1. write' = [write EXCEPT ![c] = [write[c] EXCEPT !.pc = "pasted"]]
        BY <1>3, <3>2 DEF WriterPastes
      <4>2. [write[c] EXCEPT !.pc = "pasted"].pc = "pasted"
        BY <1>1 DEF WriteStates
      <4>. QED
        BY <1>1, <4>1, <4>2
    <3>. QED
      BY <3>1, <3>2
  <2>2. effects'[c].pastes = 1 /\ \A d \in Clear \ {c} : effects'[d] = effects[d]
    BY <1>1, <1>2, <1>3 DEF WriterPastes
  <2>3. ASSUME NEW d \in Clear PROVE Consistent(d)'
    BY <1>1, <1>2, <2>1, <2>2 DEF Delivery, Consistent, Undelivered
  <2>. QED
    BY <2>3 DEF Delivery
<1>4. CASE refusal # "none"
  <2>1. /\ write'[c].pc \in {"none", "replied"}
        /\ \A d \in Clear \ {c} : write'[d] = write[d]
        /\ effects' = effects
    BY <1>1, <1>4, RepliesSay DEF WriterPastes
  <2>2. ASSUME NEW d \in Clear PROVE Consistent(d)'
    BY <1>1, <1>2, <2>1 DEF Delivery, Consistent, Undelivered
  <2>. QED
    BY <2>2 DEF Delivery
<1>. QED
  BY <1>3, <1>4

LEMMA EnterDelivers ==
    ASSUME Delivery, Typed', NEW c \in Clear, NEW refusal \in Refusals(c), NEW fails \in BOOLEAN,
           WriterEnters(c, refusal, fails)
    PROVE  Delivery'
<1>1. /\ write \in [Clear -> WriteStates] /\ latch' = latch /\ write[c].pc = "pasted"
      /\ effects \in [Clear -> [pastes : Nat, stale : BOOLEAN]] /\ TypeOK
  BY DEF Delivery, Typed, TypeOK, WriteStates, WriterEnters, latchVars
<1>2. /\ write'[c].pc \in {"none", "replied"}
      /\ write'[c].pc = "replied" => write'[c].reply \in {"ok", "unknown"}
      /\ \A d \in Clear \ {c} : write'[d] = write[d]
  BY <1>1, RepliesSay DEF WriterEnters
<1>3. \A d \in Clear : effects'[d].pastes = effects[d].pastes
  BY <1>1 DEF WriterEnters
<1>4. ASSUME NEW d \in Clear PROVE Consistent(d)'
  BY <1>1, <1>2, <1>3 DEF Delivery, Consistent, Undelivered
<1>. QED
  BY <1>4 DEF Delivery

(* Only a writer that found the pane busy gives the clear back.            *)
LEMMA AnswerDelivers ==
    ASSUME Delivery, Typed', NEW c \in Clear, WriteSettles(c) \/ ReplyLost(c)
    PROVE  Delivery'
<1>1. /\ write \in [Clear -> WriteStates] /\ latch \in Latches /\ effects' = effects
  BY DEF Delivery, Typed, TypeOK, WriteStates, Latches, WriteSettles, ReplyLost, paneVars
<1>2. CASE WriteSettles(c) /\ write[c].reply = "busy"
  <2>1. /\ write[c].pc = "replied" /\ effects[c].pastes = 0
    BY <1>2 DEF WriteSettles, Delivery, Consistent
  <2>2. write'[c].pc = "none" /\ \A d \in Clear \ {c} : write'[d] = write[d]
    BY <1>1, <1>2 DEF WriteSettles, NoWrite
  <2>3. latch'.at = latch.at /\ (latch' = latch \/ latch.at = c)
    BY <1>1, <1>2 DEF WriteSettles, Settled, Latches
  <2>4. ASSUME NEW d \in Clear PROVE Consistent(d)'
    BY <1>1, <2>1, <2>2, <2>3 DEF Delivery, Consistent, Undelivered
  <2>. QED
    BY <2>4 DEF Delivery
<1>3. CASE ~(WriteSettles(c) /\ write[c].reply = "busy")
  <2>1. PICK reply \in {"ok", "refused", "unknown"} : latch' = Settled(c, reply)
    BY <1>1, <1>3 DEF WriteSettles, ReplyLost, WriteStates
  <2>2. latch'.at = latch.at /\ (Undelivered' => Undelivered)
    BY <1>1, <2>1 DEF Settled, Latches, Undelivered
  <2>3. ASSUME NEW d \in Clear
        PROVE  \/ write'[d].pc = "none"
               \/ write'[d].pc = write[d].pc /\ write'[d].reply = write[d].reply
    BY <1>1 DEF WriteSettles, ReplyLost, NoWrite, WriteStates
  <2>. QED
    BY <1>1, <2>2, <2>3, CalmDelivers DEF Calm
<1>. QED
  BY <1>2, <1>3



LEMMA DeliveryInit == Init => Delivery
<1>. SUFFICES ASSUME Init PROVE Delivery
  OBVIOUS
<1>1. Typed
  BY TypedInit
<1>2. latch = [pending |-> FALSE, at |-> 0, state |-> "none"]
  BY DEF Init
<1>3. \A c \in Clear : write[c].pc = "none" /\ effects[c].pastes = 0
  BY DEF Init, NoWrite
<1>. QED
  BY <1>1, <1>2, <1>3 DEF Delivery, Consistent, Undelivered

LEMMA DeliveryStep == Delivery /\ [Next]_vars => Delivery'
<1>. SUFFICES ASSUME Delivery, [Next]_vars PROVE Delivery'
  OBVIOUS
<1>1. Typed /\ Typed'
  BY TypedStep DEF Delivery
<1>2. latch \in Latches
  BY <1>1 DEF Typed, TypeOK, Latches
<1>. USE DEF latchVars, paneVars, Calm
<1>3. CASE Requests
  <2>1. write' = write /\ effects' = effects
    BY <1>3 DEF Requests, RequestClear, Upserted, SaveHandoff, ResolveByHand
  <2>2. latch'.at = latch.at /\ (Undelivered' => Undelivered)
    BY <1>2, <1>3
       DEF Requests, RequestClear, Upserted, SaveHandoff, ResolveByHand, Latches, Undelivered
  <2>. QED
    BY <1>1, <2>1, <2>2, CalmDelivers
<1>4. ASSUME NEW h \in Stop, NEW s, StopEnters(h, s)
      PROVE  Delivery'
  BY <1>1, <1>4, CalmDelivers DEF StopEnters, Undelivered
<1>5. ASSUME NEW h \in Stop, NEW exits \in BOOLEAN, NEW lookup, NEW recent \in BOOLEAN,
             StopClaims(h, exits, lookup, recent)
      PROVE  Delivery'
  <2>1. write' = write /\ effects' = effects
    BY <1>5 DEF StopClaims, ArmAfterSave
  <2>2. CASE latch' = latch
    BY <1>1, <2>1, <2>2, CalmDelivers DEF Undelivered
  <2>3. CASE latch' # latch
    <3>1. ArmAfterSave(h, lookup, recent)
      BY <1>5, <2>3 DEF StopClaims
    <3>. QED
      BY <1>1, <2>1, <2>3, <3>1, ArmSteps, ArmDelivers
  <2>. QED
    BY <2>2, <2>3
<1>6. ASSUME NEW h \in Stop, StopSends(h)
      PROVE  Delivery'
  <2>1. effects' = effects
    BY <1>6 DEF StopSends
  <2>2. CASE Sends(h)
    BY <1>1, <2>1, <2>2, SendDelivers
  <2>3. CASE UNCHANGED <<latch, write>>
    BY <1>1, <2>1, <2>3, CalmDelivers DEF Undelivered
  <2>. QED
    BY <1>1, <1>6, <2>2, <2>3, TypedSends
<1>7. ASSUME NEW h \in Stop, StopHandled(h)
      PROVE  Delivery'
  <2>1. write' = write /\ effects' = effects
    BY <1>7 DEF StopHandled
  <2>2. latch'.at = latch.at /\ (Undelivered' => Undelivered)
    BY <1>1, <1>7, TypedHandled DEF Undelivered
  <2>. QED
    BY <1>1, <2>1, <2>2, CalmDelivers
<1>8. ASSUME NEW c \in Clear, Writes(c) \/ ReplyLost(c)
      PROVE  Delivery'
  BY <1>1, <1>8, PasteDelivers, EnterDelivers, AnswerDelivers DEF Writes
<1>9. CASE Environment
  <2>1. effects' = effects
    BY <1>9 DEF Environment, WorkArrives, SessionStarts, TimePasses, Crash
  <2>2. latch'.at = latch.at /\ (Undelivered' => Undelivered)
    BY <1>2, <1>9
       DEF Environment, WorkArrives, SessionStarts, TimePasses, Crash, Latches, Undelivered
  <2>3. write \in [Clear -> WriteStates]
    BY <1>1 DEF Typed, TypeOK, WriteStates
  <2>4. \/ write' = write
        \/ MarkStale
        \/ write' = [c \in Clear |-> NoWrite]
    BY <1>9 DEF Environment, WorkArrives, SessionStarts, TimePasses, Crash
  <2>5. ASSUME NEW c \in Clear
        PROVE  \/ write'[c].pc = "none"
               \/ write'[c].pc = write[c].pc /\ write'[c].reply = write[c].reply
    BY <2>3, <2>4 DEF MarkStale, NoWrite, WriteStates
  <2>. QED
    BY <1>1, <2>1, <2>2, <2>5, CalmDelivers
<1>10. CASE UNCHANGED vars
  BY <1>1, <1>10, CalmDelivers DEF vars, Undelivered
<1>. QED
  BY <1>3, <1>4, <1>5, <1>6, <1>7, <1>8, <1>9, <1>10 DEF Next, StopSteps

(* A clear reaches the pane at most once, for any number of Stops, lost    *)
(* replies, replaced requests, sessions and restarts.                      *)
THEOREM ClearPastedOnce == Spec => []PastedOnce
<1>1. Delivery => PastedOnce
  BY DEF Delivery, Consistent, PastedOnce
<1>. QED
  BY DeliveryInit, DeliveryStep, <1>1, PTL DEF Spec

(* What the latch will try again has not reached the pane: the reason for  *)
(* the theorem before.                                                     *)
THEOREM ClearRetryUntried == Spec => []RetryIsUntried
<1>1. Delivery => RetryIsUntried
  <2>. SUFFICES ASSUME Delivery, Undelivered PROVE effects[latch.at].pastes = 0
    BY DEF RetryIsUntried
  <2>1. latch.at \in Clear
    BY DEF Delivery, Typed, TypeOK, Counted, Undelivered, Clear, Request
  <2>. QED
    BY <2>1 DEF Delivery, Consistent
<1>. QED
  BY DeliveryInit, DeliveryStep, <1>1, PTL DEF Spec

-----------------------------------------------------------------------------
(* Nothing stale reaches the pane.                                         *)
Unstale == Typed /\ PinsOld /\ NoStaleEffect

LEMMA UnstaleInit == Init => Unstale
<1>. SUFFICES ASSUME Init PROVE Unstale
  OBVIOUS
<1>1. \A h \in Stop : stop[h].pc = "idle"
  BY DEF Init, IdleStop
<1>2. \A c \in Clear : write[c].pc = "none" /\ effects[c].stale = FALSE
  BY DEF Init, NoWrite
<1>. QED
  BY <1>1, <1>2, TypedInit DEF Unstale, PinsOld, NoStaleEffect

(* New work and a new session take the generation past every pin.          *)
LEMMA MarkedPins ==
    ASSUME Unstale, Typed', MarkStale, gen' = gen + 1, UNCHANGED effects
    PROVE  Unstale'
<1>1. gen \in Nat /\ stop \in [Stop -> Stops] /\ write \in [Clear -> WriteStates]
  BY DEF Unstale, Typed, TypeOK, Stops, WriteStates
<1>2. ASSUME NEW h \in Stop, stop'[h].pc \in {"entered", "claimed"}
      PROVE  PinOf(stop[h])'
  <2>1. stop'[h] = [stop[h] EXCEPT !.stale = TRUE] /\ stop[h].pc \in {"entered", "claimed"}
    BY <1>1, <1>2 DEF MarkStale, Stops
  <2>2. stop[h].gen <= gen /\ stop[h].gen \in Nat
    BY <1>1, <2>1 DEF Unstale, PinsOld, PinOf, Stops
  <2>3. stop'[h].gen = stop[h].gen
    BY <1>1, <2>1 DEF Stops
  <2>. QED
    BY <1>1, <2>2, <2>3 DEF PinOf
<1>3. ASSUME NEW c \in Clear, write'[c].pc \in {"sent", "pasted"}
      PROVE  PinOf(write[c])'
  <2>1. write'[c] = [write[c] EXCEPT !.stale = TRUE] /\ write[c].pc \in {"sent", "pasted"}
    BY <1>1, <1>3 DEF MarkStale, WriteStates
  <2>2. write[c].gen <= gen /\ write[c].gen \in Nat
    BY <1>1, <2>1 DEF Unstale, PinsOld, PinOf, WriteStates
  <2>3. write'[c].gen = write[c].gen
    BY <1>1, <2>1 DEF WriteStates
  <2>. QED
    BY <1>1, <2>2, <2>3 DEF PinOf
<1>. QED
  BY <1>2, <1>3 DEF Unstale, PinsOld, NoStaleEffect

(* A Stop takes its pins at the entry, keeps them through the claim, and   *)
(* hands them to the write.                                                *)
LEMMA StopPins ==
    ASSUME Unstale, Typed', NEW h \in Stop,
           \/ \E s : StopEnters(h, s)
           \/ StopSteps(h)
    PROVE  Unstale'
<1>1. /\ gen \in Nat /\ stop \in [Stop -> Stops] /\ write \in [Clear -> WriteStates]
      /\ latch \in Latches
  BY DEF Unstale, Typed, TypeOK, Stops, WriteStates, Latches
<1>2. gen' = gen /\ effects' = effects
  BY DEF StopEnters, StopSteps, StopClaims, ArmAfterSave, StopSends, StopHandled,
         hookVars, paneVars
<1>3. \A g \in Stop \ {h} : stop'[g] = stop[g]
  BY <1>1 DEF StopEnters, StopSteps, StopClaims, StopSends, StopHandled
<1>4. stop'[h].pc \in {"entered", "claimed"} => PinOf(stop[h])'
  <2>1. CASE \E s : StopEnters(h, s)
    <3>1. stop'[h].gen = gen /\ stop'[h].stale = FALSE
      BY <1>1, <2>1 DEF StopEnters
    <3>. QED
      BY <1>1, <1>2, <3>1 DEF PinOf
  <2>2. ASSUME NEW exits \in BOOLEAN, NEW lookup \in Lookups, NEW recent \in BOOLEAN,
               StopClaims(h, exits, lookup, recent)
        PROVE  stop'[h].pc \in {"entered", "claimed"} => PinOf(stop[h])'
    <3>1. CASE stop'[h] = ToHook(h)
      BY <3>1, HookTyped DEF Unstale, Typed
    <3>2. CASE stop'[h] # ToHook(h)
      <4>1. stop'[h] = [stop[h] EXCEPT !.pc = "claimed"] /\ stop[h].pc = "entered"
        BY <1>1, <2>2, <3>2 DEF StopClaims
      <4>2. stop'[h].gen = stop[h].gen /\ stop'[h].stale = stop[h].stale
        BY <1>1, <4>1 DEF Stops
      <4>. QED
        BY <1>2, <4>1, <4>2 DEF Unstale, PinsOld, PinOf
    <3>. QED
      BY <3>1, <3>2
  <2>3. CASE StopSends(h) \/ StopHandled(h)
    <3>1. stop'[h] \in {ToHook(h), IdleStop}
      BY <1>1, <2>3 DEF StopSends, StopHandled
    <3>2. IdleStop.pc = "idle" /\ ToHook(h).pc = "hook"
      BY HookTyped DEF IdleStop, Unstale, Typed
    <3>. QED
      BY <3>1, <3>2
  <2>. QED
    BY <2>1, <2>2, <2>3 DEF StopSteps
<1>5. ASSUME NEW c \in Clear, write'[c].pc \in {"sent", "pasted"}
      PROVE  PinOf(write[c])'
  <2>1. CASE write'[c] = write[c]
    BY <1>2, <1>5, <2>1 DEF Unstale, PinsOld, PinOf
  <2>2. CASE write'[c] # write[c]
    <3>1. StopSends(h)
      BY <2>2 DEF StopEnters, StopSteps, StopClaims, ArmAfterSave, StopHandled
    <3>2. Sends(h)
      BY <2>2, <3>1, TypedSends DEF Unstale
    <3>3. write'[c].gen = stop[h].gen /\ write'[c].stale = stop[h].stale
      BY <1>1, <2>2, <3>2 DEF Sends
    <3>. QED
      BY <1>2, <3>2, <3>3 DEF Sends, Unstale, PinsOld, PinOf
  <2>. QED
    BY <2>1, <2>2
<1>6. \A g \in Stop : stop'[g].pc \in {"entered", "claimed"} => PinOf(stop[g])'
  BY <1>2, <1>3, <1>4 DEF Unstale, PinsOld, PinOf
<1>. QED
  BY <1>2, <1>5, <1>6 DEF Unstale, PinsOld, NoStaleEffect

(* The fence lets through only what was pinned to this generation, and     *)
(* that is not stale.                                                      *)
LEMMA WriterPins ==
    ASSUME Unstale, Typed', NEW c \in Clear,
           NEW refusal \in Refusals(c), NEW fails \in BOOLEAN,
           WriterPastes(c, refusal, fails) \/ WriterEnters(c, refusal, fails)
    PROVE  Unstale'
<1>1. /\ gen \in Nat /\ write \in [Clear -> WriteStates] /\ TypeOK
      /\ effects \in [Clear -> [pastes : Nat, stale : BOOLEAN]]
      /\ write[c].pc \in {"sent", "pasted"}
      /\ gen' = gen /\ stop' = stop
      /\ refusal \in {"none", "busy", "refused"}
  BY DEF Unstale, Typed, TypeOK, WriteStates, WriterPastes, WriterEnters, hookVars, Refusals
<1>2. ASSUME refusal = "none"
      PROVE  ~write[c].stale
  <2>1. write[c].gen = gen
    BY <1>2 DEF Refusals
  <2>. QED
    BY <1>1, <2>1 DEF Unstale, PinsOld, PinOf
<1>3. NoStaleEffect'
  <2>1. ~effects[c].stale
    BY DEF Unstale, NoStaleEffect
  <2>2. CASE refusal # "none"
    <3>1. effects' = effects
      BY <2>2 DEF WriterPastes, WriterEnters
    <3>. QED
      BY <3>1 DEF Unstale, NoStaleEffect
  <2>3. CASE refusal = "none"
    <3>1. ~(effects[c].stale \/ write[c].stale)
      BY <1>2, <2>1, <2>3
    <3>. DEFINE t == effects[c].stale \/ write[c].stale
    <3>2. \/ effects' = [effects EXCEPT ![c] = [pastes |-> effects[c].pastes + 1, stale |-> t]]
          \/ effects' = [effects EXCEPT ![c] = [effects[c] EXCEPT !.stale = t]]
      BY <2>3 DEF WriterPastes, WriterEnters
    <3>3. ~t
      BY <3>1
    <3>. HIDE DEF t
    <3>4. effects'[c].stale = t /\ \A d \in Clear \ {c} : effects'[d] = effects[d]
      BY <1>1, <3>2
    <3>. QED
      BY <3>3, <3>4 DEF Unstale, NoStaleEffect
  <2>. QED
    BY <2>2, <2>3
<1>4. ASSUME NEW d \in Clear, write'[d].pc \in {"sent", "pasted"}
      PROVE  PinOf(write[d])'
  <2>1. \/ write'[d] = write[d]
        \/ d = c /\ write'[d].gen = write[d].gen /\ write'[d].stale = write[d].stale
    <3>1. CASE write' = [write EXCEPT ![c] = [write[c] EXCEPT !.pc = "pasted"]]
      BY <1>1, <3>1 DEF WriteStates
    <3>2. CASE \E answer \in {"ok", "busy", "refused", "unknown"} : write' = Replies(c, answer)
      BY <1>1, <1>4, <3>2, RepliesSay
    <3>. QED
      BY <1>1, <3>1, <3>2 DEF WriterPastes, WriterEnters
  <2>2. CASE write'[d] = write[d]
    BY <1>1, <1>4, <2>2 DEF Unstale, PinsOld, PinOf
  <2>3. CASE d = c /\ write'[d].gen = write[d].gen /\ write'[d].stale = write[d].stale
    BY <1>1, <2>3 DEF Unstale, PinsOld, PinOf
  <2>. QED
    BY <2>1, <2>2, <2>3
<1>. QED
  BY <1>1, <1>3, <1>4 DEF Unstale, PinsOld, PinOf

LEMMA UnstaleStep == Unstale /\ [Next]_vars => Unstale'
<1>. SUFFICES ASSUME Unstale, [Next]_vars PROVE Unstale'
  OBVIOUS
<1>1. Typed /\ Typed'
  BY TypedStep DEF Unstale
<1>2. /\ write \in [Clear -> WriteStates] /\ stop \in [Stop -> Stops]
  BY <1>1 DEF Typed, TypeOK, WriteStates, Stops
<1>3. ASSUME UNCHANGED <<gen, stop, write, effects>>
      PROVE  Unstale'
  BY <1>1, <1>3 DEF Unstale, PinsOld, PinOf, NoStaleEffect
<1>4. CASE Requests
  BY <1>3, <1>4 DEF Requests, RequestClear, Upserted, SaveHandoff, ResolveByHand,
                    hookVars, paneVars
<1>5. ASSUME NEW h \in Stop, (\E s : StopEnters(h, s)) \/ StopSteps(h)
      PROVE  Unstale'
  BY <1>1, <1>5, StopPins
<1>6. ASSUME NEW c \in Clear, WriteSettles(c) \/ ReplyLost(c)
      PROVE  Unstale'
  <2>1. gen' = gen /\ stop' = stop /\ effects' = effects
    BY <1>6 DEF WriteSettles, ReplyLost, hookVars, paneVars
  <2>2. ASSUME NEW d \in Clear, write'[d].pc \in {"sent", "pasted"}
        PROVE  PinOf(write[d])'
    <3>1. /\ write'[d].pc = write[d].pc /\ write'[d].gen = write[d].gen
          /\ write'[d].stale = write[d].stale
      BY <1>2, <1>6, <2>2 DEF WriteSettles, ReplyLost, NoWrite, WriteStates
    <3>. QED
      BY <2>1, <2>2, <3>1 DEF Unstale, PinsOld, PinOf
  <2>. QED
    BY <1>1, <2>1, <2>2 DEF Unstale, PinsOld, PinOf, NoStaleEffect
<1>7. ASSUME NEW c \in Clear, Writes(c)
      PROVE  Unstale'
  BY <1>1, <1>6, <1>7, WriterPins DEF Writes
<1>8. CASE Environment
  <2>1. CASE WorkArrives \/ \E source : SessionStarts(source)
    BY <1>1, <2>1, MarkedPins DEF WorkArrives, SessionStarts, paneVars
  <2>2. CASE TimePasses
    BY <1>3, <2>2 DEF TimePasses, hookVars, paneVars
  <2>3. CASE \E landed \in BOOLEAN : Crash(landed)
    <3>1. /\ \A h \in Stop : stop'[h].pc = "idle"
          /\ \A c \in Clear : write'[c].pc = "none"
          /\ effects' = effects
      BY <2>3 DEF Crash, IdleStop, NoWrite
    <3>. QED
      BY <1>1, <3>1 DEF Unstale, PinsOld, NoStaleEffect
  <2>. QED
    BY <1>8, <2>1, <2>2, <2>3 DEF Environment
<1>9. CASE UNCHANGED vars
  BY <1>3, <1>9 DEF vars
<1>. QED
  BY <1>4, <1>5, <1>6, <1>7, <1>8, <1>9 DEF Next

(* The writer does nothing to the pane for a Stop that work or a session   *)
(* has overtaken, at any of the awaits between its entry and the Enter.    *)
THEOREM ClearNeverStale == Spec => []NoStaleEffect
<1>1. Unstale => NoStaleEffect
  BY DEF Unstale
<1>. QED
  BY UnstaleInit, UnstaleStep, <1>1, PTL DEF Spec

-----------------------------------------------------------------------------
(* The obligation.                                                         *)

(* A row of the ledger is never taken back, and "created" is said only of  *)
(* a row that was found or whose write was acknowledged - for the request  *)
(* that asked, not for the one that may have replaced it.                  *)
THEOREM ClearCreatedKnown == Spec => []CreatedIsKnown
<1>. DEFINE Known == Typed /\ CreatedIsKnown
<1>1. Init => Known
  BY TypedInit DEF Init, NoHandoff, CreatedIsKnown
<1>2. ASSUME Typed, CreatedIsKnown, NEW lookup \in Lookups
      PROVE  Reconciled(lookup).obl = "created" => Reconciled(lookup).row # "absent"
  <2>1. handoff \in Handoffs
    BY <1>2 DEF Typed, TypeOK, Handoffs
  <2>2. CASE ~Reconciles
    BY <1>2, <2>2 DEF Reconciled, CreatedIsKnown
  <2>3. CASE Reconciles
    <3>1. lookup = "found" => handoff.row # "absent"
      BY <2>3 DEF Lookups
    <3>. QED
      BY <2>1, <2>3, <3>1 DEF Reconciled, Reconciles, NoHandoff, Handoffs
  <2>. QED
    BY <2>2, <2>3
<1>3. ASSUME Typed, CreatedIsKnown, [Next]_vars
      PROVE  CreatedIsKnown'
  <2>1. handoff \in Handoffs
    BY <1>3 DEF Typed, TypeOK, Handoffs
  <2>2. CASE handoff' \in {handoff, NoHandoff}
    BY <1>3, <2>2 DEF CreatedIsKnown, NoHandoff
  <2>3. ASSUME NEW automatic, NEW replace \in BOOLEAN, NEW lookup \in Lookups,
               RequestClear(automatic, replace, lookup)
        PROVE  CreatedIsKnown'
    <3>1. \/ handoff' \in {NoHandoff, Reconciled(lookup)}
          \/ handoff' = [NoHandoff EXCEPT !.req = asked', !.session = session]
      BY <2>3 DEF RequestClear
    <3>2. /\ NoHandoff.obl = "uncertain"
          /\ [NoHandoff EXCEPT !.req = asked', !.session = session].obl = "uncertain"
      BY DEF NoHandoff
    <3>. QED
      BY <1>2, <1>3, <3>1, <3>2 DEF CreatedIsKnown
  <2>4. ASSUME NEW r, NEW written \in BOOLEAN, NEW acked \in BOOLEAN,
               Upserted(r, written, acked)
        PROVE  CreatedIsKnown'
    <3>. DEFINE o == IF acked THEN "created" ELSE "uncertain"
                w == IF written THEN "open" ELSE handoff.row
    <3>1. handoff' = handoff \/ handoff' = [handoff EXCEPT !.obl = o, !.row = w]
      BY <2>4 DEF Upserted
    <3>2. o = "created" => w = "open"
      BY <2>4 DEF Upserted
    <3>. HIDE DEF o, w
    <3>3. [handoff EXCEPT !.obl = o, !.row = w].obl = o
          /\ [handoff EXCEPT !.obl = o, !.row = w].row = w
      BY <2>1 DEF Handoffs
    <3>. QED
      BY <1>3, <3>1, <3>2, <3>3 DEF CreatedIsKnown
  <2>5. CASE ResolveByHand \/ \E landed \in BOOLEAN : Crash(landed)
    <3>1. \/ handoff' = handoff
          \/ handoff' = [handoff EXCEPT !.row = "resolved"]
          \/ handoff' = [handoff EXCEPT !.row = "open"]
      BY <2>5 DEF ResolveByHand, Crash
    <3>. QED
      BY <1>3, <2>1, <3>1 DEF CreatedIsKnown, Handoffs
  <2>6. ASSUME NEW h \in Stop, NEW exits, NEW lookup \in Lookups, NEW recent,
               StopClaims(h, exits, lookup, recent)
        PROVE  CreatedIsKnown'
    <3>1. handoff' \in {handoff, NoHandoff, Reconciled(lookup)}
      BY <2>6 DEF StopClaims, ArmAfterSave
    <3>. QED
      BY <1>2, <1>3, <2>2, <3>1 DEF CreatedIsKnown
  <2>7. ASSUME NEW h \in Stop,
               (\E s : StopEnters(h, s)) \/ StopSends(h) \/ StopHandled(h)
        PROVE  CreatedIsKnown'
    BY <2>2, <2>7 DEF StopEnters, StopSends, StopHandled
  <2>8. ASSUME NEW c \in Clear, Writes(c) \/ ReplyLost(c)
        PROVE  CreatedIsKnown'
    BY <2>2, <2>8 DEF Writes, WriterPastes, WriterEnters, WriteSettles, ReplyLost
  <2>9. CASE WorkArrives \/ TimePasses \/ \E source : SessionStarts(source)
    BY <2>2, <2>9 DEF WorkArrives, TimePasses, SessionStarts
  <2>10. CASE SaveHandoff \/ UNCHANGED vars
    BY <2>2, <2>10 DEF SaveHandoff, vars
  <2>. QED
    BY <1>3, <2>3, <2>4, <2>5, <2>6, <2>7, <2>8, <2>9, <2>10
       DEF Next, Requests, StopSteps, Environment
<1>4. Known /\ [Next]_vars => Known'
  BY <1>3, TypedStep
<1>5. Known => CreatedIsKnown
  OBVIOUS
<1>. QED
  BY <1>1, <1>4, <1>5, PTL DEF Spec





=============================================================================
