------------------------------ MODULE HookTurn ------------------------------
(***************************************************************************)
(* The hook route POST /hooks/slot/:n (src/src/server.ts) and the part of  *)
(* HookProcessor (src/src/hooks.ts) that writes the slot row, together     *)
(* with the agent whose hooks they are. A handler waits for three git      *)
(* commands, and the one of a Stop then for `gh pr list`; from one await   *)
(* to the next it runs alone. The agent waits for its hook's answer, but   *)
(* hook-relay.sh gives up after three seconds and lets it go on, while     *)
(* the handler goes on too.                                                *)
(*                                                                         *)
(* The claims and releases beside it are the guarded ones, which promise   *)
(* to leave a running turn alone; the unconditional ones (operator release *)
(* and overwrite) interrupt the pane instead. The start of a turn is       *)
(* always heard: a turn whose UserPromptSubmit is lost is one nobody can   *)
(* know of.                                                                *)
(***************************************************************************)
EXTENDS SlotAuthority

CONSTANTS Hook,        \* hook requests the server may be working on at once
          Ancestor,    \* pairs <<h, g>> of commits where h is an ancestor of g
          Patient      \* whether the agent waits for its answer however long

VARIABLES pane,        \* the agent of each slot, which nobody can read
          hook         \* the handlers' local state

hookVars == <<vars, pane, hook>>

Pane == [session : Turn, running : BOOLEAN, branch : Branch, head : HeadSha]

(* ref, base and epoch are what the handler read when it started; head is  *)
(* what git answered.                                                      *)
Handling == [pc : {"branch", "head", "line", "pr"}, slot : Slot,
             type : {"PostToolUse", "SessionStart", "Stop"}, session : Turn,
             ref : Branch \cup {NULL}, base : HeadSha \cup {NULL}, epoch : Nat,
             head : HeadSha \cup {NULL}]

HookInit ==
    /\ Init
    /\ pane \in [Slot -> [session : Turn, running : {FALSE},
                          branch : Branch, head : HeadSha]]
    /\ hook = [k \in Hook |-> NULL]

Handlers(s) == {k \in Hook : hook[k] # NULL /\ hook[k].slot = s}

(* The agent of slot s is not held up by a hook.                           *)
Free(s) == Patient => Handlers(s) = {}

-----------------------------------------------------------------------------
(* What a handler makes of the row r when it comes to the hook itself: the *)
(* idle flag and the activity. A Stop under do-not-disturb leaves the      *)
(* activity alone, and so does one that waits for a plan's approval; one   *)
(* whose last words ask the manager for direction says so if the slot has  *)
(* an owner.                                                               *)
Handled(r, type) ==
    CASE type = "Stop" ->
            {[r EXCEPT !.idle = TRUE, !.activity = a] :
                a \in {r.activity} \cup (IF r.dnd THEN {} ELSE {NULL})
                         \cup (IF ~ r.dnd /\ r.occupied THEN {WaitingForPm} ELSE {})}
      [] type = "PostToolUse" ->
            {[r EXCEPT !.idle = FALSE, !.activity = a] :
                a \in Activity \cup {IF r.activity = WaitingForPm THEN NULL ELSE r.activity}}
      [] OTHER -> {r}

(* Only a Stop that leaves the slot plainly idle asks GitHub for a pull    *)
(* request of the branch.                                                  *)
AsksForPr(r) == ~ r.dnd /\ r.activity = NULL /\ r.occupied /\ r.own.ref # NULL

(* The rest of the handler h of request k, to its next await or its end,   *)
(* on the row r.                                                           *)
Proceed(k, h, r) ==
    \E q \in Handled(r, h.type) :
        IF h.type = "Stop" /\ AsksForPr(q)
        THEN /\ Write(h.slot, q)
             /\ hook' = [hook EXCEPT ![k] = [h EXCEPT !.pc = "pr"]]
        ELSE /\ Write(h.slot, IF h.type = "Stop" THEN AfterFinish(q, h.session) ELSE q)
             /\ hook' = [hook EXCEPT ![k] = NULL]

(* syncObservedCheckout looks only at a branch somebody owns, and not on   *)
(* behalf of a session other than the turn's.                              *)
Observing(r, session) ==
    r.occupied /\ r.own.ref # NULL /\ r.turn \in {NULL, session}

(* A hook arrives; r is the row as the route leaves it before processing.  *)
Arrive(k, s, type, r) ==
    LET see == Observing(r, pane[s].session)
        h   == [pc |-> "branch", slot |-> s, type |-> type,
                session |-> pane[s].session,
                ref |-> IF see THEN r.own.ref ELSE NULL,
                base |-> IF see THEN r.own.head ELSE NULL,
                epoch |-> r.epoch, head |-> NULL]
    IN  /\ hook[k] = NULL
        /\ IF see
           THEN Write(s, r) /\ hook' = [hook EXCEPT ![k] = h]
           ELSE Proceed(k, h, r)
        /\ UNCHANGED receipts

-----------------------------------------------------------------------------
(* The agent.                                                              *)

(* A prompt starts a turn, of the same session or, after a clear, of a new *)
(* one. Its hook is handled at once.                                       *)
Submit(s) ==
    /\ Free(s) /\ ~ pane[s].running
    /\ \E session \in Turn :
          /\ pane' = [pane EXCEPT ![s].running = TRUE, ![s].session = session]
          /\ Write(s, [rows[s] EXCEPT
                !.turn = session, !.turnState = "active", !.idle = FALSE, !.fresh = TRUE,
                !.activity = IF @ = WaitingForPm THEN NULL ELSE @])
    /\ UNCHANGED <<receipts, hook>>

(* A tool returns.                                                         *)
Tool(k, s) ==
    /\ Free(s) /\ pane[s].running
    /\ Arrive(k, s, "PostToolUse", [rows[s] EXCEPT !.idle = FALSE, !.fresh = TRUE])
    /\ UNCHANGED pane

(* The agent commits, amends, resets or changes branches.                  *)
Checkout(s) ==
    /\ Free(s) /\ pane[s].running
    /\ \E b \in Branch, head \in HeadSha :
          pane' = [pane EXCEPT ![s].branch = b, ![s].head = head]
    /\ UNCHANGED <<vars, hook>>

Stop(k, s) ==
    /\ Free(s) /\ pane[s].running
    /\ pane' = [pane EXCEPT ![s].running = FALSE]
    /\ Arrive(k, s, "Stop", rows[s])

(* The pane dies, or the server does not hear its Stop.                    *)
StopUnheard(s) ==
    /\ Free(s) /\ pane[s].running
    /\ pane' = [pane EXCEPT ![s].running = FALSE]
    /\ UNCHANGED <<vars, hook>>

SessionStart(k, s) ==
    /\ Free(s) /\ ~ pane[s].running
    /\ Arrive(k, s, "SessionStart", rows[s])
    /\ UNCHANGED pane

SessionEnd(s) ==
    /\ Free(s) /\ ~ pane[s].running
    /\ Write(s, AfterFinish([rows[s] EXCEPT !.idle = FALSE], pane[s].session))
    /\ UNCHANGED <<receipts, pane, hook>>

-----------------------------------------------------------------------------
(* The handler, from await to await.                                       *)

At(k, pc) == hook[k] # NULL /\ hook[k].pc = pc

(* git symbolic-ref answers, with the branch or with a failure.            *)
SeeBranch(k) ==
    /\ At(k, "branch")
    /\ LET h == hook[k]
       IN  IF pane[h.slot].branch = h.ref
           THEN hook' = [hook EXCEPT ![k].pc = "head"] /\ UNCHANGED rows
           ELSE Proceed(k, h, rows[h.slot])
    /\ UNCHANGED <<receipts, pane>>

(* Wrong: the row is written as if it still were the one that was read.    *)
SyncedUnguarded(r, h) ==
    IF r.occupied THEN [r EXCEPT !.own.head = h.head] ELSE r

(* syncSlotCheckout, on the epoch and the branch the handler first read.   *)
Synced(r, h) ==
    IF r.epoch = h.epoch /\ r.occupied /\ r.own.ref = h.ref
    THEN [r EXCEPT !.own.head = h.head]
    ELSE r

(* git rev-parse answers. The head the row has, or has none, needs no      *)
(* further question.                                                       *)
SeeHead(k) ==
    /\ At(k, "head")
    /\ LET h == [hook[k] EXCEPT !.head = pane[hook[k].slot].head]
       IN  IF h.base \in {NULL, h.head}
           THEN Proceed(k, h, Synced(rows[h.slot], h))
           ELSE hook' = [hook EXCEPT ![k] = [h EXCEPT !.pc = "line"]] /\ UNCHANGED rows
    /\ UNCHANGED <<receipts, pane>>

(* git merge-base answers.                                                 *)
SeeLine(k) ==
    /\ At(k, "line")
    /\ LET h == hook[k]
           r == rows[h.slot]
       IN  Proceed(k, h, IF <<h.base, h.head>> \in Ancestor THEN Synced(r, h) ELSE r)
    /\ UNCHANGED <<receipts, pane>>

(* gh answers; what it says goes to a file beside the database. Then the   *)
(* route ends the turn.                                                    *)
SeePr(k) ==
    /\ At(k, "pr")
    /\ FinishAgentTurn(hook[k].slot, hook[k].session)
    /\ hook' = [hook EXCEPT ![k] = NULL]
    /\ UNCHANGED pane

(* The server stops and starts again.                                      *)
Restart ==
    /\ \E k \in Hook : hook[k] # NULL
    /\ hook' = [k \in Hook |-> NULL]
    /\ UNCHANGED <<vars, pane>>

-----------------------------------------------------------------------------
(* Callers that promise to spare a running turn. An operator abandons a    *)
(* turn whose pane is gone.                                                *)
Guarded(s) ==
    \/ /\ rows[s].epoch < MaxEpoch
       /\ \E q \in Requests :
             \/ \E e \in Epochs : AssignSlot(s, e, q.own, q.task, TRUE)
             \/ \E e \in Epochs, expected \in Readable : RebindSlot(s, e, expected, q.own, NULL)
    \/ \E f \in Effect, e \in Epochs, expected \in Readable, task \in Task :
          CommitNativeNoPaneRelease(s, f, e, expected, task)
    \/ ~ pane[s].running /\ AbandonTurn(s, rows[s].turn)
    \/ WorkAges(s)

HookNext ==
    \/ \E s \in Slot : Submit(s) \/ Checkout(s) \/ StopUnheard(s) \/ SessionEnd(s)
    \/ \E s \in Slot, k \in Hook : Tool(k, s) \/ Stop(k, s) \/ SessionStart(k, s)
    \/ \E k \in Hook : SeeBranch(k) \/ SeeHead(k) \/ SeeLine(k) \/ SeePr(k)
    \/ Restart
    \/ \E s \in Slot : Guarded(s) /\ UNCHANGED <<pane, hook>>

HookSpec == HookInit /\ [][HookNext]_hookVars

-----------------------------------------------------------------------------
HookTypeOK ==
    /\ TypeOK
    /\ pane \in [Slot -> Pane]
    /\ hook \in [Hook -> Handling \cup {NULL}]

(* No guarded claim, rebind or release changes the owner of a slot whose   *)
(* agent is in the middle of a turn, though the row learns of turns only   *)
(* through hooks, which handlers, crashes and lost Stops delay.            *)
RunningTurnSpared ==
    [][\A s \in Slot : rows'[s].epoch # rows[s].epoch => ~ pane[s].running]_hookVars

(* The part of it that the comment in assignSlot promises: a free slot is  *)
(* not given to a new owner over a turn that still runs.                   *)
AdmissionSparesRunningTurn ==
    [][\A s \in Slot :
          ~ rows[s].occupied /\ rows'[s].occupied => ~ pane[s].running]_hookVars

(* Within one ownership, what hooks observe moves the head forward along   *)
(* the line of commits and never back or across, though each handler       *)
(* decides on a head it read three awaits before it writes.                *)
HeadAdvances ==
    [][\A s \in Slot :
          /\ rows[s].own # NULL /\ rows'[s].epoch = rows[s].epoch
          /\ rows[s].own.head \notin {NULL, rows'[s].own.head}
          => <<rows[s].own.head, rows'[s].own.head>> \in Ancestor]_hookVars

=============================================================================
