--------------------------- MODULE SlotAuthority ---------------------------
(***************************************************************************)
(* MoPDatabase (src/src/db.ts) as the authority over the dev slots: one    *)
(* row per slot, written only by the transactions below, each of which is  *)
(* one atomic step (better-sqlite3 is synchronous and so is every body).   *)
(*                                                                         *)
(* Callers are concurrent and hold stale readings, so a request's epoch    *)
(* and tuple are inputs, never read off the row it is aimed at. A refused  *)
(* request, and one acknowledged as already applied, leaves every row as   *)
(* it is and so is a stuttering step here.                                 *)
(***************************************************************************)
EXTENDS Lanes, FiniteSets

CONSTANTS Task,        \* task texts
          Activity,    \* activity labels other than "waiting_for_pm_direction"
          Turn,        \* hook session ids, which name agent turns
          Effect,      \* effect ids of machine-issued releases
          Requests,    \* the (tuple, task) pairs callers ask a slot to take
          MaxEpoch     \* claims stop at this epoch, for model checking

ASSUME RequestsAreTuples == Requests \subseteq [own : Tuple, task : Task]
ASSUME NullIsNoName == NULL \notin Task \cup Activity \cup Turn \cup Effect
ASSUME MaxEpochIsNat == MaxEpoch \in Nat

VARIABLES rows,          \* the slots table
          receipts       \* native_release_effect_receipts, keyed by effect id

vars == <<rows, receipts>>

WaitingForPm == "waiting_for_pm_direction"

(* fresh says that last_meaningful_work_at is younger than the five        *)
(* minutes after which a turn may be abandoned.                            *)
Row == [occupied  : BOOLEAN,
        own       : Tuple \cup {NULL},
        task      : Task \cup {NULL},
        epoch     : Nat,
        dnd       : BOOLEAN,
        idle      : BOOLEAN,
        activity  : Activity \cup {WaitingForPm, NULL},
        turn      : Turn \cup {NULL},
        turnState : {"active", "inactive", "indeterminate"},
        fresh     : BOOLEAN]

Receipt == [slot : Slot, expected : Nat, released : Nat]

SeedRow == [occupied |-> FALSE, own |-> NULL, task |-> NULL, epoch |-> 0,
            dnd |-> FALSE, idle |-> TRUE, activity |-> NULL,
            turn |-> NULL, turnState |-> "inactive", fresh |-> FALSE]

Init ==
    /\ rows = [s \in Slot |-> SeedRow]
    /\ receipts = [f \in Effect |-> NULL]

-----------------------------------------------------------------------------
(* Questions a transaction asks of the rows.                               *)

NoLiveTurn(r) == r.turn = NULL /\ r.turnState = "inactive"

Quiet(r) == r.idle /\ r.activity \in {NULL, WaitingForPm}

(* Wrong: a lane is recognised by its issue alone.                         *)
OwnersByIssue(s, t) ==
    {o \in Slot \ {s} : /\ rows[o].occupied
                        /\ t.repo = rows[o].own.repo
                        /\ t.issue # NULL /\ t.issue = rows[o].own.issue}

(* The other occupied slots whose lane competes with t.                    *)
Owners(s, t) == {o \in Slot \ {s} : rows[o].occupied /\ LaneClash(t, rows[o].own)}

(* The epoch and the tuple a guarded request presents are those of the row.*)
Presents(s, e, t) ==
    /\ rows[s].occupied
    /\ rows[s].epoch = e
    /\ TupleMatches(rows[s].own, t)

(* What a write makes of the row.                                          *)

(* Wrong: a replaced owner keeps the epoch of the one before.              *)
AssignedInPlace(r, t, task) ==
    [r EXCEPT !.occupied = TRUE, !.own = t, !.task = task,
              !.epoch = IF r.occupied THEN @ ELSE @ + 1]

Assigned(r, t, task) ==
    [r EXCEPT !.occupied = TRUE, !.own = t, !.task = task, !.epoch = @ + 1]

(* Wrong: the state of the turn goes to null with its id.                  *)
TurnErased(r) == [r EXCEPT !.turn = NULL, !.turnState = NULL]

TurnClosed(r) == [r EXCEPT !.turn = NULL, !.turnState = "inactive"]

(* claimed_at of a claim the authority stamps itself: the time of the      *)
(* write, which the new epoch stands for.                                  *)
Stamped(r, t) == [t EXCEPT !.claim = r.epoch + 1]

(* Wrong: only a claim takes an epoch.                                     *)
FreedInPlace(r) ==
    [TurnClosed(r) EXCEPT !.occupied = FALSE, !.own = NULL, !.task = NULL,
                          !.dnd = FALSE, !.idle = TRUE, !.activity = NULL]

Freed(r) ==
    [TurnClosed(r) EXCEPT !.occupied = FALSE, !.own = NULL, !.task = NULL,
                          !.epoch = @ + 1, !.dnd = FALSE, !.idle = TRUE,
                          !.activity = NULL]

Write(s, r) == rows' = [rows EXCEPT ![s] = r]

-----------------------------------------------------------------------------
(* Ownership writes.                                                       *)

(* A complete claim. On an occupied slot it is acknowledged when the same  *)
(* tuple is already there and refused otherwise.                           *)
AssignSlot(s, e, t, task, requireFree) ==
    /\ rows[s].epoch = e
    /\ ~ rows[s].occupied
    /\ requireFree => NoLiveTurn(rows[s])
    /\ Owners(s, t) = {}
    /\ Write(s, [Assigned(rows[s], Stamped(rows[s], t), task) EXCEPT !.dnd = FALSE])
    /\ UNCHANGED receipts

(* The minimum contract: an issue, in a repository, on a slot. The issue   *)
(* alone decides a duplicate, whatever repository it is in, and so does it *)
(* decide that the slot already has it.                                    *)
AssignIssueToSlot(s, repo, issue, task, force) ==
    LET r == rows[s]
        t == [repo |-> repo, issue |-> issue, pr |-> NULL, ref |-> NULL,
              head |-> NULL, work |-> NULL, claim |-> 0]
    IN  /\ ~ \E o \in Slot \ {s} : rows[o].occupied /\ rows[o].own.issue = issue
        /\ ~ (r.occupied /\ r.own.issue = issue)
        /\ r.occupied => force
        /\ Write(s, [TurnClosed(Assigned(r, Stamped(r, t), task))
                        EXCEPT !.dnd = FALSE, !.idle = FALSE, !.activity = NULL])
        /\ UNCHANGED receipts

(* Wrong: the pane keeps its lane, so a turn that runs in it is no matter. *)
RebindOverTurn(s, e, expected, t, task) ==
    /\ Normalizable(expected) /\ Normalizable(t)
    /\ expected.repo = t.repo
    /\ Presents(s, e, expected)
    /\ t # rows[s].own
    /\ Owners(s, t) = {}
    /\ Write(s, Assigned(rows[s], t, IF task = NULL THEN rows[s].task ELSE task))
    /\ UNCHANGED receipts

(* Compare-and-set of an occupied row: same repository, no live turn. A    *)
(* task is kept when the request brings none.                              *)
RebindSlot(s, e, expected, t, task) ==
    /\ Normalizable(expected) /\ Normalizable(t)
    /\ expected.repo = t.repo
    /\ Presents(s, e, expected)
    /\ NoLiveTurn(rows[s])
    /\ t # rows[s].own
    /\ Owners(s, t) = {}
    /\ Write(s, Assigned(rows[s], t, IF task = NULL THEN rows[s].task ELSE task))
    /\ UNCHANGED receipts

(* Overwrite: takes no expected state. Only a lane another slot holds      *)
(* refuses it.                                                             *)
AssignSlotSimple(s, t, task) ==
    /\ Normalizable(t)
    /\ ~ TupleMatches(rows[s].own, t)
    /\ Owners(s, t) = {}
    /\ Write(s, TurnClosed(Assigned(rows[s], t, task)))
    /\ UNCHANGED receipts

(* The receipt is keyed by the effect: a second insert fails and takes the *)
(* whole transaction back with it. f is NULL for an operator's release.    *)
RecordReceipt(f, s, e) ==
    IF f = NULL THEN UNCHANGED receipts
    ELSE /\ receipts[f] = NULL
         /\ receipts' = [receipts EXCEPT
               ![f] = [slot |-> s, expected |-> e, released |-> rows[s].epoch + 1]]

(* Unconditional free of an occupied slot. The epoch an effect is bound to *)
(* goes on the receipt and is not compared with the row.                   *)
ReleaseSlotSimple(s, f, e) ==
    /\ rows[s].occupied
    /\ RecordReceipt(f, s, e)
    /\ Write(s, Freed(rows[s]))

(* Guarded free, with or without the checks of a quiescent release.        *)
CommitNativeRelease(s, f, e, expected, quiescent) ==
    /\ Normalizable(expected)
    /\ f # NULL => receipts[f] = NULL
    /\ Presents(s, e, expected)
    /\ NoLiveTurn(rows[s])
    /\ quiescent => ~ rows[s].dnd /\ Quiet(rows[s])
    /\ RecordReceipt(f, s, e)
    /\ Write(s, Freed(rows[s]))

(* Guarded free of a finished lease nobody delivers anything to.           *)
CommitNativeNoPaneRelease(s, f, e, expected, task) ==
    /\ Normalizable(expected)
    /\ receipts[f] = NULL
    /\ Presents(s, e, expected)
    /\ rows[s].task = task
    /\ ~ rows[s].dnd
    /\ NoLiveTurn(rows[s])
    /\ Quiet(rows[s])
    /\ RecordReceipt(f, s, e)
    /\ Write(s, Freed(rows[s]))

(* The checkout moved along the branch the slot already owns.              *)
SyncSlotCheckout(s, e, ref, head) ==
    /\ rows[s].epoch = e
    /\ rows[s].occupied
    /\ rows[s].own.ref = ref
    /\ Write(s, [rows[s] EXCEPT !.own.head = head])
    /\ UNCHANGED receipts

-----------------------------------------------------------------------------
(* Turns, reported by the agent's hooks.                                   *)

StartAgentTurn(s, turn) ==
    /\ Write(s, [rows[s] EXCEPT !.turn = turn, !.turnState = "active",
                                !.idle = FALSE, !.fresh = TRUE])
    /\ UNCHANGED receipts

TouchMeaningfulWork(s) ==
    /\ Write(s, [rows[s] EXCEPT !.idle = FALSE, !.fresh = TRUE])
    /\ UNCHANGED receipts

(* Wrong: any end of a turn is the end of the turn.                        *)
AfterAnyFinish(r, turn) == [r EXCEPT !.turnState = "inactive", !.idle = TRUE]

(* The end of a turn other than the recorded one proves nothing about it.  *)
AfterFinish(r, turn) ==
    IF r.turn \notin {NULL, turn}
    THEN [r EXCEPT !.turnState = "indeterminate", !.idle = FALSE]
    ELSE [TurnClosed(r) EXCEPT !.idle = TRUE]

FinishAgentTurn(s, turn) ==
    /\ Write(s, AfterFinish(rows[s], turn))
    /\ UNCHANGED receipts

(* An operator closes the exact turn of a session that is gone. (A pending *)
(* clear would refuse it, but nothing sets one for a dev slot any more.)   *)
AbandonTurn(s, turn) ==
    /\ rows[s].turn = turn
    /\ rows[s].turnState = "active"
    /\ ~ rows[s].fresh
    /\ Write(s, AfterFinish(rows[s], turn))
    /\ UNCHANGED receipts

(* Five minutes pass without work.                                         *)
WorkAges(s) ==
    /\ rows[s].fresh
    /\ Write(s, [rows[s] EXCEPT !.fresh = FALSE])
    /\ UNCHANGED receipts

-----------------------------------------------------------------------------
(* Fields outside the assignment, which hooks and PATCH write through      *)
(* updateSlot.                                                             *)

SetDnd(s, dnd) ==
    /\ dnd => rows[s].occupied
    /\ Write(s, [rows[s] EXCEPT !.dnd = dnd])
    /\ UNCHANGED receipts

SetIdle(s, idle) ==
    /\ Write(s, [rows[s] EXCEPT !.idle = idle])
    /\ UNCHANGED receipts

SetActivity(s, activity) ==
    /\ Write(s, [rows[s] EXCEPT !.activity = activity])
    /\ UNCHANGED receipts

SetTask(s, task) ==
    /\ Write(s, [rows[s] EXCEPT !.task = task])
    /\ UNCHANGED receipts

-----------------------------------------------------------------------------
(* A guarded request presents an epoch and a tuple its caller once read.   *)
(* Any tuple that is nowhere in the table is refused, so the ones that are *)
(* stand for all of them.                                                  *)
Epochs == 0 .. MaxEpoch
Readable == {rows[s].own : s \in Slot} \ {NULL}

(* MaxEpoch bounds the claims, never a release.                            *)
Claim(s) ==
    /\ rows[s].epoch < MaxEpoch
    /\ \E q \in Requests :
          \/ \E e \in Epochs, free \in BOOLEAN : AssignSlot(s, e, q.own, q.task, free)
          \/ \E force \in BOOLEAN :
                /\ q.own.issue # NULL
                /\ AssignIssueToSlot(s, q.own.repo, q.own.issue, q.task, force)
          \/ \E e \in Epochs, expected \in Readable, task \in {q.task, NULL} :
                RebindSlot(s, e, expected, q.own, task)
          \/ AssignSlotSimple(s, q.own, q.task)

Release(s) ==
    \E f \in Effect \cup {NULL}, e \in Epochs :
        \/ ReleaseSlotSimple(s, f, e)
        \/ \E expected \in Readable :
              \/ \E quiescent \in BOOLEAN :
                    CommitNativeRelease(s, f, e, expected, quiescent)
              \/ \E task \in Task :
                    f # NULL /\ CommitNativeNoPaneRelease(s, f, e, expected, task)

Observe(s) ==
    \/ \E e \in Epochs, ref \in Branch, head \in HeadSha : SyncSlotCheckout(s, e, ref, head)
    \/ \E turn \in Turn : \/ StartAgentTurn(s, turn)
                          \/ FinishAgentTurn(s, turn)
                          \/ AbandonTurn(s, turn)
    \/ TouchMeaningfulWork(s)
    \/ WorkAges(s)

Update(s) ==
    \/ \E b \in BOOLEAN : SetDnd(s, b) \/ SetIdle(s, b)
    \/ \E a \in Activity \cup {WaitingForPm, NULL} : SetActivity(s, a)
    \/ \E task \in Task : SetTask(s, task)

Next == \E s \in Slot : Claim(s) \/ Release(s) \/ Observe(s) \/ Update(s)

Spec == Init /\ [][Next]_vars

-----------------------------------------------------------------------------
TypeOK ==
    /\ rows \in [Slot -> Row]
    /\ receipts \in [Effect -> Receipt \cup {NULL}]

(* A row is occupied exactly when it carries a tuple: no write leaves a    *)
(* free slot with the remains of an owner, or an owner nobody can name.    *)
OwnedIffOccupied == \A s \in Slot : rows[s].occupied <=> rows[s].own # NULL

(* One lane, one slot. The guards of the four claims establish it without  *)
(* the UNIQUE indexes, which therefore never turn a claim into an error.   *)
LanesExclusive ==
    \A s, o \in Slot :
        s # o /\ rows[s].occupied /\ rows[o].occupied
            => ~ LaneClash(rows[s].own, rows[o].own)

(* A recorded turn is named unless there is none: "inactive" is never      *)
(* said of a turn whose id is still on the row, whatever order hooks,      *)
(* claims and releases come in.                                            *)
TurnPointerConsistent ==
    \A s \in Slot : (rows[s].turn = NULL) <=> (rows[s].turnState = "inactive")

(* A free slot is never under do-not-disturb, which would hide it from     *)
(* assignment: every path that frees a slot lifts it.                      *)
DndOnlyWhileOccupied == \A s \in Slot : rows[s].dnd => rows[s].occupied

(* Each epoch of a slot is released by at most one effect, and never one   *)
(* the slot has not reached.                                               *)
EpochReleasedOnce ==
    \A f, g \in Effect :
        receipts[f] # NULL =>
            /\ receipts[f].released \in 1 .. rows[receipts[f].slot].epoch
            /\ receipts[g] # NULL /\ f # g /\ receipts[f].slot = receipts[g].slot
                  => receipts[f].released # receipts[g].released

(* The table implements the promise: one owner per slot, one slot per      *)
(* lane, one epoch per ownership. Fields outside the tuple, and the head   *)
(* within it, move without an epoch.                                       *)
Ownership == INSTANCE SlotOwnership
    WITH owner <- [s \in Slot |-> OwnerOf(rows[s].own)],
         epoch <- [s \in Slot |-> rows[s].epoch]

ImplementsOwnership == Ownership!Spec

=============================================================================
