---------------------------- MODULE AssignEffect ----------------------------
(***************************************************************************)
(* POST /slots/:n/assign-effect (src/src/assignmentEffectRoutes.ts): one   *)
(* request takes a slot for a lane, interrupts and clears its pane, and    *)
(* pastes the task into it. What it has done is kept on a durable intent   *)
(* per effect id, so the client sends the same request again whenever it   *)
(* hears nothing: after a crash, and also while the first handler is still *)
(* at work. A handler runs alone from one await to the next; meanwhile     *)
(* other effects, releases and hooks write the row.                        *)
(*                                                                         *)
(* Every effect has a task to deliver. A request for ownership alone skips *)
(* the delivery and is otherwise the same.                                 *)
(***************************************************************************)
EXTENDS SlotAuthority, Sequences, TLC

CONSTANTS Call,         \* handlers the server may be running at once
          Wanted,       \* what each effect asks for; its digest covers it
          MaxSession    \* pane sessions, for model checking

ASSUME WantedIsLanes ==
    Wanted \in [Effect -> [slot : Slot, own : Tuple, task : Task, newIssue : BOOLEAN]]

ASSUME MaxSessionIsNat == MaxSession \in Nat

VARIABLES intent,       \* assignment_effect_intents
          call,         \* the handlers' local state
          background,   \* label projections under way
          told,         \* effects whose caller was told "assigned"
          session,      \* the session token of each pane
          pasted        \* every paste of an effect's task, in order

assignVars == <<intent, call, background, told, session, pasted>>
allVars == <<vars, assignVars>>

Outcome == {"none", "pending", "done", "failed"}

(* asked is the expected epoch of the first request, which the digest      *)
(* covers, before the slot's epoch at the time. assign and release are the *)
(* label projections on the receipt of a delivered effect.                 *)
Intent == [state : {"planned", "pending_delivery", "delivered"},
           asked : Nat, before : Nat, committed : Nat \cup {NULL},
           custody : {"unissued", "unknown", "delivered"},
           displaced : Issue \cup {NULL}, assign : Outcome, release : Outcome]

(* OperationPin. The owner key goes with the epoch.                        *)
Pin == [epoch : Nat, turn : Turn \cup {NULL},
        turnState : {"active", "inactive", "indeterminate"}, session : Nat]

Handler == [pc : {"pane", "interrupt", "clear", "cleared", "observe",
                  "deliver", "paste", "pasted"},
            effect : Effect, pin : Pin \cup {NULL}]

ASSUME NullIsNoHandler == NULL \notin Intent \cup Handler \cup Pin \cup Nat

AssignInit ==
    /\ Init
    /\ intent = [f \in Effect |-> NULL]
    /\ call = [c \in Call |-> NULL]
    /\ background = {}
    /\ told = {}
    /\ session = [s \in Slot |-> 0]
    /\ pasted = [f \in Effect |-> <<>>]

-----------------------------------------------------------------------------
SlotOf(c) == Wanted[call[c].effect].slot

At(c, pc) == call[c] # NULL /\ call[c].pc = pc

PinOf(s) == [epoch |-> rows[s].epoch, turn |-> rows[s].turn,
             turnState |-> rows[s].turnState, session |-> session[s]]

(* pinDrift *)
Drifted(c) == call[c].pin # PinOf(SlotOf(c))

(* desiredTupleAlreadyCommitted: the row carries the tuple, whenever it    *)
(* was claimed.                                                            *)
AlreadyCommitted(f) ==
    LET r == rows[Wanted[f].slot]
    IN  r.occupied /\ [r.own EXCEPT !.claim = 0] = [Wanted[f].own EXCEPT !.claim = 0]

SameLane(t, u) == OwnerOf([t EXCEPT !.claim = 0]) = OwnerOf([u EXCEPT !.claim = 0])

(* ownerKey: the lane without the head.                                    *)
Owns(f) ==
    LET r == rows[Wanted[f].slot]
    IN  r.occupied /\ SameLane(r.own, Wanted[f].own)

Minted(f, e) ==
    [state |-> "planned", asked |-> e, before |-> rows[Wanted[f].slot].epoch,
     committed |-> NULL, custody |-> "unissued", displaced |-> NULL,
     assign |-> "none", release |-> "none"]

(* A request for an effect presents the epoch it first asked with, or the  *)
(* committed one if the first was exact.                                   *)
Accepts(f, e) ==
    \/ e = intent[f].asked
    \/ /\ intent[f].state # "planned"
       /\ e = intent[f].committed
       /\ intent[f].asked = intent[f].before

Goto(c, pc) == call' = [call EXCEPT ![c].pc = pc]
Done(c) == call' = [call EXCEPT ![c] = NULL]

-----------------------------------------------------------------------------
(* Requests.                                                               *)

(* A request for a planned effect, or a new one. A lane another slot holds *)
(* is refused, with the intent minted.                                     *)
Begin(c, f, e) ==
    /\ call[c] = NULL
    /\ intent[f] # NULL => intent[f].state = "planned" /\ Accepts(f, e)
    /\ intent' = [intent EXCEPT ![f] = IF @ = NULL THEN Minted(f, e) ELSE @]
    /\ call' = IF AlreadyCommitted(f) \/ Owners(Wanted[f].slot, Wanted[f].own) = {}
               THEN [call EXCEPT ![c] = [pc |-> "pane", effect |-> f, pin |-> NULL]]
               ELSE call
    /\ UNCHANGED <<vars, background, told, session, pasted>>

(* Ownership and delivery are read back, the intent is final, the caller   *)
(* is answered and the labels are left to the background.                  *)
Finish(f) ==
    LET r == rows[Wanted[f].slot]
    IN  IF r.occupied /\ r.own.issue = Wanted[f].own.issue /\ r.task # NULL
        THEN /\ intent' = [intent EXCEPT
                    ![f].state = "delivered", ![f].custody = "delivered",
                    ![f].assign = "pending",
                    ![f].release = IF intent[f].displaced = NULL THEN "none" ELSE "pending"]
             /\ told' = told \cup {f}
             /\ background' = background \cup
                    {[effect |-> f, release |-> intent[f].displaced # NULL]}
        ELSE /\ intent' = [intent EXCEPT ![f].custody = "delivered"]
             /\ UNCHANGED <<told, background>>

(* Wrong: the packet is handed out again unless it is known to be there.   *)
ClaimUnlessDelivered(f) ==
    /\ intent[f].state = "pending_delivery"
    /\ intent[f].custody # "delivered"
    /\ intent' = [intent EXCEPT ![f].custody = "unknown"]

(* Custody is taken before the packet leaves, once.                        *)
ClaimDelivery(f) ==
    /\ intent[f].state = "pending_delivery"
    /\ intent[f].custody = "unissued"
    /\ intent' = [intent EXCEPT ![f].custody = "unknown"]

(* Of an effect that owns its slot already, what is missing is the packet, *)
(* or only the answer. No pin is taken.                                    *)
Resume(c, f, e) ==
    /\ call[c] = NULL
    /\ intent[f] # NULL
    /\ intent[f].state = "pending_delivery"
    /\ Accepts(f, e)
    /\ AlreadyCommitted(f)
    /\ rows[Wanted[f].slot].epoch = intent[f].committed
    /\ \/ /\ ClaimDelivery(f)
          /\ call' = [call EXCEPT ![c] = [pc |-> "paste", effect |-> f, pin |-> NULL]]
          /\ UNCHANGED <<told, background>>
       \/ /\ intent[f].custody = "delivered"
          /\ Finish(f)
          /\ UNCHANGED call
    /\ UNCHANGED <<vars, session, pasted>>

(* An effect that was delivered, and still owns the slot, is answered from *)
(* its receipt. A failed projection is tried again.                        *)
Replay(f, e) ==
    /\ intent[f] # NULL
    /\ intent[f].state = "delivered"
    /\ Accepts(f, e)
    /\ AlreadyCommitted(f)
    /\ rows[Wanted[f].slot].epoch = intent[f].committed
    /\ "failed" \in {intent[f].assign, intent[f].release}
    /\ intent' = [intent EXCEPT
            ![f].assign = IF @ = "failed" THEN "pending" ELSE @,
            ![f].release = IF @ = "failed" THEN "pending" ELSE @]
    /\ background' = background \cup
            {[effect |-> f, release |-> intent[f].release = "failed"]}
    /\ told' = told \cup {f}
    /\ UNCHANGED <<vars, call, session, pasted>>

-----------------------------------------------------------------------------
(* The handler of a planned effect, from await to await. A refusal ends it *)
(* and leaves the intent as it is.                                         *)

(* The pane has been observed: the operation is pinned to it.              *)
TakePin(c) ==
    /\ At(c, "pane")
    /\ call' = [call EXCEPT ![c].pc = "interrupt", ![c].pin = PinOf(SlotOf(c))]
    /\ UNCHANGED <<vars, intent, background, told, session, pasted>>

(* The pane is idle; the pinned turn has stopped by itself or is closed.   *)
(* A clear follows only a new issue.                                       *)
Interrupt(c) ==
    LET s == SlotOf(c)
        idle == [call[c].pin EXCEPT !.turn = NULL, !.turnState = "inactive"]
    IN  /\ At(c, "interrupt")
        /\ PinOf(s) \in {call[c].pin, idle}
        /\ rows' = IF NoLiveTurn(rows[s]) THEN rows
                   ELSE [rows EXCEPT ![s] = [TurnClosed(@) EXCEPT !.idle = TRUE]]
        /\ call' = [call EXCEPT ![c].pin = idle,
                       ![c].pc = IF Wanted[call[c].effect].newIssue THEN "clear" ELSE "observe"]
        /\ UNCHANGED <<receipts, intent, background, told, session, pasted>>

(* /clear is sent to the pinned pane, and begins a session there.          *)
Clear(c) ==
    /\ At(c, "clear")
    /\ ~ Drifted(c)
    /\ session[SlotOf(c)] < MaxSession
    /\ session' = [session EXCEPT ![SlotOf(c)] = @ + 1]
    /\ Goto(c, "cleared")
    /\ UNCHANGED <<vars, intent, background, told, pasted>>

(* A clear that is not sent is recorded and goes no further into it.       *)
ClearFails(c) ==
    /\ At(c, "clear")
    /\ Goto(c, "cleared")
    /\ UNCHANGED <<vars, intent, background, told, session, pasted>>

Cleared(c) ==
    LET now == PinOf(SlotOf(c))
    IN  /\ At(c, "cleared")
        /\ now = [call[c].pin EXCEPT !.session = now.session]
        /\ call' = [call EXCEPT ![c].pc = "observe", ![c].pin = now]
        /\ UNCHANGED <<vars, intent, background, told, session, pasted>>

(* What committing f makes of the row and of the intent: nothing when the  *)
(* row is f's already, and otherwise an overwrite that first remembers     *)
(* whom it displaces. An intent that is no longer planned is left alone.   *)
TakeSlot(f) ==
    IF AlreadyCommitted(f) THEN UNCHANGED vars
    ELSE AssignSlotSimple(Wanted[f].slot, Wanted[f].own, Wanted[f].task)

Displaced(f) ==
    LET r == rows[Wanted[f].slot]
    IN  IF intent[f].state = "planned" /\ ~ AlreadyCommitted(f) /\ r.occupied
        THEN [intent[f] EXCEPT !.displaced = r.own.issue]
        ELSE intent[f]

Commit(c) ==
    LET f == call[c].effect
        s == SlotOf(c)
    IN  /\ At(c, "observe")
        /\ ~ Drifted(c)
        /\ AlreadyCommitted(f) \/ rows[s].epoch < MaxEpoch
        /\ TakeSlot(f)
        /\ intent' = [intent EXCEPT ![f] =
                IF @.state = "planned"
                THEN [Displaced(f) EXCEPT !.state = "pending_delivery",
                                          !.committed = rows'[s].epoch]
                ELSE @]
        /\ call' = [call EXCEPT ![c].pc = "deliver",
                        ![c].pin = [@ EXCEPT !.epoch = rows'[s].epoch,
                                             !.turn = rows'[s].turn,
                                             !.turnState = rows'[s].turnState]]
        /\ UNCHANGED <<background, told, session, pasted>>

(* The server stops between the write of the row and that of the intent.   *)
CommitCrashes(c) ==
    LET f == call[c].effect
    IN  /\ At(c, "observe")
        /\ ~ Drifted(c)
        /\ AlreadyCommitted(f) \/ rows[SlotOf(c)].epoch < MaxEpoch
        /\ TakeSlot(f)
        /\ intent' = [intent EXCEPT ![f] = Displaced(f)]
        /\ call' = [d \in Call |-> NULL]
        /\ background' = {}
        /\ UNCHANGED <<told, session, pasted>>

(* The packet is claimed; or another handler has delivered it.             *)
Deliver(c) ==
    LET f == call[c].effect
    IN  /\ At(c, "deliver")
        /\ ~ Drifted(c)
        /\ \/ ClaimDelivery(f) /\ Goto(c, "paste") /\ UNCHANGED <<told, background>>
           \/ /\ intent[f].state = "pending_delivery"
              /\ intent[f].custody = "delivered"
              /\ Finish(f)
              /\ Done(c)
        /\ UNCHANGED <<vars, session, pasted>>

(* Wrong: the pin is looked at before the send lock is waited for.         *)
PasteUnfenced(c) ==
    LET f == call[c].effect
    IN  /\ At(c, "paste")
        /\ pasted' = [pasted EXCEPT ![f] =
                Append(@, [owned |-> Owns(f), pinned |-> call[c].pin # NULL])]
        /\ Goto(c, "pasted")
        /\ UNCHANGED <<vars, intent, background, told, session>>

(* The packet goes into the pane, fenced by the pin if there is one.       *)
Paste(c) ==
    LET f == call[c].effect
    IN  /\ At(c, "paste")
        /\ call[c].pin # NULL => ~ Drifted(c)
        /\ pasted' = [pasted EXCEPT ![f] =
                Append(@, [owned |-> Owns(f), pinned |-> call[c].pin # NULL])]
        /\ Goto(c, "pasted")
        /\ UNCHANGED <<vars, intent, background, told, session>>

(* Wrong: a send that comes to an end has delivered.                       *)
PasteAssumed(c) ==
    LET f == call[c].effect
    IN  /\ At(c, "paste")
        /\ intent' = [intent EXCEPT ![f].custody =
                IF call[c].pin # NULL /\ intent[f].state = "pending_delivery"
                THEN "delivered" ELSE @]
        /\ Done(c)
        /\ UNCHANGED <<vars, background, told, session, pasted>>

(* Nothing was pasted. A pinned send knows that and gives the custody      *)
(* back; any other failure leaves it unknown.                              *)
PasteRefused(c) ==
    LET f == call[c].effect
    IN  /\ At(c, "paste")
        /\ intent' = [intent EXCEPT ![f].custody =
                IF call[c].pin # NULL /\ intent[f].state = "pending_delivery"
                THEN "unissued" ELSE @]
        /\ Done(c)
        /\ UNCHANGED <<vars, background, told, session, pasted>>

(* The paste is verified.                                                  *)
Verified(c) ==
    /\ At(c, "pasted")
    /\ Finish(call[c].effect)
    /\ Done(c)
    /\ UNCHANGED <<vars, session, pasted>>

(* The server stops between the record of the delivery and the receipt.    *)
VerifiedCrashes(c) ==
    /\ At(c, "pasted")
    /\ intent' = [intent EXCEPT ![call[c].effect].custody = "delivered"]
    /\ call' = [d \in Call |-> NULL]
    /\ background' = {}
    /\ UNCHANGED <<vars, told, session, pasted>>

(* A fence found the operation drifted, a dependency failed, or the paste  *)
(* cannot be verified, which leaves its custody unknown.                   *)
Refuse(c) ==
    /\ call[c] # NULL
    /\ call[c].pc # "paste"
    /\ Done(c)
    /\ UNCHANGED <<vars, intent, background, told, session, pasted>>

-----------------------------------------------------------------------------
(* The label projections of f have run, and overwrite the receipt.         *)
Projected(b) ==
    /\ background' = background \ {b}
    /\ \E assign, release \in {"done", "failed"} :
          intent' = [intent EXCEPT
                ![b.effect].state = "delivered",
                ![b.effect].assign = assign,
                ![b.effect].release = IF b.release THEN release ELSE "none"]
    /\ UNCHANGED <<vars, call, told, session, pasted>>

Crash ==
    /\ background # {} \/ \E c \in Call : call[c] # NULL
    /\ call' = [c \in Call |-> NULL]
    /\ background' = {}
    /\ UNCHANGED <<vars, intent, told, session, pasted>>

(* Releases, hooks and new sessions of the panes.                          *)
Others(s) ==
    \/ /\ \/ ReleaseSlotSimple(s, NULL, 0)
          \/ \E turn \in Turn : StartAgentTurn(s, turn) \/ FinishAgentTurn(s, turn)
          \/ \E e \in Epochs, ref \in Branch, head \in HeadSha : SyncSlotCheckout(s, e, ref, head)
       /\ UNCHANGED assignVars
    \/ /\ session[s] < MaxSession
       /\ session' = [session EXCEPT ![s] = @ + 1]
       /\ UNCHANGED <<vars, intent, call, background, told, pasted>>

Request(f) ==
    \E e \in Epochs : \/ \E c \in Call : Begin(c, f, e) \/ Resume(c, f, e)
                      \/ Replay(f, e)

Continue(c) ==
    \/ TakePin(c) \/ Interrupt(c) \/ Clear(c) \/ ClearFails(c) \/ Cleared(c)
    \/ Commit(c) \/ CommitCrashes(c) \/ Deliver(c) \/ Paste(c) \/ PasteRefused(c)
    \/ Verified(c) \/ VerifiedCrashes(c) \/ Refuse(c)

AssignNext ==
    \/ \E f \in Effect : Request(f)
    \/ \E c \in Call : Continue(c)
    \/ \E b \in background : Projected(b)
    \/ Crash
    \/ \E s \in Slot : Others(s)

AssignSpec == AssignInit /\ [][AssignNext]_allVars

-----------------------------------------------------------------------------
AssignTypeOK ==
    /\ TypeOK
    /\ intent \in [Effect -> Intent \cup {NULL}]
    /\ call \in [Call -> Handler \cup {NULL}]
    /\ background \subseteq [effect : Effect, release : BOOLEAN]
    /\ told \subseteq Effect
    /\ session \in [Slot -> 0 .. MaxSession]
    /\ pasted \in [Effect -> Seq([owned : BOOLEAN, pinned : BOOLEAN])]

(* The task of an effect is pasted at most once, whatever is retried,      *)
(* overlaps or crashes: custody is taken before the paste and given back   *)
(* only when nothing was pasted.                                           *)
PastedOnce == \A f \in Effect : Len(pasted[f]) <= 1

(* "assigned" is said only of an effect that has its slot on record and    *)
(* its task in a pane: the resumed, the overlapping and the crashed        *)
(* requests answer for what another handler did.                           *)
AssignedMeansPasted ==
    \A f \in told : intent[f].committed # NULL /\ pasted[f] # <<>>

(* A task fenced by a pin goes into the pane of a slot that its effect     *)
(* owns, however long the send waited and whoever took the slot meanwhile. *)
PinnedPasteToOwner ==
    \A f \in Effect : \A i \in DOMAIN pasted[f] :
        pasted[f][i].pinned => pasted[f][i].owned

----------------------------------------------------------------------------
(* An instance for TLC: all effects want one slot for the same new issue,  *)
(* and handlers may be exchanged.                                          *)
OneOf(S) == CHOOSE x \in S : TRUE

WantsOne ==
    [f \in Effect |->
        [slot |-> OneOf(Slot), task |-> OneOf(Task), newIssue |-> TRUE,
         own |-> [repo |-> OneOf(Repo), issue |-> OneOf(Issue), pr |-> NULL, ref |-> OneOf(Branch),
                  head |-> OneOf(HeadSha), work |-> NULL, claim |-> 0]]]

Handlers == Permutations(Call)

=============================================================================
