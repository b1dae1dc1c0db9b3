---------------------------- MODULE SlotRelease ----------------------------
(***************************************************************************)
(* NativeSlotReleaseCoordinator (src/src/slotRelease.ts): the asynchronous *)
(* handlers that free a slot. A handler reads the table, awaits tmux, git  *)
(* and GitHub, and writes; between two awaits it runs alone, so a step     *)
(* here is what runs from one await to the next. While it waits, claims,   *)
(* hooks and other handlers write the table, and the server may crash: the *)
(* table and the receipts survive, the handlers and the set of slots being *)
(* released do not.                                                        *)
(*                                                                         *)
(* Three kinds of caller: an operator names a slot; the outbox presents a  *)
(* committed family-2 effect; and a finished lease is freed without        *)
(* delivering anything to its pane. An effect's binding never changes (its *)
(* digest covers it) and is sent again until an answer arrives.            *)
(***************************************************************************)
EXTENDS SlotAuthority

CONSTANT Call       \* handlers the server may be running at once

VARIABLES binding,      \* what each effect was minted for, NULL when not yet
          inProgress,   \* inProgressSlots
          call,         \* the handlers' local state
          acked         \* effects whose caller was told "released"

relVars == <<binding, inProgress, call, acked>>
allVars == <<vars, relVars>>

Binding == [kind : {"family2", "nopane"}, slot : Slot, epoch : Nat,
            own : Tuple, task : Task \cup {NULL}]

Handler == [pc : {"interrupt", "observe", "checkout", "project"}, slot : Slot,
            effect : Effect \cup {NULL}]

ASSUME NullIsNoRecord == NULL \notin Handler \cup Binding \cup Receipt

RelInit ==
    /\ Init
    /\ binding = [f \in Effect |-> NULL]
    /\ inProgress = {}
    /\ call = [c \in Call |-> NULL]
    /\ acked = {}

-----------------------------------------------------------------------------
(* The control plane commits an effect for the owner it reads, and owes    *)
(* its release from then on.                                               *)
Mint(f) ==
    /\ binding[f] = NULL
    /\ \E s \in Slot, kind \in {"family2", "nopane"} :
          /\ rows[s].occupied
          /\ Normalizable(rows[s].own)
          /\ kind = "nopane" => rows[s].task # NULL
          /\ binding' = [binding EXCEPT ![f] =
                [kind |-> kind, slot |-> s, epoch |-> rows[s].epoch,
                 own |-> rows[s].own, task |-> rows[s].task]]
    /\ UNCHANGED <<vars, inProgress, call, acked>>

(* Wrong: each route looks only at handlers of its own kind.               *)
EnterUnchecked(c, s, f, pc) ==
    /\ call[c] = NULL
    /\ inProgress' = inProgress \cup {s}
    /\ call' = [call EXCEPT ![c] = [pc |-> pc, slot |-> s, effect |-> f]]
    /\ UNCHANGED <<vars, binding, acked>>

(* A handler enters its critical section; another one's presence is        *)
(* answered with release_in_progress.                                      *)
Enter(c, s, f, pc) ==
    /\ call[c] = NULL
    /\ s \notin inProgress
    /\ inProgress' = inProgress \cup {s}
    /\ call' = [call EXCEPT ![c] = [pc |-> pc, slot |-> s, effect |-> f]]
    /\ UNCHANGED <<vars, binding, acked>>

Goto(c, pc) == call' = [call EXCEPT ![c].pc = pc]

AfterEntry(s) == IF NoLiveTurn(rows[s]) THEN "observe" ELSE "interrupt"

(* An operator's release of a free slot is a success that does nothing.    *)
BeginOperatorRelease(c, s) ==
    /\ rows[s].occupied
    /\ Enter(c, s, NULL, AfterEntry(s))

(* An effect without a receipt must present the owner it was minted for.   *)
BeginEffectRelease(c, f) ==
    /\ binding[f] # NULL
    /\ binding[f].kind = "family2"
    /\ receipts[f] = NULL
    /\ Presents(binding[f].slot, binding[f].epoch, binding[f].own)
    /\ Enter(c, binding[f].slot, f, AfterEntry(binding[f].slot))

BeginNoPaneRelease(c, f) ==
    /\ binding[f] # NULL
    /\ binding[f].kind = "nopane"
    /\ receipts[f] = NULL
    /\ Enter(c, binding[f].slot, f, "checkout")

(* An effect with a receipt is already done.                               *)
ReplayReceipt(f) ==
    /\ receipts[f] # NULL
    /\ acked' = acked \cup {f}
    /\ UNCHANGED <<vars, binding, inProgress, call>>

(* The interrupt has been sent, or has failed, which is only logged.       *)
Interrupted(c) ==
    /\ call[c] # NULL
    /\ call[c].pc = "interrupt"
    /\ Goto(c, "observe")
    /\ UNCHANGED <<vars, binding, inProgress, acked>>

(* The worktree has been looked at; the row is freed whoever owns it by    *)
(* now. A slot found free is reported as released.                         *)
CommitRelease(c) ==
    /\ call[c] # NULL
    /\ call[c].pc = "observe"
    /\ LET s == call[c].slot
           f == call[c].effect
       IN  IF rows[s].occupied
           THEN ReleaseSlotSimple(s, f, IF f = NULL THEN 0 ELSE binding[f].epoch)
           ELSE UNCHANGED vars
    /\ Goto(c, "project")
    /\ UNCHANGED <<binding, inProgress, acked>>

(* Wrong: the owner was looked at before the checkout was.                 *)
CommitNoPaneUnchecked(c) ==
    /\ call[c] # NULL
    /\ call[c].pc = "checkout"
    /\ ReleaseSlotSimple(call[c].slot, call[c].effect, binding[call[c].effect].epoch)
    /\ Goto(c, "project")
    /\ UNCHANGED <<binding, inProgress, acked>>

(* The checkout is the pane's own, clean and pushed, and the row still is  *)
(* the one the effect is bound to.                                         *)
CommitNoPaneRelease(c) ==
    /\ call[c] # NULL
    /\ call[c].pc = "checkout"
    /\ LET b == binding[call[c].effect]
       IN  CommitNativeNoPaneRelease(b.slot, call[c].effect, b.epoch, b.own, b.task)
    /\ Goto(c, "project")
    /\ UNCHANGED <<binding, inProgress, acked>>

(* Wrong: an early return skips the end of the critical section.           *)
LeaveForgetting(c) ==
    /\ UNCHANGED inProgress
    /\ call' = [call EXCEPT ![c] = NULL]

Leave(c) ==
    /\ inProgress' = inProgress \ {call[c].slot}
    /\ call' = [call EXCEPT ![c] = NULL]

(* The checkout is missing, foreign, dirty or unpushed, a probe failed, or *)
(* the transaction refused.                                                *)
RefuseNoPane(c) ==
    /\ call[c] # NULL
    /\ call[c].pc = "checkout"
    /\ Leave(c)
    /\ UNCHANGED <<vars, binding, acked>>

(* The labels of the freed lane have been taken off, or that failed, which *)
(* is reported beside a success.                                           *)
Answer(c) ==
    /\ call[c] # NULL
    /\ call[c].pc = "project"
    /\ acked' = acked \cup ({call[c].effect} \ {NULL})
    /\ Leave(c)
    /\ UNCHANGED <<vars, binding>>

Crash ==
    /\ \E c \in Call : call[c] # NULL
    /\ inProgress' = {}
    /\ call' = [c \in Call |-> NULL]
    /\ UNCHANGED <<vars, binding, acked>>

-----------------------------------------------------------------------------
Continue(c) == Interrupted(c) \/ CommitRelease(c) \/ RefuseNoPane(c) \/ Answer(c)

Begin(c) ==
    \/ \E s \in Slot : BeginOperatorRelease(c, s)
    \/ \E f \in Effect : BeginEffectRelease(c, f) \/ BeginNoPaneRelease(c, f)

(* Everybody else who writes the table.                                    *)
Others ==
    /\ \E s \in Slot : Claim(s) \/ Observe(s) \/ Update(s)
    /\ UNCHANGED relVars

RelNext ==
    \/ \E f \in Effect : Mint(f) \/ ReplayReceipt(f)
    \/ \E c \in Call : Begin(c) \/ CommitNoPaneRelease(c) \/ Continue(c)
    \/ Crash
    \/ Others

(* Every await of a handler ends: the shells it waits for have timeouts.   *)
RelSpec ==
    /\ RelInit
    /\ [][RelNext]_allVars
    /\ \A c \in Call : WF_allVars(Continue(c))

-----------------------------------------------------------------------------
RelTypeOK ==
    /\ TypeOK
    /\ binding \in [Effect -> Binding \cup {NULL}]
    /\ inProgress \subseteq Slot
    /\ call \in [Call -> Handler \cup {NULL}]
    /\ acked \subseteq Effect

(* A slot is marked in progress exactly while one handler works on it:     *)
(* neither a second handler nor an early return nor a crash leaves a mark  *)
(* that refuses every later release, or a handler without one.             *)
InProgressExact ==
    \A s \in Slot :
        LET working == {c \in Call : call[c] # NULL /\ call[c].slot = s}
        IN  Cardinality(working) = IF s \in inProgress THEN 1 ELSE 0

(* Whoever was told that an effect is released can look its receipt up,    *)
(* for ever. (A handler that finds the slot free answers "released" and    *)
(* writes no receipt; that no other can free it meanwhile is what makes    *)
(* this so.)                                                               *)
AckedEffectHasReceipt == \A f \in acked : receipts[f] # NULL

(* The owner an effect was bound to is the one it released: the receipt    *)
(* says the epoch after the one the effect names.                          *)
ReleasesItsOwner(f) == receipts[f] # NULL => receipts[f].released = receipts[f].expected + 1

NoPaneReleasesItsOwner ==
    \A f \in Effect :
        binding[f] # NULL /\ binding[f].kind = "nopane" => ReleasesItsOwner(f)

(* The same of the committed outbox effects, whose receipt is "keyed to    *)
(* the immutable effect tuple".                                            *)
EffectReleasesItsOwner ==
    \A f \in Effect :
        binding[f] # NULL /\ binding[f].kind = "family2" => ReleasesItsOwner(f)

(* A release that has begun comes to an end, with an answer or a crash.    *)
ReleasesEnd == \A s \in Slot : s \in inProgress ~> s \notin inProgress

(* The lanes that are an issue and nothing more: what TLC's runs present.  *)
IssueLanes ==
    {[own |-> [repo |-> repo, issue |-> issue, pr |-> NULL, ref |-> NULL,
               head |-> NULL, work |-> NULL, claim |-> 0],
      task |-> task] : repo \in Repo, issue \in Issue, task \in Task}

=============================================================================
