------------------------- MODULE SlotRelease_proofs -------------------------
(***************************************************************************)
(* What holds of the release coordinator for every number of slots,        *)
(* handlers and effects. One invariant carries it: a handler has its slot  *)
(* marked, is alone with it, and has not been overtaken, because only      *)
(* handlers free slots and a marked slot has no other.                     *)
(***************************************************************************)
EXTENDS SlotRelease, SlotAuthority_proofs, FiniteSetTheorems

(* What a handler may rely on at each point.                               *)
Entitled(c) ==
    /\ call[c].slot \in inProgress
    /\ call[c].effect # NULL =>
          /\ binding[call[c].effect] # NULL
          /\ binding[call[c].effect].slot = call[c].slot
          /\ call[c].pc \in {"interrupt", "observe"} => rows[call[c].slot].occupied
          /\ call[c].pc = "project" => receipts[call[c].effect] # NULL
    /\ call[c].pc = "checkout" => call[c].effect # NULL

AllEntitled == \A c \in Call : call[c] # NULL => Entitled(c)

Alone ==
    \A c, d \in Call :
        call[c] # NULL /\ call[d] # NULL /\ call[c].slot = call[d].slot => c = d

Worked == \A s \in inProgress : \E c \in Call : call[c] # NULL /\ call[c].slot = s

RelInv ==
    /\ RelTypeOK
    /\ OwnedIffOccupied
    /\ AllEntitled
    /\ Alone
    /\ Worked
    /\ AckedEffectHasReceipt

-----------------------------------------------------------------------------
(* What any write of the table leaves alone.                               *)
LEMMA KindFrame ==
    ASSUME Core, NEW s \in Slot, Kind(s)
    PROVE  /\ Core'
           /\ \A o \in Slot \ {s} : rows'[o] = rows[o]
           /\ \A f \in Effect : receipts[f] # NULL => receipts'[f] # NULL
<1>1. rows \in [Slot -> Row] /\ receipts \in [Effect -> Receipt \cup {NULL}]
  BY DEF Core, TypeOK
<1>2. \A o \in Slot \ {s} : rows'[o] = rows[o]
  BY <1>1 DEF Kind, Keeps, Grants, Frees, RowStep
<1>3. \A f \in Effect : receipts[f] # NULL => receipts'[f] # NULL
  BY <1>1 DEF Kind, Keeps, Grants, Frees
<1>. QED
  BY <1>2, <1>3, CoreStep

-----------------------------------------------------------------------------
(* A step of the coordinator is a write of the table, and of its own       *)
(* variables, that keeps the invariant: one lemma per action.              *)
LEMMA MintKeeps ==
    ASSUME RelInv, NEW f \in Effect, Mint(f)
    PROVE  RelInv'
<1>. USE NullIsNoRecord DEF RelInv, RelTypeOK, Mint, vars
<1>1. PICK b : b \in Binding /\ binding' = [binding EXCEPT ![f] = b]
  <2>1. PICK s \in Slot, kind \in {"family2", "nopane"} :
          /\ rows[s].occupied
          /\ Normalizable(rows[s].own)
          /\ binding' = [binding EXCEPT ![f] =
                [kind |-> kind, slot |-> s, epoch |-> rows[s].epoch,
                 own |-> rows[s].own, task |-> rows[s].task]]
    OBVIOUS
  <2>2. rows[s] \in Row /\ rows[s].own # NULL
    BY <2>1 DEF TypeOK, OwnedIffOccupied
  <2>. QED
    BY <2>1, <2>2 DEF Row, Binding
<1>2. binding' \in [Effect -> Binding \cup {NULL}]
  BY <1>1
<1>3. \A g \in Effect : binding[g] # NULL => binding'[g] = binding[g]
  BY <1>1
<1>4. \A c \in Call : call[c] # NULL => call[c].effect \in Effect \cup {NULL}
  BY DEF Handler
<1>5. AllEntitled'
  BY <1>3, <1>4 DEF AllEntitled, Entitled
<1>. QED
  BY <1>2, <1>5 DEF TypeOK, OwnedIffOccupied, Alone, Worked, AckedEffectHasReceipt

LEMMA ReplayKeeps ==
    ASSUME RelInv, NEW f \in Effect, ReplayReceipt(f)
    PROVE  RelInv'
BY DEF RelInv, RelTypeOK, ReplayReceipt, vars, TypeOK, OwnedIffOccupied, AllEntitled,
       Entitled, Alone, Worked, AckedEffectHasReceipt

(* A new handler is alone because its slot was not marked.                 *)
LEMMA EnterKeeps ==
    ASSUME RelInv, NEW c \in Call, NEW s \in Slot, NEW f \in Effect \cup {NULL},
           NEW pc \in {"interrupt", "observe", "checkout"}, Enter(c, s, f, pc),
           f # NULL => binding[f] # NULL /\ binding[f].slot = s,
           pc = "checkout" => f # NULL,
           pc \in {"interrupt", "observe"} => rows[s].occupied
    PROVE  RelInv'
<1>. USE NullIsNoRecord DEF RelInv, RelTypeOK, Enter
<1>. DEFINE h == [pc |-> pc, slot |-> s, effect |-> f]
<1>1. h \in Handler /\ h # NULL
  BY DEF Handler
<1>2. call' = [call EXCEPT ![c] = h] /\ inProgress' = inProgress \cup {s}
  OBVIOUS
<1>3. UNCHANGED <<rows, receipts, binding, acked>>
  BY DEF vars
<1>4. call'[c] = h /\ \A d \in Call \ {c} : call'[d] = call[d]
  BY <1>2
<1>5. call' \in [Call -> Handler \cup {NULL}]
  BY <1>1, <1>2
<1>6. \A d \in Call : call[d] # NULL => call[d].slot \in inProgress
  BY DEF AllEntitled, Entitled
<1>7. Entitled(c)'
  BY <1>2, <1>3, <1>4 DEF Entitled
<1>8. ASSUME NEW d \in Call \ {c}, call'[d] # NULL
      PROVE  Entitled(d)'
  <2>1. Entitled(d)
    BY <1>4, <1>8 DEF AllEntitled
  <2>. QED
    BY <1>2, <1>3, <1>4, <1>8, <2>1 DEF Entitled
<1>9. AllEntitled'
  BY <1>7, <1>8 DEF AllEntitled
<1>10. Alone'
  BY <1>4, <1>6 DEF Alone
<1>11. Worked'
  BY <1>1, <1>2, <1>4 DEF Worked
<1>. QED
  BY <1>2, <1>3, <1>5, <1>9, <1>10, <1>11 DEF TypeOK, OwnedIffOccupied, AckedEffectHasReceipt

LEMMA BeginKeeps ==
    ASSUME RelInv, NEW c \in Call, Begin(c)
    PROVE  RelInv'
<1>1. ASSUME NEW s \in Slot, BeginOperatorRelease(c, s)
      PROVE  RelInv'
  BY <1>1, EnterKeeps DEF BeginOperatorRelease, AfterEntry
<1>2. ASSUME NEW f \in Effect, BeginEffectRelease(c, f)
      PROVE  RelInv'
  <2>1. binding[f].slot \in Slot
    BY <1>2 DEF BeginEffectRelease, RelInv, RelTypeOK, Binding
  <2>. QED
    BY <1>2, <2>1, EnterKeeps DEF BeginEffectRelease, AfterEntry, Presents
<1>3. ASSUME NEW f \in Effect, BeginNoPaneRelease(c, f)
      PROVE  RelInv'
  <2>1. binding[f].slot \in Slot
    BY <1>3 DEF BeginNoPaneRelease, RelInv, RelTypeOK, Binding
  <2>. QED
    BY <1>3, <2>1, NullIsNoName, EnterKeeps DEF BeginNoPaneRelease
<1>. QED
  BY <1>1, <1>2, <1>3 DEF Begin

(* A handler moves on and keeps its slot.                                  *)
LEMMA GotoKeeps ==
    ASSUME RelInv, NEW c \in Call, call[c] # NULL,
           NEW pc \in {"observe", "project"}, Goto(c, pc),
           UNCHANGED <<binding, inProgress, acked>>,
           Core',
           \A f \in Effect : receipts[f] # NULL => receipts'[f] # NULL,
           \A d \in Call \ {c} :
               call[d] # NULL /\ rows[call[d].slot].occupied
                   => rows'[call[d].slot].occupied,
           call[c].effect # NULL =>
               /\ pc = "observe" => rows'[call[c].slot].occupied
               /\ pc = "project" => receipts'[call[c].effect] # NULL
    PROVE  RelInv'
<1>. USE NullIsNoRecord DEF RelInv, RelTypeOK, Goto
<1>. DEFINE h == [call[c] EXCEPT !.pc = pc]
<1>1. call[c] \in Handler
  OBVIOUS
<1>2. h \in Handler /\ h # NULL /\ h.pc = pc /\ h.slot = call[c].slot /\ h.effect = call[c].effect
  BY <1>1 DEF Handler
<1>3. call' = [call EXCEPT ![c] = h]
  OBVIOUS
<1>. HIDE DEF h
<1>4. call'[c] = h /\ \A d \in Call \ {c} : call'[d] = call[d]
  BY <1>3
<1>5. call' \in [Call -> Handler \cup {NULL}]
  BY <1>2, <1>3
<1>6. Entitled(c)'
  <2>1. Entitled(c)
    BY DEF AllEntitled
  <2>. QED
    BY <1>2, <1>4, <2>1 DEF Entitled
<1>7. ASSUME NEW d \in Call \ {c}, call'[d] # NULL
      PROVE  Entitled(d)'
  <2>1. call[d] # NULL /\ Entitled(d) /\ call'[d] = call[d]
    BY <1>4, <1>7 DEF AllEntitled
  <2>2. call[d].effect \in Effect \cup {NULL}
    BY <2>1 DEF Handler
  <2>. QED
    BY <2>1, <2>2 DEF Entitled
<1>8. AllEntitled'
  BY <1>6, <1>7 DEF AllEntitled
<1>9. Alone'
  BY <1>2, <1>4 DEF Alone
<1>10. Worked'
  BY <1>2, <1>4 DEF Worked
<1>11. AckedEffectHasReceipt'
  BY DEF AckedEffectHasReceipt
<1>. QED
  BY <1>5, <1>8, <1>9, <1>10, <1>11 DEF Core

LEMMA InterruptedKeeps ==
    ASSUME RelInv, NEW c \in Call, Interrupted(c)
    PROVE  RelInv'
<1>1. call[c] # NULL /\ Goto(c, "observe") /\ UNCHANGED <<rows, receipts, binding, inProgress, acked>>
  BY DEF Interrupted, vars
<1>2. Core'
  BY <1>1 DEF RelInv, RelTypeOK, Core, TypeOK, OwnedIffOccupied
<1>3. call[c].effect # NULL => rows'[call[c].slot].occupied
  BY <1>1 DEF Interrupted, RelInv, AllEntitled, Entitled
<1>. QED
  BY <1>1, <1>2, <1>3, GotoKeeps

(* The slot a handler frees is nobody else's.                              *)
LEMMA FreeingKeeps ==
    ASSUME RelInv, NEW c \in Call, call[c] # NULL, Frees(call[c].slot),
           Goto(c, "project"), UNCHANGED <<binding, inProgress, acked>>,
           call[c].effect # NULL => receipts'[call[c].effect] # NULL
    PROVE  RelInv'
<1>1. call[c].slot \in Slot
  BY DEF RelInv, RelTypeOK, Handler
<1>2. Core /\ Kind(call[c].slot)
  BY DEF RelInv, RelTypeOK, Core, Kind
<1>3. /\ Core'
      /\ \A o \in Slot \ {call[c].slot} : rows'[o] = rows[o]
      /\ \A f \in Effect : receipts[f] # NULL => receipts'[f] # NULL
  BY <1>1, <1>2, KindFrame
<1>4. \A d \in Call \ {c} : call[d] # NULL => call[d].slot \in Slot \ {call[c].slot}
  BY DEF RelInv, RelTypeOK, Handler, Alone
<1>. QED
  BY <1>3, <1>4, GotoKeeps

LEMMA CommitKeeps ==
    ASSUME RelInv, NEW c \in Call, CommitRelease(c)
    PROVE  RelInv'
<1>. DEFINE s == call[c].slot
            f == call[c].effect
<1>1. call[c] # NULL /\ s \in Slot /\ f \in Effect \cup {NULL} /\ Core
  BY DEF CommitRelease, RelInv, RelTypeOK, Handler, Core
<1>2. Goto(c, "project") /\ UNCHANGED <<binding, inProgress, acked>>
  BY DEF CommitRelease
<1>3. CASE rows[s].occupied
  <2>1. PICK e \in Nat : ReleaseSlotSimple(s, f, e)
    <3>1. f # NULL => binding[f].epoch \in Nat
      BY <1>1 DEF RelInv, RelTypeOK, AllEntitled, Entitled, Binding
    <3>. QED
      BY <1>3, <3>1 DEF CommitRelease
  <2>2. Frees(s)
    BY <1>1, <1>3, <2>1, BlankFrees DEF ReleaseSlotSimple
  <2>3. f # NULL => receipts'[f] # NULL
    <3>1. rows[s].epoch + 1 \in Nat
      BY <1>1 DEF Core, TypeOK, Row
    <3>. QED
      BY <1>1, <2>1, <3>1, NullIsNoRecord DEF ReleaseSlotSimple, RecordReceipt, Core, TypeOK, Receipt
  <2>. QED
    BY <1>1, <1>2, <2>2, <2>3, FreeingKeeps
<1>4. CASE ~ rows[s].occupied
  <2>1. UNCHANGED <<rows, receipts>>
    BY <1>4 DEF CommitRelease, vars
  <2>2. f = NULL
    BY <1>1, <1>4 DEF CommitRelease, RelInv, AllEntitled, Entitled
  <2>3. Core'
    BY <1>1, <2>1 DEF Core, TypeOK, OwnedIffOccupied
  <2>. QED
    BY <1>1, <1>2, <2>1, <2>2, <2>3, GotoKeeps
<1>. QED
  BY <1>3, <1>4

LEMMA CommitNoPaneKeeps ==
    ASSUME RelInv, NEW c \in Call, CommitNoPaneRelease(c)
    PROVE  RelInv'
<1>. DEFINE f == call[c].effect
            b == binding[f]
<1>1. call[c] # NULL /\ f \in Effect /\ b \in Binding /\ b.slot = call[c].slot /\ Core
  BY DEF CommitNoPaneRelease, RelInv, RelTypeOK, AllEntitled, Entitled, Handler, Core
<1>2. Goto(c, "project") /\ UNCHANGED <<binding, inProgress, acked>>
  BY DEF CommitNoPaneRelease
<1>3. CommitNativeNoPaneRelease(b.slot, f, b.epoch, b.own, b.task)
  BY DEF CommitNoPaneRelease
<1>4. /\ rows[b.slot].occupied
      /\ RecordReceipt(f, b.slot, b.epoch)
      /\ Write(b.slot, Freed(rows[b.slot]))
  BY <1>3 DEF CommitNativeNoPaneRelease, Presents
<1>5. b.slot \in Slot /\ b.epoch \in Nat
  BY <1>1 DEF Binding
<1>6. Frees(b.slot)
  BY <1>1, <1>4, <1>5, BlankFrees
<1>7. receipts'[f] # NULL
  <2>1. rows[b.slot].epoch + 1 \in Nat
    BY <1>1, <1>5 DEF Core, TypeOK, Row
  <2>2. f # NULL
    BY <1>1, NullIsNoName
  <2>. QED
    BY <1>1, <1>4, <1>5, <2>1, <2>2, NullIsNoRecord DEF RecordReceipt, Core, TypeOK, Receipt
<1>. QED
  BY <1>1, <1>2, <1>6, <1>7, FreeingKeeps

(* A handler leaves and takes its mark with it.                            *)
LEMMA LeaveKeeps ==
    ASSUME RelInv, NEW c \in Call, call[c] # NULL, Leave(c), UNCHANGED <<vars, binding>>,
           NEW f \in Effect \cup {NULL}, acked' = acked \cup ({f} \ {NULL}),
           f # NULL => receipts[f] # NULL
    PROVE  RelInv'
<1>. USE DEF RelInv, RelTypeOK, Leave, vars
<1>1. call'[c] = NULL /\ \A d \in Call \ {c} : call'[d] = call[d]
  OBVIOUS
<1>2. \A d \in Call \ {c} : call[d] # NULL => call[d].slot # call[c].slot
  BY DEF Alone
<1>3. ASSUME NEW d \in Call, call'[d] # NULL
      PROVE  Entitled(d)'
  <2>1. d # c /\ call[d] # NULL /\ Entitled(d) /\ call'[d] = call[d]
    BY <1>1, <1>3 DEF AllEntitled
  <2>. QED
    BY <1>2, <2>1 DEF Entitled
<1>4. AllEntitled'
  BY <1>3 DEF AllEntitled
<1>5. Alone'
  BY <1>1 DEF Alone
<1>6. Worked'
  BY <1>1 DEF Worked
<1>. QED
  BY <1>4, <1>5, <1>6 DEF TypeOK, OwnedIffOccupied, AckedEffectHasReceipt

LEMMA CrashKeeps ==
    ASSUME RelInv, Crash
    PROVE  RelInv'
BY DEF RelInv, RelTypeOK, Crash, vars, TypeOK, OwnedIffOccupied, AllEntitled, Alone,
       Worked, AckedEffectHasReceipt

(* Nobody else frees a slot.                                               *)
LEMMA OthersKeep ==
    ASSUME RelInv, Others
    PROVE  RelInv'
<1>1. PICK s \in Slot : Claim(s) \/ Observe(s) \/ Update(s)
  BY DEF Others
<1>2. Core
  BY DEF RelInv, RelTypeOK, Core
<1>3. Keeps(s) \/ Grants(s)
  BY <1>1, <1>2, ClaimGrants, ObserveKeeps, UpdateKeeps
<1>4. /\ Core'
      /\ \A o \in Slot \ {s} : rows'[o] = rows[o]
      /\ \A f \in Effect : receipts[f] # NULL => receipts'[f] # NULL
  BY <1>2, <1>3, KindFrame DEF Kind
<1>5. \A o \in Slot : rows[o].occupied => rows'[o].occupied
  BY <1>3, <1>4 DEF Keeps, Grants
<1>6. UNCHANGED <<binding, inProgress, call, acked>>
  BY DEF Others, relVars
<1>7. AllEntitled'
  BY <1>4, <1>5, <1>6 DEF RelInv, RelTypeOK, Handler, AllEntitled, Entitled
<1>. QED
  BY <1>4, <1>6, <1>7 DEF RelInv, RelTypeOK, Core, Alone, Worked, AckedEffectHasReceipt

-----------------------------------------------------------------------------
LEMMA RelInvInit == RelInit => RelInv
<1>. SUFFICES ASSUME RelInit PROVE RelInv
  OBVIOUS
<1>1. Core
  BY CoreInit DEF RelInit
<1>. QED
  BY <1>1 DEF RelInit, RelInv, RelTypeOK, Core, AllEntitled, Alone, Worked, AckedEffectHasReceipt

LEMMA RelInvStep == RelInv /\ [RelNext]_allVars => RelInv'
<1>. SUFFICES ASSUME RelInv, [RelNext]_allVars PROVE RelInv'
  OBVIOUS
<1>1. CASE UNCHANGED allVars
  BY <1>1 DEF allVars, vars, relVars, RelInv, RelTypeOK, TypeOK, OwnedIffOccupied,
              AllEntitled, Entitled, Alone, Worked, AckedEffectHasReceipt
<1>2. ASSUME NEW f \in Effect, Mint(f) \/ ReplayReceipt(f)
      PROVE  RelInv'
  BY <1>2, MintKeeps, ReplayKeeps
<1>3. ASSUME NEW c \in Call, RefuseNoPane(c)
      PROVE  RelInv'
  <2>1. call[c] # NULL /\ Leave(c) /\ UNCHANGED <<vars, binding>> /\ acked' = acked \cup ({NULL} \ {NULL})
    BY <1>3 DEF RefuseNoPane
  <2>. QED
    BY <2>1, LeaveKeeps
<1>4. ASSUME NEW c \in Call, Answer(c)
      PROVE  RelInv'
  <2>1. /\ call[c] # NULL /\ Leave(c) /\ UNCHANGED <<vars, binding>>
        /\ acked' = acked \cup ({call[c].effect} \ {NULL})
    BY <1>4 DEF Answer
  <2>2. /\ call[c].effect \in Effect \cup {NULL}
        /\ call[c].effect # NULL => receipts[call[c].effect] # NULL
    BY <1>4, <2>1 DEF Answer, RelInv, RelTypeOK, Handler, AllEntitled, Entitled
  <2>. QED
    BY <2>1, <2>2, LeaveKeeps
<1>5. ASSUME NEW c \in Call, Begin(c) \/ CommitNoPaneRelease(c) \/ Continue(c)
      PROVE  RelInv'
  BY <1>3, <1>4, <1>5, BeginKeeps, CommitNoPaneKeeps, InterruptedKeeps, CommitKeeps DEF Continue
<1>. QED
  BY <1>1, <1>2, <1>5, CrashKeeps, OthersKeep DEF RelNext

LEMMA RelInvHolds == RelSpec => []RelInv
<1>. QED
  BY RelInvInit, RelInvStep, PTL DEF RelSpec

-----------------------------------------------------------------------------
(* The tables and the handlers are well typed, however many handlers of    *)
(* however many effects are interleaved with claims, hooks and crashes.    *)
THEOREM ReleaseTypeCorrect == RelSpec => []RelTypeOK
<1>1. RelInv => RelTypeOK
  BY DEF RelInv
<1>. QED
  BY RelInvHolds, <1>1, PTL

(* inProgressSlots holds exactly the slots one handler is at work on.      *)
THEOREM MarksExact == RelSpec => []InProgressExact
<1>1. ASSUME RelInv, NEW s \in Slot
      PROVE  Cardinality({c \in Call : call[c] # NULL /\ call[c].slot = s})
                = IF s \in inProgress THEN 1 ELSE 0
  <2>. DEFINE working == {c \in Call : call[c] # NULL /\ call[c].slot = s}
  <2>1. CASE s \in inProgress
    <3>1. PICK c \in Call : call[c] # NULL /\ call[c].slot = s
      BY <1>1, <2>1 DEF RelInv, Worked
    <3>2. working = {c}
      BY <1>1, <3>1 DEF RelInv, Alone
    <3>. QED
      BY <2>1, <3>2, FS_Singleton
  <2>2. CASE s \notin inProgress
    <3>1. working = {}
      BY <1>1, <2>2 DEF RelInv, AllEntitled, Entitled
    <3>. QED
      BY <2>2, <3>1, FS_EmptySet
  <2>. QED
    BY <2>1, <2>2
<1>2. RelInv => InProgressExact
  BY <1>1 DEF InProgressExact
<1>. QED
  BY RelInvHolds, <1>2, PTL

(* Nobody is told that an effect is released before its receipt is on      *)
(* record, although a handler that finds its slot free writes none.        *)
THEOREM AckedHaveReceipts == RelSpec => []AckedEffectHasReceipt
<1>1. RelInv => AckedEffectHasReceipt
  BY DEF RelInv
<1>. QED
  BY RelInvHolds, <1>1, PTL

-----------------------------------------------------------------------------
(* A receipt belongs to a minted effect, and handlers that skip the last   *)
(* comparison with the row work for the other kind of effect.              *)
BoundInv ==
    /\ \A f \in Effect : receipts[f] # NULL => binding[f] # NULL
    /\ \A c \in Call :
          call[c] # NULL /\ call[c].effect # NULL /\ call[c].pc \in {"interrupt", "observe"}
              => binding[call[c].effect].kind = "family2"
    /\ NoPaneReleasesItsOwner

(* Steps that write no receipt.                                            *)
LEMMA BoundFrame ==
    ASSUME RelInv, BoundInv, receipts' = receipts,
           \A f \in Effect : binding[f] # NULL => binding'[f] = binding[f],
           \A c \in Call :
               call'[c] # NULL /\ call'[c].effect # NULL /\ call'[c].pc \in {"interrupt", "observe"}
                   => binding'[call'[c].effect].kind = "family2"
    PROVE  BoundInv'
BY DEF BoundInv, NoPaneReleasesItsOwner, ReleasesItsOwner

(* A receipt written for an effect that says what it is bound to, or that  *)
(* nothing is claimed of.                                                  *)
LEMMA BoundReceipt ==
    ASSUME RelInv, BoundInv, NEW f \in Effect, NEW r \in Receipt,
           receipts' = [receipts EXCEPT ![f] = r], binding' = binding,
           binding[f] # NULL,
           binding[f].kind = "nopane" => r.released = r.expected + 1,
           \A c \in Call :
               call'[c] # NULL /\ call'[c].effect # NULL /\ call'[c].pc \in {"interrupt", "observe"}
                   => binding[call'[c].effect].kind = "family2"
    PROVE  BoundInv'
<1>1. receipts'[f] = r /\ \A g \in Effect \ {f} : receipts'[g] = receipts[g]
  BY DEF RelInv, RelTypeOK, TypeOK
<1>2. ASSUME NEW g \in Effect
      PROVE  /\ receipts'[g] # NULL => binding'[g] # NULL
             /\ binding'[g] # NULL /\ binding'[g].kind = "nopane" => ReleasesItsOwner(g)'
  <2>1. CASE g = f
    BY <1>1, <2>1 DEF ReleasesItsOwner
  <2>2. CASE g # f
    BY <1>1, <2>2 DEF BoundInv, NoPaneReleasesItsOwner, ReleasesItsOwner
  <2>. QED
    BY <2>1, <2>2
<1>. QED
  BY <1>2 DEF BoundInv, NoPaneReleasesItsOwner

(* A handler that goes to another point, or away, takes on no new effect.  *)
LEMMA CallsBound ==
    ASSUME RelInv, BoundInv, NEW c \in Call, call[c] # NULL,
           \/ \E pc \in {"observe", "project"} :
                 Goto(c, pc) /\ (pc = "observe" => call[c].pc = "interrupt")
           \/ Leave(c)
    PROVE  \A d \in Call :
               call'[d] # NULL /\ call'[d].effect # NULL /\ call'[d].pc \in {"interrupt", "observe"}
                   => binding[call'[d].effect].kind = "family2"
<1>1. call[c] \in Handler /\ call \in [Call -> Handler \cup {NULL}]
  BY DEF RelInv, RelTypeOK
<1>2. ASSUME NEW d \in Call, d # c
      PROVE  call'[d] = call[d]
  BY <1>1, <1>2 DEF Goto, Leave
<1>3. ASSUME call'[c] # NULL, call'[c].pc \in {"interrupt", "observe"}
      PROVE  call'[c].effect = call[c].effect /\ call[c].pc = "interrupt"
  <2>1. PICK pc \in {"observe", "project"} :
           Goto(c, pc) /\ (pc = "observe" => call[c].pc = "interrupt")
    BY <1>1, <1>3 DEF Leave
  <2>2. call'[c] = [call[c] EXCEPT !.pc = pc]
    BY <1>1, <2>1 DEF Goto
  <2>. QED
    BY <1>1, <1>3, <2>1, <2>2 DEF Handler
<1>. QED
  BY <1>2, <1>3 DEF BoundInv

LEMMA BoundStep == RelInv /\ BoundInv /\ [RelNext]_allVars => BoundInv'
<1>. SUFFICES ASSUME RelInv, BoundInv, [RelNext]_allVars PROVE BoundInv'
  OBVIOUS
<1>1. CASE UNCHANGED allVars
  BY <1>1, BoundFrame DEF allVars, vars, relVars, BoundInv
<1>2. ASSUME NEW f \in Effect, Mint(f)
      PROVE  BoundInv'
  <2>1. \A g \in Effect : binding[g] # NULL => binding'[g] = binding[g]
    BY <1>2 DEF Mint, RelInv, RelTypeOK
  <2>2. \A c \in Call : call[c] # NULL /\ call[c].effect # NULL
           => call[c].effect \in Effect /\ binding[call[c].effect] # NULL
    BY DEF RelInv, RelTypeOK, Handler, AllEntitled, Entitled
  <2>. QED
    BY <1>2, <2>1, <2>2, BoundFrame DEF Mint, vars, BoundInv
<1>3. ASSUME NEW f \in Effect, ReplayReceipt(f)
      PROVE  BoundInv'
  BY <1>3, BoundFrame DEF ReplayReceipt, vars, BoundInv
<1>4. ASSUME NEW c \in Call, NEW s \in Slot, NEW f \in Effect \cup {NULL},
             NEW pc \in {"interrupt", "observe", "checkout"}, Enter(c, s, f, pc),
             f # NULL /\ pc # "checkout" => binding[f].kind = "family2"
      PROVE  BoundInv'
  <2>1. call' = [call EXCEPT ![c] = [pc |-> pc, slot |-> s, effect |-> f]]
    BY <1>4 DEF Enter
  <2>2. \A d \in Call : call'[d] = IF d = c THEN [pc |-> pc, slot |-> s, effect |-> f] ELSE call[d]
    BY <2>1 DEF RelInv, RelTypeOK
  <2>3. receipts' = receipts /\ binding' = binding
    BY <1>4 DEF Enter, vars
  <2>. QED
    BY <1>4, <2>2, <2>3, BoundFrame DEF BoundInv
<1>5. ASSUME NEW c \in Call, Begin(c)
      PROVE  BoundInv'
  <2>1. ASSUME NEW s \in Slot, BeginOperatorRelease(c, s)
        PROVE  BoundInv'
    BY <2>1, <1>4 DEF BeginOperatorRelease, AfterEntry
  <2>2. ASSUME NEW f \in Effect, BeginEffectRelease(c, f)
        PROVE  BoundInv'
    <3>1. binding[f].slot \in Slot
      BY <2>2 DEF BeginEffectRelease, RelInv, RelTypeOK, Binding
    <3>. QED
      BY <2>2, <3>1, <1>4 DEF BeginEffectRelease, AfterEntry
  <2>3. ASSUME NEW f \in Effect, BeginNoPaneRelease(c, f)
        PROVE  BoundInv'
    <3>1. binding[f].slot \in Slot
      BY <2>3 DEF BeginNoPaneRelease, RelInv, RelTypeOK, Binding
    <3>. QED
      BY <2>3, <3>1, <1>4 DEF BeginNoPaneRelease
  <2>. QED
    BY <1>5, <2>1, <2>2, <2>3 DEF Begin
<1>6. ASSUME NEW c \in Call, Interrupted(c) \/ RefuseNoPane(c) \/ Answer(c)
      PROVE  BoundInv'
  <2>1. call[c] # NULL /\ receipts' = receipts /\ binding' = binding
    BY <1>6 DEF Interrupted, RefuseNoPane, Answer, vars
  <2>2. Leave(c) \/ (Goto(c, "observe") /\ call[c].pc = "interrupt")
    BY <1>6 DEF Interrupted, RefuseNoPane, Answer
  <2>. QED
    BY <2>1, <2>2, CallsBound, BoundFrame
<1>7. ASSUME NEW c \in Call, CommitRelease(c)
      PROVE  BoundInv'
  <2>. DEFINE s == call[c].slot
              f == call[c].effect
  <2>1. call[c] # NULL /\ s \in Slot /\ f \in Effect \cup {NULL}
    BY <1>7 DEF CommitRelease, RelInv, RelTypeOK, Handler
  <2>2. Goto(c, "project") /\ binding' = binding
    BY <1>7 DEF CommitRelease
  <2>3. CASE receipts' = receipts
    BY <2>1, <2>2, <2>3, CallsBound, BoundFrame
  <2>4. CASE receipts' # receipts
    <3>1. rows[s].occupied /\ f # NULL
      BY <1>7, <2>4 DEF CommitRelease, vars, ReleaseSlotSimple, RecordReceipt
    <3>2. binding[f] # NULL /\ binding[f] \in Binding /\ binding[f].kind = "family2"
      BY <1>7, <2>1, <3>1 DEF CommitRelease, RelInv, RelTypeOK, AllEntitled, Entitled, BoundInv
    <3>. DEFINE r == [slot |-> s, expected |-> binding[f].epoch, released |-> rows[s].epoch + 1]
    <3>3. receipts' = [receipts EXCEPT ![f] = r]
      BY <1>7, <3>1 DEF CommitRelease, ReleaseSlotSimple, RecordReceipt
    <3>4. r \in Receipt
      <4>1. rows[s].epoch + 1 \in Nat /\ binding[f].epoch \in Nat
        BY <2>1, <3>2 DEF RelInv, RelTypeOK, TypeOK, Row, Binding
      <4>. QED
        BY <2>1, <4>1 DEF Receipt
    <3>. HIDE DEF r
    <3>. QED
      BY <2>1, <2>2, <3>1, <3>2, <3>3, <3>4, CallsBound, BoundReceipt
  <2>. QED
    BY <2>3, <2>4
<1>8. ASSUME NEW c \in Call, CommitNoPaneRelease(c)
      PROVE  BoundInv'
  <2>. DEFINE f == call[c].effect
              b == binding[f]
              r == [slot |-> b.slot, expected |-> b.epoch, released |-> rows[b.slot].epoch + 1]
  <2>1. call[c] # NULL /\ f \in Effect /\ f # NULL /\ b # NULL /\ b \in Binding
    BY <1>8, NullIsNoName DEF CommitNoPaneRelease, RelInv, RelTypeOK, AllEntitled, Entitled, Handler
  <2>2. Goto(c, "project") /\ binding' = binding
    BY <1>8 DEF CommitNoPaneRelease
  <2>3. CommitNativeNoPaneRelease(b.slot, f, b.epoch, b.own, b.task)
    BY <1>8 DEF CommitNoPaneRelease
  <2>4. rows[b.slot].epoch = b.epoch /\ receipts' = [receipts EXCEPT ![f] = r]
    BY <2>1, <2>3 DEF CommitNativeNoPaneRelease, Presents, RecordReceipt
  <2>5. r \in Receipt /\ r.released = r.expected + 1
    <3>1. b.slot \in Slot /\ b.epoch \in Nat
      BY <2>1 DEF Binding
    <3>. QED
      BY <2>4, <3>1 DEF Receipt
  <2>. HIDE DEF r
  <2>. QED
    BY <2>1, <2>2, <2>4, <2>5, CallsBound, BoundReceipt
<1>9. ASSUME Crash
      PROVE  BoundInv'
  BY <1>9, BoundFrame DEF Crash, vars
<1>10. ASSUME Others
       PROVE  BoundInv'
  <2>1. receipts' = receipts
    BY <1>10, ClaimGrants, ObserveKeeps, UpdateKeeps
       DEF Others, RelInv, RelTypeOK, Core, Keeps, Grants
  <2>. QED
    BY <1>10, <2>1, BoundFrame DEF Others, relVars, BoundInv
<1>. QED
  BY <1>1, <1>2, <1>3, <1>5, <1>6, <1>7, <1>8, <1>9, <1>10 DEF RelNext, Continue

(* A no-pane effect frees the owner it is bound to and no other: its       *)
(* receipt names the epoch after the one it was minted for.                *)
THEOREM NoPaneBound == RelSpec => []NoPaneReleasesItsOwner
<1>1. RelInit => BoundInv
  BY DEF RelInit, Init, BoundInv, NoPaneReleasesItsOwner
<1>2. BoundInv => NoPaneReleasesItsOwner
  BY DEF BoundInv
<1>. QED
  BY <1>1, <1>2, BoundStep, RelInvHolds, PTL DEF RelSpec

=============================================================================
