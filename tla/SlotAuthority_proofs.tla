------------------------ MODULE SlotAuthority_proofs ------------------------
(***************************************************************************)
(* What holds of the slot table for every number of slots, lanes, turns,   *)
(* effects and requests. Every write is of one of three kinds - it keeps   *)
(* the owner, grants one or frees the slot - and each invariant and the    *)
(* refinement follow from the kinds alone.                                 *)
(***************************************************************************)
EXTENDS SlotAuthority, TLAPS

(* A recorded turn has a name exactly when it is not "inactive".           *)
TurnNamed(r) == (r.turn = NULL) <=> (r.turnState = "inactive")

(* A write of row s to a well-typed row whose turn is named if it was.     *)
RowStep(s) ==
    /\ rows'[s] \in Row
    /\ rows' = [rows EXCEPT ![s] = rows'[s]]
    /\ TurnNamed(rows[s]) => TurnNamed(rows'[s])

(* The owner and the epoch stay; the head may move.                        *)
Keeps(s) ==
    /\ RowStep(s)
    /\ rows'[s].occupied = rows[s].occupied
    /\ rows'[s].epoch = rows[s].epoch
    /\ \/ rows'[s].own = rows[s].own
       \/ /\ rows[s].occupied
          /\ \E h \in HeadSha : rows'[s].own = [rows[s].own EXCEPT !.head = h]
    /\ rows'[s].dnd => rows[s].dnd \/ rows[s].occupied
    /\ receipts' = receipts

(* A lane no other slot competes for is granted under the next epoch.      *)
Grants(s) ==
    /\ RowStep(s)
    /\ rows'[s].occupied
    /\ rows'[s].epoch = rows[s].epoch + 1
    /\ rows'[s].own \in Tuple
    /\ Owners(s, rows'[s].own) = {}
    /\ receipts' = receipts

(* An occupied row is blanked under the next epoch.                        *)
Frees(s) ==
    /\ RowStep(s)
    /\ rows[s].occupied
    /\ ~ rows'[s].occupied
    /\ ~ rows'[s].dnd
    /\ rows'[s].epoch = rows[s].epoch + 1
    /\ rows'[s].own = NULL
    /\ \/ receipts' = receipts
       \/ \E f \in Effect, e \in Nat :
             /\ receipts[f] = NULL
             /\ receipts' = [receipts EXCEPT
                   ![f] = [slot |-> s, expected |-> e, released |-> rows[s].epoch + 1]]

Kind(s) == Keeps(s) \/ Grants(s) \/ Frees(s)

(* The table's inductive core.                                             *)
Core == TypeOK /\ OwnedIffOccupied

-----------------------------------------------------------------------------
(* What the row operators make of a row.                                   *)
LEMMA HeadMoves ==
    ASSUME NEW t \in Tuple, NEW h \in HeadSha
    PROVE  /\ [t EXCEPT !.head = h] \in Tuple
           /\ OwnerOf([t EXCEPT !.head = h]) = OwnerOf(t)
<1>1. [t EXCEPT !.head = h] \in Tuple
  BY Zenon DEF Tuple
<1>. QED
  BY <1>1, NullIsNoValue DEF OwnerOf, Tuple

LEMMA AssignedRow ==
    ASSUME NEW r \in Row, NEW t \in Tuple, NEW task \in Task \cup {NULL}
    PROVE  /\ Assigned(r, t, task) \in Row
           /\ Assigned(r, t, task).occupied
           /\ Assigned(r, t, task).own = t
           /\ Assigned(r, t, task).epoch = r.epoch + 1
           /\ TurnNamed(r) => TurnNamed(Assigned(r, t, task))
<1>1. r.epoch + 1 \in Nat
  BY DEF Row
<1>2. Assigned(r, t, task) \in Row
  BY <1>1, Zenon DEF Assigned, Row
<1>. QED
  BY <1>2 DEF Assigned, Row, TurnNamed

LEMMA ClosedRow ==
    ASSUME NEW r \in Row
    PROVE  /\ TurnClosed(r) \in Row
           /\ TurnClosed(r).occupied = r.occupied
           /\ TurnClosed(r).own = r.own
           /\ TurnClosed(r).epoch = r.epoch
           /\ TurnClosed(r).dnd = r.dnd
           /\ TurnClosed(r).turn = NULL
           /\ TurnClosed(r).turnState = "inactive"
           /\ TurnNamed(TurnClosed(r))
<1>1. TurnClosed(r) \in Row
  BY Zenon DEF TurnClosed, Row
<1>. QED
  BY <1>1 DEF TurnClosed, Row, TurnNamed

LEMMA FreedRow ==
    ASSUME NEW r \in Row
    PROVE  /\ Freed(r) \in Row
           /\ ~ Freed(r).occupied
           /\ ~ Freed(r).dnd
           /\ Freed(r).own = NULL
           /\ Freed(r).epoch = r.epoch + 1
           /\ TurnNamed(Freed(r))
<1>. DEFINE c == TurnClosed(r)
<1>1. c \in Row /\ c.epoch = r.epoch /\ c.turn = NULL /\ c.turnState = "inactive"
  BY ClosedRow
<1>. HIDE DEF c
<1>2. Freed(r) = [c EXCEPT !.occupied = FALSE, !.own = NULL, !.task = NULL,
                          !.epoch = @ + 1, !.dnd = FALSE, !.idle = TRUE,
                          !.activity = NULL]
  BY DEF Freed, c
<1>3. c.epoch + 1 \in Nat
  BY <1>1 DEF Row
<1>4. Freed(r) \in Row
  BY <1>1, <1>2, <1>3, Zenon DEF Row
<1>. QED
  BY <1>1, <1>2, <1>4 DEF Row, TurnNamed

-----------------------------------------------------------------------------
(* Claims are grants.                                                      *)
LEMMA ClaimGrants ==
    ASSUME Core, NEW s \in Slot, Claim(s)
    PROVE  Grants(s)
<1>. USE RequestsAreTuples, NullIsNoName, NullIsNoValue
<1>1. PICK q \in Requests :
        \/ \E e \in Epochs, free \in BOOLEAN : AssignSlot(s, e, q.own, q.task, free)
        \/ \E force \in BOOLEAN :
              /\ q.own.issue # NULL
              /\ AssignIssueToSlot(s, q.own.repo, q.own.issue, q.task, force)
        \/ \E e \in Epochs, expected \in Readable, task \in {q.task, NULL} :
              RebindSlot(s, e, expected, q.own, task)
        \/ AssignSlotSimple(s, q.own, q.task)
  BY DEF Claim
<1>2. q.own \in Tuple /\ q.task \in Task
  OBVIOUS
<1>3. rows[s] \in Row /\ rows[s].epoch \in Nat
  BY DEF Core, TypeOK, Row
<1>4. rows \in [Slot -> Row]
  BY DEF Core, TypeOK
<1>5. CASE \E e \in Epochs, free \in BOOLEAN : AssignSlot(s, e, q.own, q.task, free)
  <2>. DEFINE t == Stamped(rows[s], q.own)
              r == [Assigned(rows[s], t, q.task) EXCEPT !.dnd = FALSE]
  <2>1. rows' = [rows EXCEPT ![s] = r] /\ receipts' = receipts /\ Owners(s, q.own) = {}
    BY <1>5 DEF AssignSlot, Write
  <2>2. t \in Tuple
    BY <1>2, <1>3 DEF Stamped, Tuple
  <2>. DEFINE a == Assigned(rows[s], t, q.task)
  <2>. HIDE DEF a
  <2>6. /\ a \in Row /\ a.occupied /\ a.epoch = rows[s].epoch + 1 /\ a.own = t
        /\ TurnNamed(rows[s]) => TurnNamed(a)
    BY <1>2, <1>3, <2>2, AssignedRow DEF a
  <2>7. r = [a EXCEPT !.dnd = FALSE]
    BY DEF a
  <2>3. /\ r \in Row /\ r.occupied /\ r.epoch = rows[s].epoch + 1 /\ r.own = t
        /\ TurnNamed(rows[s]) => TurnNamed(r)
    <3>. HIDE DEF r
    <3>1. r \in Row
      BY <2>6, <2>7, Zenon DEF Row
    <3>. QED BY <2>6, <2>7, <3>1 DEF Row, TurnNamed
  <2>4. Owners(s, t) = {}
    BY <2>1, <1>2 DEF Owners, LaneClash, Stamped, Tuple
  <2>5. rows'[s] = r
    BY <2>1, <1>4
  <2>. HIDE DEF r, t
  <2>. QED
    BY <2>1, <2>2, <2>3, <2>4, <2>5 DEF Grants, RowStep
<1>6. CASE \E force \in BOOLEAN :
              /\ q.own.issue # NULL
              /\ AssignIssueToSlot(s, q.own.repo, q.own.issue, q.task, force)
  <2>. DEFINE u == [repo |-> q.own.repo, issue |-> q.own.issue, pr |-> NULL,
                    ref |-> NULL, head |-> NULL, work |-> NULL, claim |-> 0]
              t == Stamped(rows[s], u)
              r == [TurnClosed(Assigned(rows[s], t, q.task))
                       EXCEPT !.dnd = FALSE, !.idle = FALSE, !.activity = NULL]
  <2>1. rows' = [rows EXCEPT ![s] = r] /\ receipts' = receipts
    BY <1>6 DEF AssignIssueToSlot, Write
  <2>2. t \in Tuple /\ t.issue = q.own.issue /\ t.pr = NULL /\ t.ref = NULL
    BY <1>2, <1>3 DEF Stamped, Tuple
  <2>. DEFINE c == TurnClosed(Assigned(rows[s], t, q.task))
  <2>. HIDE DEF c
  <2>7. /\ c \in Row /\ c.occupied /\ c.epoch = rows[s].epoch + 1 /\ c.own = t
        /\ TurnNamed(c)
    <3>. DEFINE a == Assigned(rows[s], t, q.task)
    <3>1. a \in Row /\ a.occupied /\ a.epoch = rows[s].epoch + 1 /\ a.own = t
      <4>. HIDE DEF t, r
      <4>. QED BY <1>2, <1>3, <2>2, AssignedRow
    <3>. HIDE DEF a, t, r
    <3>2. c = TurnClosed(a)
      BY DEF c, a
    <3>. QED BY <3>1, <3>2, ClosedRow
  <2>8. r = [c EXCEPT !.dnd = FALSE, !.idle = FALSE, !.activity = NULL]
    BY DEF c
  <2>3. /\ r \in Row /\ r.occupied /\ r.epoch = rows[s].epoch + 1 /\ r.own = t
        /\ TurnNamed(rows[s]) => TurnNamed(r)
    <3>. HIDE DEF r
    <3>1. r \in Row
      BY <2>7, <2>8, Zenon DEF Row
    <3>. QED BY <2>7, <2>8, <3>1 DEF Row, TurnNamed
  <2>4. ~ \E o \in Slot \ {s} : rows[o].occupied /\ rows[o].own.issue = q.own.issue
    BY <1>6 DEF AssignIssueToSlot
  <2>5. rows'[s] = r
    BY <2>1, <1>4
  <2>. HIDE DEF r, t, u
  <2>6. Owners(s, t) = {}
    BY <2>2, <2>4 DEF Owners, LaneClash
  <2>. QED
    BY <2>1, <2>2, <2>3, <2>5, <2>6 DEF Grants, RowStep
<1>7. CASE \E e \in Epochs, expected \in Readable, task \in {q.task, NULL} :
              RebindSlot(s, e, expected, q.own, task)
  <2>1. PICK task \in Task \cup {NULL} :
          /\ rows' = [rows EXCEPT ![s] = Assigned(rows[s], q.own, task)]
          /\ receipts' = receipts
          /\ Owners(s, q.own) = {}
    BY <1>2, <1>3, <1>7 DEF RebindSlot, Write, Row
  <2>. DEFINE r == Assigned(rows[s], q.own, task)
  <2>2. /\ r \in Row /\ r.occupied /\ r.epoch = rows[s].epoch + 1 /\ r.own = q.own
        /\ TurnNamed(rows[s]) => TurnNamed(r)
    BY <1>2, <1>3, AssignedRow
  <2>3. rows'[s] = r
    BY <2>1, <1>4
  <2>. HIDE DEF r
  <2>. QED
    BY <1>2, <2>1, <2>2, <2>3 DEF Grants, RowStep
<1>8. CASE AssignSlotSimple(s, q.own, q.task)
  <2>. DEFINE r == TurnClosed(Assigned(rows[s], q.own, q.task))
  <2>1. rows' = [rows EXCEPT ![s] = r] /\ receipts' = receipts /\ Owners(s, q.own) = {}
    BY <1>8 DEF AssignSlotSimple, Write
  <2>2. /\ r \in Row /\ r.occupied /\ r.epoch = rows[s].epoch + 1 /\ r.own = q.own
        /\ TurnNamed(rows[s]) => TurnNamed(r)
    BY <1>2, <1>3, AssignedRow, ClosedRow
  <2>3. rows'[s] = r
    BY <2>1, <1>4
  <2>. HIDE DEF r
  <2>. QED
    BY <1>2, <2>1, <2>2, <2>3 DEF Grants, RowStep
<1>. QED
  BY <1>1, <1>5, <1>6, <1>7, <1>8

(* Whoever blanks an occupied row, with or without a receipt, frees it.    *)
LEMMA BlankFrees ==
    ASSUME Core, NEW s \in Slot, NEW f \in Effect \cup {NULL}, NEW e \in Nat,
           rows[s].occupied, RecordReceipt(f, s, e), Write(s, Freed(rows[s]))
    PROVE  Frees(s)
<1>1. rows \in [Slot -> Row] /\ rows[s] \in Row
  BY DEF Core, TypeOK
<1>2. rows' = [rows EXCEPT ![s] = Freed(rows[s])]
  BY DEF Write
<1>3. rows'[s] = Freed(rows[s])
  BY <1>1, <1>2
<1>4. \/ receipts' = receipts
      \/ \E g \in Effect, n \in Nat :
            /\ receipts[g] = NULL
            /\ receipts' = [receipts EXCEPT
                  ![g] = [slot |-> s, expected |-> n, released |-> rows[s].epoch + 1]]
  BY DEF RecordReceipt
<1>5. /\ Freed(rows[s]) \in Row
      /\ ~ Freed(rows[s]).occupied
      /\ ~ Freed(rows[s]).dnd
      /\ Freed(rows[s]).own = NULL
      /\ Freed(rows[s]).epoch = rows[s].epoch + 1
      /\ TurnNamed(Freed(rows[s]))
  BY <1>1, FreedRow
<1>. QED
  BY <1>2, <1>3, <1>4, <1>5 DEF Frees, RowStep

LEMMA ReleaseFrees ==
    ASSUME Core, NEW s \in Slot, Release(s)
    PROVE  Frees(s)
<1>1. PICK f \in Effect \cup {NULL}, e \in Epochs :
        \/ ReleaseSlotSimple(s, f, e)
        \/ \E expected \in Readable :
              \/ \E quiescent \in BOOLEAN :
                    CommitNativeRelease(s, f, e, expected, quiescent)
              \/ \E task \in Task :
                    f # NULL /\ CommitNativeNoPaneRelease(s, f, e, expected, task)
  BY DEF Release
<1>2. rows[s].occupied /\ RecordReceipt(f, s, e) /\ Write(s, Freed(rows[s]))
  BY <1>1 DEF ReleaseSlotSimple, CommitNativeRelease, CommitNativeNoPaneRelease, Presents
<1>3. e \in Nat
  BY MaxEpochIsNat DEF Epochs
<1>. QED
  BY <1>2, <1>3, BlankFrees

-----------------------------------------------------------------------------
(* Everything else keeps the owner.                                        *)
KeptRow(r, q) ==
    /\ q \in Row
    /\ q.occupied = r.occupied
    /\ q.epoch = r.epoch
    /\ q.own = r.own \/ (r.occupied /\ \E h \in HeadSha : q.own = [r.own EXCEPT !.head = h])
    /\ q.dnd => r.dnd \/ r.occupied
    /\ TurnNamed(r) => TurnNamed(q)

LEMMA WriteKept ==
    ASSUME Core, NEW s \in Slot, NEW q, Write(s, q), KeptRow(rows[s], q), UNCHANGED receipts
    PROVE  Keeps(s)
<1>1. rows \in [Slot -> Row]
  BY DEF Core, TypeOK
<1>2. rows' = [rows EXCEPT ![s] = q]
  BY DEF Write
<1>3. rows'[s] = q
  BY <1>1, <1>2
<1>. QED
  BY <1>2, <1>3 DEF KeptRow, Keeps, RowStep

LEMMA FinishKept ==
    ASSUME NEW r \in Row, NEW turn
    PROVE  /\ KeptRow(r, AfterFinish(r, turn))
           /\ AfterFinish(r, turn).own = r.own
<1>1. CASE r.turn \notin {NULL, turn}
  <2>1. AfterFinish(r, turn) = [r EXCEPT !.turnState = "indeterminate", !.idle = FALSE]
    BY <1>1 DEF AfterFinish
  <2>2. AfterFinish(r, turn) \in Row
    BY <2>1, Zenon DEF Row
  <2>. QED
    BY <1>1, <2>1, <2>2 DEF Row, KeptRow, TurnNamed
<1>2. CASE r.turn \in {NULL, turn}
  <2>. DEFINE c == TurnClosed(r)
  <2>1. /\ c \in Row /\ c.occupied = r.occupied /\ c.own = r.own
        /\ c.epoch = r.epoch /\ c.dnd = r.dnd /\ TurnNamed(c)
    BY ClosedRow
  <2>2. AfterFinish(r, turn) = [c EXCEPT !.idle = TRUE]
    BY <1>2 DEF AfterFinish
  <2>. HIDE DEF c
  <2>3. AfterFinish(r, turn) \in Row
    BY <2>1, <2>2, Zenon DEF Row
  <2>. QED
    BY <2>1, <2>2, <2>3 DEF Row, KeptRow, TurnNamed
<1>. QED
  BY <1>1, <1>2

LEMMA ObserveKeeps ==
    ASSUME Core, NEW s \in Slot, Observe(s)
    PROVE  Keeps(s)
<1>. USE NullIsNoName, NullIsNoValue
<1>1. rows[s] \in Row
  BY DEF Core, TypeOK
<1>2. ASSUME NEW e \in Epochs, NEW ref \in Branch, NEW head \in HeadSha,
             SyncSlotCheckout(s, e, ref, head)
      PROVE  Keeps(s)
  <2>. DEFINE q == [rows[s] EXCEPT !.own.head = head]
  <2>1. rows[s].occupied /\ Write(s, q) /\ UNCHANGED receipts
    BY <1>2 DEF SyncSlotCheckout
  <2>2. rows[s].own \in Tuple
    BY <1>1, <2>1 DEF Core, OwnedIffOccupied, Row
  <2>3. [rows[s].own EXCEPT !.head = head] \in Tuple
    BY <2>2, HeadMoves
  <2>4. q = [rows[s] EXCEPT !.own = [rows[s].own EXCEPT !.head = head]]
    OBVIOUS
  <2>5. q \in Row
    BY <1>1, <2>3, <2>4, Zenon DEF Row
  <2>6. KeptRow(rows[s], q)
    BY <1>1, <2>1, <2>4, <2>5 DEF KeptRow, Row, TurnNamed
  <2>. QED
    BY <2>1, <2>6, WriteKept
<1>3. ASSUME NEW turn \in Turn, StartAgentTurn(s, turn)
      PROVE  Keeps(s)
  <2>. DEFINE q == [rows[s] EXCEPT !.turn = turn, !.turnState = "active",
                                   !.idle = FALSE, !.fresh = TRUE]
  <2>1. q \in Row
    BY <1>1, Zenon DEF Row
  <2>2. KeptRow(rows[s], q)
    BY <1>1, <2>1 DEF KeptRow, Row, TurnNamed
  <2>. QED
    BY <1>3, <2>2, WriteKept DEF StartAgentTurn
<1>4. ASSUME NEW turn \in Turn, FinishAgentTurn(s, turn) \/ AbandonTurn(s, turn)
      PROVE  Keeps(s)
  BY <1>1, <1>4, FinishKept, WriteKept DEF FinishAgentTurn, AbandonTurn
<1>5. ASSUME TouchMeaningfulWork(s)
      PROVE  Keeps(s)
  <2>. DEFINE q == [rows[s] EXCEPT !.idle = FALSE, !.fresh = TRUE]
  <2>1. q \in Row
    BY <1>1, Zenon DEF Row
  <2>2. KeptRow(rows[s], q)
    BY <1>1, <2>1 DEF KeptRow, Row, TurnNamed
  <2>. QED
    BY <1>5, <2>2, WriteKept DEF TouchMeaningfulWork
<1>6. ASSUME WorkAges(s)
      PROVE  Keeps(s)
  <2>. DEFINE q == [rows[s] EXCEPT !.fresh = FALSE]
  <2>1. q \in Row
    BY <1>1, Zenon DEF Row
  <2>2. KeptRow(rows[s], q)
    BY <1>1, <2>1 DEF KeptRow, Row, TurnNamed
  <2>. QED
    BY <1>6, <2>2, WriteKept DEF WorkAges
<1>. QED
  BY <1>2, <1>3, <1>4, <1>5, <1>6 DEF Observe

LEMMA UpdateKeeps ==
    ASSUME Core, NEW s \in Slot, Update(s)
    PROVE  Keeps(s)
<1>1. rows[s] \in Row
  BY DEF Core, TypeOK
<1>2. ASSUME NEW dnd \in BOOLEAN, SetDnd(s, dnd)
      PROVE  Keeps(s)
  <2>. DEFINE q == [rows[s] EXCEPT !.dnd = dnd]
  <2>1. q \in Row
    BY <1>1, Zenon DEF Row
  <2>2. KeptRow(rows[s], q)
    BY <1>1, <1>2, <2>1 DEF SetDnd, KeptRow, Row, TurnNamed
  <2>. QED
    BY <1>2, <2>2, WriteKept DEF SetDnd
<1>3. ASSUME NEW idle \in BOOLEAN, SetIdle(s, idle)
      PROVE  Keeps(s)
  <2>. DEFINE q == [rows[s] EXCEPT !.idle = idle]
  <2>1. q \in Row
    BY <1>1, Zenon DEF Row
  <2>2. KeptRow(rows[s], q)
    BY <1>1, <2>1 DEF KeptRow, Row, TurnNamed
  <2>. QED
    BY <1>3, <2>2, WriteKept DEF SetIdle
<1>4. ASSUME NEW a \in Activity \cup {WaitingForPm, NULL}, SetActivity(s, a)
      PROVE  Keeps(s)
  <2>. DEFINE q == [rows[s] EXCEPT !.activity = a]
  <2>1. q \in Row
    BY <1>1, Zenon DEF Row
  <2>2. KeptRow(rows[s], q)
    BY <1>1, <2>1 DEF KeptRow, Row, TurnNamed
  <2>. QED
    BY <1>4, <2>2, WriteKept DEF SetActivity
<1>5. ASSUME NEW task \in Task, SetTask(s, task)
      PROVE  Keeps(s)
  <2>. DEFINE q == [rows[s] EXCEPT !.task = task]
  <2>1. q \in Row
    BY <1>1, Zenon DEF Row
  <2>2. KeptRow(rows[s], q)
    BY <1>1, <2>1 DEF KeptRow, Row, TurnNamed
  <2>. QED
    BY <1>5, <2>2, WriteKept DEF SetTask
<1>. QED
  BY <1>2, <1>3, <1>4, <1>5 DEF Update

(* Every step is of one of the three kinds, for one slot.                  *)
LEMMA StepKinds ==
    ASSUME Core, Next
    PROVE  \E s \in Slot : Kind(s)
  BY ClaimGrants, ReleaseFrees, ObserveKeeps, UpdateKeeps DEF Next, Kind

-----------------------------------------------------------------------------
(* The inductive core.                                                     *)
LEMMA CoreInit == Init => Core
<1>. SUFFICES ASSUME Init PROVE Core
  OBVIOUS
<1>1. SeedRow \in Row
  BY Zenon DEF SeedRow, Row
<1>2. rows = [s \in Slot |-> SeedRow] /\ receipts = [f \in Effect |-> NULL]
  BY DEF Init
<1>3. TypeOK
  BY <1>1, <1>2 DEF TypeOK
<1>4. OwnedIffOccupied
  BY <1>2 DEF OwnedIffOccupied, SeedRow
<1>. QED
  BY <1>3, <1>4 DEF Core

LEMMA CoreStep ==
    ASSUME Core, NEW s \in Slot, Kind(s)
    PROVE  Core'
<1>. USE NullIsNoValue DEF Core
<1>1. rows' \in [Slot -> Row]
  BY DEF Kind, Keeps, Grants, Frees, RowStep, TypeOK
<1>2. receipts' \in [Effect -> Receipt \cup {NULL}]
  <2>1. CASE receipts' = receipts
    BY <2>1 DEF TypeOK
  <2>2. CASE Frees(s) /\ receipts' # receipts
    <3>1. rows[s].epoch + 1 \in Nat
      BY DEF TypeOK, Row
    <3>. QED
      BY <2>2, <3>1 DEF Frees, TypeOK, Receipt
  <2>. QED
    BY <2>1, <2>2 DEF Kind, Keeps, Grants
<1>3. ASSUME NEW o \in Slot
      PROVE  rows'[o].occupied <=> rows'[o].own # NULL
  <2>1. CASE o # s
    <3>1. rows'[o] = rows[o]
      BY <2>1 DEF Kind, Keeps, Grants, Frees, RowStep, TypeOK
    <3>. QED
      BY <3>1 DEF OwnedIffOccupied
  <2>2. CASE o = s
    <3>1. CASE Keeps(s)
      <4>1. CASE rows'[s].own = rows[s].own
        BY <2>2, <3>1, <4>1 DEF Keeps, OwnedIffOccupied
      <4>2. CASE rows[s].occupied /\ \E h \in HeadSha : rows'[s].own = [rows[s].own EXCEPT !.head = h]
        <5>1. rows[s].own \in Tuple
          BY <4>2 DEF OwnedIffOccupied, TypeOK, Row
        <5>2. ASSUME NEW h \in HeadSha
              PROVE  [rows[s].own EXCEPT !.head = h] \in Tuple
          BY <5>1, HeadMoves
        <5>3. rows'[s].own # NULL
          BY <4>2, <5>2
        <5>. QED
          BY <2>2, <3>1, <4>2, <5>3 DEF Keeps
      <4>. QED
        BY <3>1, <4>1, <4>2 DEF Keeps
    <3>2. CASE Grants(s)
      BY <2>2, <3>2 DEF Grants
    <3>3. CASE Frees(s)
      BY <2>2, <3>3 DEF Frees
    <3>. QED
      BY <3>1, <3>2, <3>3 DEF Kind
  <2>. QED
    BY <2>1, <2>2
<1>. QED
  BY <1>1, <1>2, <1>3 DEF TypeOK, OwnedIffOccupied

LEMMA CoreHolds == Spec => []Core
<1>1. Core /\ [Next]_vars => Core'
  <2>1. CASE UNCHANGED vars
    BY <2>1 DEF vars, Core, TypeOK, OwnedIffOccupied
  <2>. QED
    BY <2>1, StepKinds, CoreStep
<1>. QED
  BY CoreInit, <1>1, PTL DEF Spec

(* The table is well typed, and a row has a tuple exactly when occupied,   *)
(* for any number of slots and any interleaving of the writes.             *)
THEOREM TypeCorrect == Spec => [](TypeOK /\ OwnedIffOccupied)
<1>1. Core => TypeOK /\ OwnedIffOccupied
  BY DEF Core
<1>. QED
  BY CoreHolds, <1>1, PTL

LEMMA CoreAlways == Spec => []Core /\ [][Core /\ Next]_vars
<1>. QED
  BY CoreHolds, PTL DEF Spec

-----------------------------------------------------------------------------
(* What each kind of write does to the invariants, by name, for every     *)
(* module whose steps are writes of these kinds.                           *)
LEMMA LanesKept ==
    ASSUME Core, LanesExclusive, NEW s \in Slot, Kind(s)
    PROVE  LanesExclusive'
<1>1. rows \in [Slot -> Row]
  BY DEF Core, TypeOK
<1>2. \A o \in Slot \ {s} : rows'[o] = rows[o]
  BY <1>1 DEF Kind, Keeps, Grants, Frees, RowStep
<1>3. ASSUME NEW o \in Slot \ {s}, rows'[s].occupied, rows'[o].occupied
      PROVE  ~ LaneClash(rows'[s].own, rows'[o].own)
  <2>1. rows'[o] = rows[o]
    BY <1>2
  <2>2. CASE Keeps(s)
    <3>1. rows[s].occupied /\ rows[s].own \in Tuple
      BY <1>1, <1>3, <2>2 DEF Keeps, Core, OwnedIffOccupied, Row
    <3>2. ~ LaneClash(rows[s].own, rows[o].own)
      BY <1>3, <2>1, <3>1 DEF LanesExclusive
    <3>3. \A h \in HeadSha : LaneClash([rows[s].own EXCEPT !.head = h], rows[o].own)
                             <=> LaneClash(rows[s].own, rows[o].own)
      BY <3>1 DEF LaneClash, Tuple
    <3>. QED
      BY <2>1, <2>2, <3>2, <3>3 DEF Keeps
  <2>3. CASE Grants(s)
    BY <1>3, <2>1, <2>3 DEF Grants, Owners
  <2>4. CASE Frees(s)
    BY <1>3, <2>4 DEF Frees
  <2>. QED
    BY <2>2, <2>3, <2>4 DEF Kind
<1>4. \A t, u : LaneClash(t, u) <=> LaneClash(u, t)
  BY DEF LaneClash
<1>5. ASSUME NEW a \in Slot, NEW o \in Slot, a # o, rows'[a].occupied, rows'[o].occupied
      PROVE  ~ LaneClash(rows'[a].own, rows'[o].own)
  <2>1. CASE a = s
    BY <1>3, <1>5, <2>1
  <2>2. CASE o = s
    BY <1>3, <1>4, <1>5, <2>2
  <2>3. CASE a # s /\ o # s
    BY <1>2, <1>5, <2>3 DEF LanesExclusive
  <2>. QED
    BY <2>1, <2>2, <2>3
<1>. QED
  BY <1>5 DEF LanesExclusive

(* No write makes two slots compete for a lane: the pre-checks of the four *)
(* claims suffice, whatever the callers present.                           *)
THEOREM OneSlotPerLane == Spec => []LanesExclusive
<1>1. Init => LanesExclusive
  BY DEF Init, LanesExclusive, SeedRow
<1>2. LanesExclusive /\ [Core /\ Next]_vars => LanesExclusive'
  <2>1. CASE UNCHANGED vars
    BY <2>1 DEF vars, LanesExclusive
  <2>. QED
    BY <2>1, StepKinds, LanesKept
<1>. QED
  BY <1>1, <1>2, CoreAlways, PTL DEF Spec

LEMMA TurnsKept ==
    ASSUME Core, TurnPointerConsistent, NEW s \in Slot, Kind(s)
    PROVE  TurnPointerConsistent'
BY DEF Core, TypeOK, Kind, Keeps, Grants, Frees, RowStep, TurnNamed,
            TurnPointerConsistent

(* "inactive" is never said of a turn whose id is still on the row.        *)
THEOREM TurnsNamed == Spec => []TurnPointerConsistent
<1>1. Init => TurnPointerConsistent
  <2>. SUFFICES ASSUME Init, NEW s \in Slot
                PROVE  (rows[s].turn = NULL) <=> (rows[s].turnState = "inactive")
    BY DEF TurnPointerConsistent
  <2>1. rows[s] = SeedRow
    BY DEF Init
  <2>. QED
    BY <2>1 DEF SeedRow
<1>2. TurnPointerConsistent /\ [Core /\ Next]_vars => TurnPointerConsistent'
  <2>1. CASE UNCHANGED vars
    BY <2>1 DEF vars, TurnPointerConsistent
  <2>. QED
    BY <2>1, StepKinds, TurnsKept
<1>. QED
  BY <1>1, <1>2, CoreAlways, PTL DEF Spec

LEMMA DndKept ==
    ASSUME Core, DndOnlyWhileOccupied, NEW s \in Slot, Kind(s)
    PROVE  DndOnlyWhileOccupied'
BY DEF Core, TypeOK, Kind, Keeps, Grants, Frees, RowStep, DndOnlyWhileOccupied

(* Do-not-disturb never outlives the assignment it was set for.            *)
THEOREM DndEndsWithOwner == Spec => []DndOnlyWhileOccupied
<1>1. Init => DndOnlyWhileOccupied
  BY DEF Init, DndOnlyWhileOccupied, SeedRow
<1>2. DndOnlyWhileOccupied /\ [Core /\ Next]_vars => DndOnlyWhileOccupied'
  <2>1. CASE UNCHANGED vars
    BY <2>1 DEF vars, DndOnlyWhileOccupied
  <2>. QED
    BY <2>1, StepKinds, DndKept
<1>. QED
  BY <1>1, <1>2, CoreAlways, PTL DEF Spec

LEMMA EpochsKept ==
    ASSUME Core, EpochReleasedOnce, NEW s \in Slot, Kind(s)
    PROVE  EpochReleasedOnce'
<1>1. rows \in [Slot -> Row] /\ receipts \in [Effect -> Receipt \cup {NULL}]
  BY DEF Core, TypeOK
<1>2. \A o \in Slot : /\ rows[o].epoch \in Nat
                      /\ rows'[o].epoch \in Nat
                      /\ rows[o].epoch <= rows'[o].epoch
  <2>1. \A o \in Slot : rows[o].epoch \in Nat
    BY <1>1 DEF Row
  <2>2. \A o \in Slot : \/ rows'[o].epoch = rows[o].epoch
                        \/ rows'[o].epoch = rows[o].epoch + 1
    BY <1>1 DEF Kind, Keeps, Grants, Frees, RowStep
  <2>. QED
    BY <2>1, <2>2
<1>3. CASE receipts' = receipts
  <2>. SUFFICES ASSUME NEW f \in Effect, NEW g \in Effect, receipts[f] # NULL
                PROVE  /\ receipts[f].released \in 1 .. rows'[receipts[f].slot].epoch
                       /\ receipts[g] # NULL /\ f # g /\ receipts[f].slot = receipts[g].slot
                             => receipts[f].released # receipts[g].released
    BY <1>3 DEF EpochReleasedOnce
  <2>1. /\ receipts[f].released \in 1 .. rows[receipts[f].slot].epoch
        /\ receipts[g] # NULL /\ f # g /\ receipts[f].slot = receipts[g].slot
              => receipts[f].released # receipts[g].released
    BY DEF EpochReleasedOnce
  <2>2. receipts[f].slot \in Slot
    BY <1>1 DEF Receipt
  <2>. QED
    BY <1>2, <2>1, <2>2
<1>4. CASE receipts' # receipts
  <2>1. PICK h \in Effect, e \in Nat :
          /\ receipts[h] = NULL
          /\ receipts' = [receipts EXCEPT
                ![h] = [slot |-> s, expected |-> e, released |-> rows[s].epoch + 1]]
    BY <1>4 DEF Kind, Keeps, Grants, Frees
  <2>2. rows'[s].epoch = rows[s].epoch + 1
    BY <1>4 DEF Kind, Keeps, Grants, Frees
  <2>3. receipts'[h] = [slot |-> s, expected |-> e, released |-> rows'[s].epoch]
    BY <1>1, <2>1, <2>2
  <2>4. \A f \in Effect \ {h} : receipts'[f] = receipts[f]
    BY <1>1, <2>1
  <2>5. ASSUME NEW f \in Effect \ {h}, receipts[f] # NULL
        PROVE  /\ receipts[f].slot \in Slot
               /\ receipts[f].released \in 1 .. rows'[receipts[f].slot].epoch
               /\ receipts[f].slot = s => receipts[f].released # rows'[s].epoch
    <3>1. receipts[f].slot \in Slot
      BY <1>1, <2>5 DEF Receipt
    <3>2. receipts[f].released \in 1 .. rows[receipts[f].slot].epoch
      BY <2>5 DEF EpochReleasedOnce
    <3>. QED
      BY <1>2, <2>2, <3>1, <3>2
  <2>. SUFFICES ASSUME NEW f \in Effect, NEW g \in Effect, receipts'[f] # NULL
                PROVE  /\ receipts'[f].released \in 1 .. rows'[receipts'[f].slot].epoch
                       /\ receipts'[g] # NULL /\ f # g /\ receipts'[f].slot = receipts'[g].slot
                             => receipts'[f].released # receipts'[g].released
    BY DEF EpochReleasedOnce
  <2>6. CASE f = h
    BY <1>2, <2>2, <2>3, <2>4, <2>5, <2>6
  <2>7. CASE f # h /\ g = h
    BY <2>3, <2>4, <2>5, <2>7
  <2>8. CASE f # h /\ g # h
    <3>1. receipts'[f] = receipts[f] /\ receipts'[g] = receipts[g]
      BY <2>4, <2>8
    <3>. QED
      BY <2>5, <2>8, <3>1 DEF EpochReleasedOnce
  <2>. QED
    BY <2>6, <2>7, <2>8
<1>. QED
  BY <1>3, <1>4

(* No effect releases an epoch another effect released, whatever epoch it  *)
(* was bound to: receipts carry distinct (slot, released epoch) pairs.     *)
THEOREM EpochsReleasedOnce == Spec => []EpochReleasedOnce
<1>1. Init => EpochReleasedOnce
  BY DEF Init, EpochReleasedOnce
<1>2. EpochReleasedOnce /\ [Core /\ Next]_vars => EpochReleasedOnce'
  <2>1. CASE UNCHANGED vars
    BY <2>1 DEF vars, EpochReleasedOnce
  <2>. QED
    BY <2>1, StepKinds, EpochsKept
<1>. QED
  BY <1>1, <1>2, CoreAlways, PTL DEF Spec

-----------------------------------------------------------------------------
(* The table implements the promise of SlotOwnership. Writes that keep the *)
(* owner are stuttering steps of it, a claim is a Grant and a release is a *)
(* Free.                                                                   *)
LEMMA KindImplements ==
    ASSUME Core, LanesExclusive, NEW s \in Slot, Kind(s)
    PROVE  [Ownership!Next]_(Ownership!vars)
<1>. DEFINE owner == [o \in Slot |-> OwnerOf(rows[o].own)]
            epoch == [o \in Slot |-> rows[o].epoch]
<1>1. rows \in [Slot -> Row] /\ rows' \in [Slot -> Row]
  BY CoreStep DEF Core, TypeOK
<1>2. \A o \in Slot \ {s} : rows'[o] = rows[o]
  BY <1>1 DEF Kind, Keeps, Grants, Frees, RowStep
<1>3. \A t \in Tuple : OwnerOf(t) \in Owner /\ OwnerOf(t) # NULL
  <2>1. \A t \in Tuple : OwnerOf(t) \in Owner
    BY NullIsNoValue DEF OwnerOf, Tuple, Owner
  <2>. QED
    BY <2>1, NullIsNoValue
<1>4. \A t, u \in Tuple : LaneClash(OwnerOf(t), OwnerOf(u)) <=> LaneClash(t, u)
  BY NullIsNoValue DEF OwnerOf, Tuple, LaneClash
<1>5. CASE Keeps(s)
  <2>1. OwnerOf(rows'[s].own) = OwnerOf(rows[s].own)
    <3>1. rows[s].occupied => rows[s].own \in Tuple
      BY <1>1 DEF Core, OwnedIffOccupied, Row
    <3>. QED
      BY <1>5, <3>1, HeadMoves DEF Keeps
  <2>2. owner' = owner /\ epoch' = epoch
    BY <1>2, <1>5, <2>1 DEF Keeps
  <2>. QED
    BY <2>2 DEF Ownership!vars
<1>6. CASE Grants(s)
  <2>1. owner'[s] = OwnerOf(rows'[s].own) /\ owner'[s] \in Owner
    BY <1>3, <1>6 DEF Grants
  <2>2. owner' = [owner EXCEPT ![s] = owner'[s]]
    BY <1>2
  <2>3. epoch' = [epoch EXCEPT ![s] = @ + 1]
    BY <1>2, <1>6 DEF Grants
  <2>4. ASSUME NEW o \in Slot \ {s}, owner[o] # NULL
        PROVE  ~ LaneClash(owner'[s], owner[o])
    <3>1. rows[o].own \in Tuple /\ rows[o].occupied
      BY <1>1, <2>4 DEF Core, OwnedIffOccupied, Row, OwnerOf
    <3>2. ~ LaneClash(rows'[s].own, rows[o].own)
      BY <1>6, <3>1 DEF Grants, Owners
    <3>. QED
      BY <1>4, <1>6, <2>1, <3>1, <3>2 DEF Grants
  <2>5. Ownership!Grant(s)
    BY <2>1, <2>2, <2>3, <2>4 DEF Ownership!Grant, Ownership!LaneClash, LaneClash, Ownership!Owner, Owner
  <2>. QED
    BY <2>5 DEF Ownership!Next
<1>7. CASE Frees(s)
  <2>1. owner[s] # NULL
    BY <1>1, <1>3, <1>7 DEF Frees, Core, OwnedIffOccupied, Row
  <2>2. owner' = [owner EXCEPT ![s] = NULL]
    BY <1>2, <1>7 DEF Frees, OwnerOf
  <2>3. epoch' = [epoch EXCEPT ![s] = @ + 1]
    BY <1>2, <1>7 DEF Frees
  <2>4. Ownership!Free(s)
    BY <2>1, <2>2, <2>3 DEF Ownership!Free
  <2>. QED
    BY <2>4 DEF Ownership!Next
<1>. QED
  BY <1>5, <1>6, <1>7 DEF Kind

THEOREM Refinement == Spec => ImplementsOwnership
<1>1. Init => Ownership!Init
  BY DEF Init, Ownership!Init, SeedRow, OwnerOf
<1>2. Core /\ LanesExclusive /\ [Core /\ Next]_vars => [Ownership!Next]_(Ownership!vars)
  <2>1. CASE UNCHANGED vars
    BY <2>1 DEF vars, Ownership!vars
  <2>. QED
    BY <2>1, StepKinds, KindImplements
<1>. QED
  BY <1>1, <1>2, CoreAlways, OneSlotPerLane, PTL DEF Spec, ImplementsOwnership, Ownership!Spec

=============================================================================
