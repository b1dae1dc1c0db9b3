------------------------- MODULE AssignEffect_proofs -------------------------
(***************************************************************************)
(* What holds of assignment effects for every number of slots, effects,    *)
(* handlers, sessions and crashes. Custody carries it: it is taken once,   *)
(* by one handler, before the packet leaves; while that handler lives the  *)
(* custody is unknown and nobody else may send; it goes back only from a   *)
(* handler that has pasted nothing.                                        *)
(***************************************************************************)
EXTENDS AssignEffect, SlotAuthority_proofs

Sends(c) == call[c] # NULL /\ call[c].pc \in {"paste", "pasted"}

(* What custody says of the packet, for each effect.                       *)
Custodied(f) ==
    /\ Len(pasted[f]) <= 1
    /\ intent[f] = NULL => Len(pasted[f]) = 0 /\ f \notin told
    /\ intent[f] # NULL =>
          /\ intent[f].state = "planned" => intent[f].custody = "unissued"
          /\ intent[f].state # "planned" => intent[f].committed # NULL
          /\ intent[f].state = "delivered" => intent[f].custody = "delivered"
          /\ intent[f].custody = "unissued" => Len(pasted[f]) = 0
          /\ intent[f].custody = "delivered" => Len(pasted[f]) = 1
          /\ f \in told => intent[f].state = "delivered"

(* A handler works on a minted intent, and one that sends has its custody. *)
Holds(c) ==
    call[c] # NULL =>
        /\ intent[call[c].effect] # NULL
        /\ Sends(c) => /\ intent[call[c].effect].state = "pending_delivery"
                       /\ intent[call[c].effect].custody = "unknown"
                       /\ Len(pasted[call[c].effect]) = IF call[c].pc = "paste" THEN 0 ELSE 1

OneSender ==
    \A c, d \in Call : Sends(c) /\ Sends(d) /\ call[c].effect = call[d].effect => c = d

ProjectsDelivered ==
    \A b \in background : intent[b.effect] # NULL /\ intent[b.effect].state = "delivered"

(* A pin taken after the commit is for the epoch of the effect's own lane. *)
Fenced(c) ==
    call[c] # NULL /\ call[c].pc \in {"deliver", "paste"} /\ call[c].pin # NULL =>
        /\ call[c].pin.epoch <= rows[SlotOf(c)].epoch
        /\ call[c].pin.epoch = rows[SlotOf(c)].epoch => Owns(call[c].effect)

Typed == AssignTypeOK /\ OwnedIffOccupied

Custody ==
    /\ \A f \in Effect : Custodied(f)
    /\ \A c \in Call : Holds(c)
    /\ OneSender
    /\ ProjectsDelivered

Pins ==
    /\ \A c \in Call : Fenced(c)
    /\ PinnedPasteToOwner

-----------------------------------------------------------------------------
(* What the steps are built from.                                          *)
LEMMA SimpleGrants ==
    ASSUME Core, NEW f \in Effect,
           AssignSlotSimple(Wanted[f].slot, Wanted[f].own, Wanted[f].task)
    PROVE  Grants(Wanted[f].slot) /\ rows'[Wanted[f].slot].own = Wanted[f].own
<1>. DEFINE s == Wanted[f].slot
            t == Wanted[f].own
            r == TurnClosed(Assigned(rows[s], t, Wanted[f].task))
<1>1. s \in Slot /\ t \in Tuple /\ Wanted[f].task \in Task
  BY WantedIsLanes
<1>2. rows \in [Slot -> Row] /\ rows[s] \in Row
  BY <1>1 DEF Core, TypeOK
<1>3. rows' = [rows EXCEPT ![s] = r] /\ receipts' = receipts /\ Owners(s, t) = {}
  BY DEF AssignSlotSimple, Write
<1>4. /\ r \in Row /\ r.occupied /\ r.epoch = rows[s].epoch + 1 /\ r.own = t
      /\ TurnNamed(rows[s]) => TurnNamed(r)
  <2>. DEFINE a == Assigned(rows[s], t, Wanted[f].task)
  <2>. HIDE DEF s, t
  <2>1. a \in Row /\ a.occupied /\ a.epoch = rows[s].epoch + 1 /\ a.own = t
    BY <1>1, <1>2, AssignedRow
  <2>. HIDE DEF a
  <2>2. r = TurnClosed(a)
    BY DEF a
  <2>. QED
    BY <2>1, <2>2, ClosedRow
<1>5. rows'[s] = r
  BY <1>1, <1>2, <1>3
<1>. HIDE DEF r, s, t
<1>6. Grants(s) /\ rows'[s].own = t
  BY <1>1, <1>3, <1>4, <1>5 DEF Grants, RowStep
<1>. QED
  BY <1>6 DEF s, t

(* A write of the table keeps its types; where the epoch stays, so does    *)
(* the lane, and epochs never go back.                                     *)
LEMMA KindKeepsLane ==
    ASSUME Core, NEW s \in Slot, Kind(s)
    PROVE  /\ Core'
           /\ \A o \in Slot : rows'[o].epoch \in Nat /\ rows[o].epoch <= rows'[o].epoch
           /\ \A f \in Effect : Owns(f) /\ rows'[Wanted[f].slot].epoch = rows[Wanted[f].slot].epoch
                                    => Owns(f)'
<1>1. Core'
  BY CoreStep
<1>2. rows \in [Slot -> Row] /\ rows' \in [Slot -> Row]
  BY <1>1 DEF Core, TypeOK
<1>3. \A o \in Slot : rows[o].epoch \in Nat /\ rows'[o].epoch \in Nat
  BY <1>2 DEF Row
<1>4. \A o \in Slot \ {s} : rows'[o] = rows[o]
  BY <1>2 DEF Kind, Keeps, Grants, Frees, RowStep
<1>5. rows'[s].epoch = rows[s].epoch => Keeps(s)
  BY <1>3 DEF Kind, Grants, Frees
<1>6. rows'[s].epoch \in {rows[s].epoch, rows[s].epoch + 1}
  BY DEF Kind, Keeps, Grants, Frees
<1>7. ASSUME NEW f \in Effect, Owns(f),
             rows'[Wanted[f].slot].epoch = rows[Wanted[f].slot].epoch
      PROVE  Owns(f)'
  <2>1. Wanted[f].slot \in Slot
    BY WantedIsLanes
  <2>2. CASE Wanted[f].slot # s
    <3>1. rows'[Wanted[f].slot] = rows[Wanted[f].slot]
      BY <1>4, <2>1, <2>2
    <3>. QED
      BY <1>7, <3>1 DEF Owns
  <2>3. CASE Wanted[f].slot = s
    <3>1. Keeps(s)
      BY <1>5, <1>7, <2>3
    <3>2. CASE rows'[s].own = rows[s].own
      BY <1>7, <2>3, <3>1, <3>2 DEF Keeps, Owns
    <3>3. ASSUME NEW h \in HeadSha, rows'[s].own = [rows[s].own EXCEPT !.head = h], rows[s].occupied
          PROVE  Owns(f)'
      <4>1. rows[s].own \in Tuple
        BY <1>2, <3>3 DEF Core, OwnedIffOccupied, Row
      <4>2. [rows[s].own EXCEPT !.claim = 0] \in Tuple
        BY <4>1, Zenon DEF Tuple
      <4>3. [rows'[s].own EXCEPT !.claim = 0] = [[rows[s].own EXCEPT !.claim = 0] EXCEPT !.head = h]
        BY <3>3, <4>1 DEF Tuple
      <4>4. OwnerOf([rows'[s].own EXCEPT !.claim = 0]) = OwnerOf([rows[s].own EXCEPT !.claim = 0])
        BY <4>2, <4>3, HeadMoves
      <4>. QED
        BY <1>7, <2>3, <3>1, <4>4 DEF Keeps, Owns, SameLane
    <3>. QED
      BY <3>1, <3>2, <3>3 DEF Keeps
  <2>. QED
    BY <2>2, <2>3
<1>. QED
  BY <1>1, <1>3, <1>4, <1>6, <1>7

(* Steps of the table that keep the owner.                                 *)
LEMMA InterruptKeeps ==
    ASSUME Core, NEW s \in Slot, UNCHANGED receipts,
           Write(s, [TurnClosed(rows[s]) EXCEPT !.idle = TRUE])
    PROVE  Keeps(s)
<1>. DEFINE c == TurnClosed(rows[s])
            q == [c EXCEPT !.idle = TRUE]
<1>1. rows[s] \in Row
  BY DEF Core, TypeOK
<1>2. /\ c \in Row /\ c.occupied = rows[s].occupied /\ c.own = rows[s].own
      /\ c.epoch = rows[s].epoch /\ c.dnd = rows[s].dnd /\ TurnNamed(c)
  BY <1>1, ClosedRow
<1>3. Write(s, q)
  OBVIOUS
<1>. HIDE DEF c
<1>4. q \in Row
  BY <1>2, Zenon DEF Row
<1>5. KeptRow(rows[s], q)
  BY <1>2, <1>4 DEF Row, KeptRow, TurnNamed
<1>. HIDE DEF q
<1>. QED
  BY <1>3, <1>5, WriteKept

LEMMA OthersWrite ==
    ASSUME Core, NEW s \in Slot, Others(s)
    PROVE  Kind(s) \/ UNCHANGED vars
<1>1. CASE ReleaseSlotSimple(s, NULL, 0)
  <2>1. 0 \in Nat /\ NULL \in Effect \cup {NULL}
    OBVIOUS
  <2>2. rows[s].occupied /\ RecordReceipt(NULL, s, 0) /\ Write(s, Freed(rows[s]))
    BY <1>1 DEF ReleaseSlotSimple
  <2>. QED
    BY <2>1, <2>2, BlankFrees DEF Kind
<1>2. CASE Observe(s)
  BY <1>2, ObserveKeeps DEF Kind
<1>. QED
  BY <1>1, <1>2 DEF Others, Observe

(* Committing an effect writes its row, or leaves the table alone because  *)
(* the row is the effect's; either way the row is its own afterwards.      *)
LEMMA CommitOwns ==
    ASSUME Core, NEW f \in Effect, TakeSlot(f)
    PROVE  /\ Kind(Wanted[f].slot) \/ UNCHANGED vars
           /\ Owns(f)'
<1>1. Wanted[f].slot \in Slot /\ Wanted[f].own \in Tuple
  BY WantedIsLanes
<1>2. CASE AlreadyCommitted(f)
  <2>1. UNCHANGED vars
    BY <1>2 DEF TakeSlot
  <2>2. Owns(f)
    BY <1>2 DEF AlreadyCommitted, Owns, SameLane
  <2>. QED
    BY <2>1, <2>2 DEF vars, Owns
<1>3. CASE ~AlreadyCommitted(f)
  <2>1. Grants(Wanted[f].slot) /\ rows'[Wanted[f].slot].own = Wanted[f].own
    BY <1>3, SimpleGrants DEF TakeSlot
  <2>. QED
    BY <2>1 DEF Kind, Grants, Owns, SameLane
<1>. QED
  BY <1>2, <1>3

(* A pin that is not drifted is for the row's epoch.                       *)
LEMMA PinTyped ==
    ASSUME Typed, NEW s \in Slot
    PROVE  PinOf(s) \in Pin /\ PinOf(s).epoch = rows[s].epoch
<1>1. rows[s] \in Row /\ session[s] \in Nat
  BY MaxSessionIsNat DEF Typed, AssignTypeOK, TypeOK
<1>. QED
  BY <1>1 DEF PinOf, Pin, Row

-----------------------------------------------------------------------------
(* The types.                                                              *)
Pasted == [owned : BOOLEAN, pinned : BOOLEAN]

Backgrounds == [effect : Effect, release : BOOLEAN]

LEMMA AssignTypedInit == AssignInit => Typed
<1>. SUFFICES ASSUME AssignInit PROVE Typed
  OBVIOUS
<1>1. Core
  BY CoreInit DEF AssignInit
<1>2. /\ intent \in [Effect -> Intent \cup {NULL}] /\ call \in [Call -> Handler \cup {NULL}]
      /\ background = {} /\ told = {}
  BY DEF AssignInit
<1>3. session \in [Slot -> 0 .. MaxSession]
  BY MaxSessionIsNat DEF AssignInit
<1>4. pasted \in [Effect -> Seq(Pasted)]
  BY DEF AssignInit
<1>. QED
  BY <1>1, <1>2, <1>3, <1>4 DEF Typed, Core, AssignTypeOK, Pasted

(* An intent's field, rewritten.                                           *)
LEMMA IntentFields ==
    ASSUME NEW i \in Intent
    PROVE  /\ \A o, p \in Outcome :
                 /\ [i EXCEPT !.state = "delivered", !.custody = "delivered",
                              !.assign = o, !.release = p] \in Intent
                 /\ [i EXCEPT !.state = "delivered", !.assign = o, !.release = p] \in Intent
                 /\ [i EXCEPT !.assign = o, !.release = p] \in Intent
           /\ \A k \in {"unissued", "unknown", "delivered"} : [i EXCEPT !.custody = k] \in Intent
           /\ \A d \in Issue \cup {NULL} : [i EXCEPT !.displaced = d] \in Intent
           /\ \A e \in Nat : [i EXCEPT !.state = "pending_delivery", !.committed = e] \in Intent
  BY Zenon DEF Intent

LEMMA HandlerFields ==
    ASSUME NEW h \in Handler
    PROVE  /\ \A pc \in {"pane", "interrupt", "clear", "cleared", "observe",
                         "deliver", "paste", "pasted"} :
                 /\ [h EXCEPT !.pc = pc] \in Handler
                 /\ \A p \in Pin : [h EXCEPT !.pc = pc, !.pin = p] \in Handler
  BY Zenon DEF Handler

(* A step that touches the intent of one effect.                           *)
Rewrites(f) == intent'[f] \in Intent /\ intent' = [intent EXCEPT ![f] = intent'[f]]

LEMMA FinishWrites ==
    ASSUME Typed, NEW f \in Effect, intent[f] # NULL, Finish(f)
    PROVE  /\ Rewrites(f)
           /\ intent'[f].custody = "delivered" /\ intent'[f].committed = intent[f].committed
           /\ \/ /\ intent'[f].state = "delivered"
                 /\ told' = told \cup {f}
                 /\ \E r \in BOOLEAN : background' = background \cup {[effect |-> f, release |-> r]}
              \/ /\ intent'[f].state = intent[f].state
                 /\ UNCHANGED <<told, background>>
<1>1. intent \in [Effect -> Intent \cup {NULL}] /\ intent[f] \in Intent
  BY DEF Typed, AssignTypeOK
<1>. DEFINE p == IF intent[f].displaced = NULL THEN "none" ELSE "pending"
            n == [intent[f] EXCEPT !.state = "delivered", !.custody = "delivered",
                                   !.assign = "pending", !.release = p]
            m == [intent[f] EXCEPT !.custody = "delivered"]
<1>2. p \in Outcome /\ "pending" \in Outcome
  BY DEF Outcome
<1>. HIDE DEF p
<1>3. n \in Intent /\ m \in Intent
  BY <1>1, <1>2, IntentFields
<1>4. /\ n.state = "delivered" /\ n.custody = "delivered" /\ n.committed = intent[f].committed
      /\ m.custody = "delivered" /\ m.committed = intent[f].committed /\ m.state = intent[f].state
  BY <1>1 DEF Intent
<1>5. \/ /\ intent' = [intent EXCEPT ![f] = n]
         /\ told' = told \cup {f}
         /\ background' = background \cup
               {[effect |-> f, release |-> intent[f].displaced # NULL]}
      \/ intent' = [intent EXCEPT ![f] = m] /\ UNCHANGED <<told, background>>
  BY DEF Finish, p
<1>. HIDE DEF n, m
<1>6. (intent[f].displaced # NULL) \in BOOLEAN
  OBVIOUS
<1>. QED
  BY <1>1, <1>3, <1>4, <1>5, <1>6 DEF Rewrites

(* A step that touches the local state of one handler.                     *)
Moves(c) ==
    /\ call'[c] \in Handler \cup {NULL}
    /\ call' = [call EXCEPT ![c] = call'[c]]

LEMMA GotoMoves ==
    ASSUME Typed, NEW c \in Call, call[c] # NULL
    PROVE  /\ call[c] \in Handler /\ call[c].effect \in Effect /\ SlotOf(c) \in Slot
           /\ Wanted[call[c].effect].slot = SlotOf(c)
           /\ \A pc \in {"pane", "interrupt", "clear", "cleared", "observe",
                         "deliver", "paste", "pasted"} :
                 Goto(c, pc) => /\ Moves(c) /\ call'[c] # NULL
                                /\ call'[c].pc = pc /\ call'[c].effect = call[c].effect
                                /\ call'[c].pin = call[c].pin
           /\ Done(c) => Moves(c) /\ call'[c] = NULL
<1>1. call \in [Call -> Handler \cup {NULL}] /\ call[c] \in Handler
  BY DEF Typed, AssignTypeOK
<1>2. call[c].effect \in Effect
  BY <1>1 DEF Handler
<1>3. SlotOf(c) \in Slot /\ Wanted[call[c].effect].slot = SlotOf(c)
  BY <1>2, WantedIsLanes DEF SlotOf
<1>4. ASSUME NEW pc \in {"pane", "interrupt", "clear", "cleared", "observe",
                         "deliver", "paste", "pasted"}, Goto(c, pc)
      PROVE  /\ Moves(c) /\ call'[c] # NULL
             /\ call'[c].pc = pc /\ call'[c].effect = call[c].effect
             /\ call'[c].pin = call[c].pin
  <2>. DEFINE h == [call[c] EXCEPT !.pc = pc]
  <2>1. h \in Handler
    BY <1>1, HandlerFields
  <2>2. h.pc = pc /\ h.effect = call[c].effect /\ h.pin = call[c].pin
    BY <1>1 DEF Handler
  <2>3. call' = [call EXCEPT ![c] = h]
    BY <1>4 DEF Goto
  <2>. HIDE DEF h
  <2>. QED
    BY <1>1, <2>1, <2>2, <2>3, NullIsNoHandler DEF Moves
<1>5. ASSUME Done(c)
      PROVE  Moves(c) /\ call'[c] = NULL
  BY <1>1, <1>5 DEF Done, Moves
<1>. QED
  BY <1>1, <1>2, <1>3, <1>4, <1>5

(* What a claim of the packet does.                                        *)
LEMMA ClaimWrites ==
    ASSUME Typed, NEW f \in Effect, intent[f] # NULL, ClaimDelivery(f)
    PROVE  /\ Rewrites(f)
           /\ intent[f].state = "pending_delivery" /\ intent[f].custody = "unissued"
           /\ intent'[f].custody = "unknown" /\ intent'[f].state = "pending_delivery"
           /\ intent'[f].committed = intent[f].committed
<1>1. intent \in [Effect -> Intent \cup {NULL}] /\ intent[f] \in Intent
  BY DEF Typed, AssignTypeOK
<1>. DEFINE n == [intent[f] EXCEPT !.custody = "unknown"]
<1>2. n \in Intent
  BY <1>1, IntentFields
<1>3. n.custody = "unknown" /\ n.state = intent[f].state /\ n.committed = intent[f].committed
  BY <1>1 DEF Intent
<1>4. intent' = [intent EXCEPT ![f] = n]
  BY DEF ClaimDelivery
<1>. HIDE DEF n
<1>. QED
  BY <1>1, <1>2, <1>3, <1>4 DEF ClaimDelivery, Rewrites

(* What the actions leave well typed.                                      *)
LEMMA TypedFrame ==
    ASSUME Typed, Core',
           intent' = intent \/ \E f \in Effect : Rewrites(f),
           call' = call \/ (\E c \in Call : Moves(c)) \/ call' = [c \in Call |-> NULL],
           background' \subseteq Backgrounds, told' \subseteq Effect,
           session' \in [Slot -> 0 .. MaxSession], pasted' \in [Effect -> Seq(Pasted)]
    PROVE  Typed'
<1>1. intent' \in [Effect -> Intent \cup {NULL}]
  BY DEF Typed, AssignTypeOK, Rewrites
<1>2. call' \in [Call -> Handler \cup {NULL}]
  BY DEF Typed, AssignTypeOK, Moves
<1>. QED
  BY <1>1, <1>2 DEF Typed, Core, AssignTypeOK, Pasted, Backgrounds

LEMMA TypedParts ==
    ASSUME Typed
    PROVE  /\ Core /\ background \subseteq Backgrounds /\ told \subseteq Effect
           /\ session \in [Slot -> 0 .. MaxSession] /\ pasted \in [Effect -> Seq(Pasted)]
           /\ intent \in [Effect -> Intent \cup {NULL}] /\ call \in [Call -> Handler \cup {NULL}]
           /\ UNCHANGED vars => Core'
  BY DEF Typed, AssignTypeOK, Core, TypeOK, OwnedIffOccupied, Backgrounds, Pasted, vars

LEMMA BeginWrites ==
    ASSUME Typed, NEW c \in Call, NEW f \in Effect, NEW e \in Epochs, Begin(c, f, e)
    PROVE  /\ \/ intent' = intent /\ intent[f] # NULL
              \/ /\ intent[f] = NULL /\ Rewrites(f) /\ intent'[f] # NULL
                 /\ intent'[f].state = "planned" /\ intent'[f].custody = "unissued"
           /\ \/ call' = call
              \/ /\ Moves(c) /\ call'[c] # NULL
                 /\ call'[c].pc = "pane" /\ call'[c].effect = f /\ call'[c].pin = NULL
<1>1. /\ intent \in [Effect -> Intent \cup {NULL}] /\ call \in [Call -> Handler \cup {NULL}]
      /\ Core
  BY TypedParts
<1>2. ASSUME intent[f] # NULL
      PROVE  intent' = intent
  <2>1. intent' = [intent EXCEPT ![f] = intent[f]]
    BY <1>2 DEF Begin
  <2>2. [intent EXCEPT ![f] = intent[f]] = intent
    BY <1>1
  <2>. QED
    BY <2>1, <2>2
<1>3. ASSUME intent[f] = NULL
      PROVE  /\ Rewrites(f) /\ intent'[f] # NULL
             /\ intent'[f].state = "planned" /\ intent'[f].custody = "unissued"
  <2>1. rows[Wanted[f].slot].epoch \in Nat /\ e \in Nat
    BY <1>1, WantedIsLanes, MaxEpochIsNat DEF Core, TypeOK, Row, Epochs
  <2>2. Minted(f, e) \in Intent
    BY <2>1 DEF Minted, Intent, Outcome
  <2>3. intent' = [intent EXCEPT ![f] = Minted(f, e)]
    BY <1>3 DEF Begin
  <2>4. Minted(f, e).state = "planned" /\ Minted(f, e).custody = "unissued"
    BY DEF Minted
  <2>5. Minted(f, e) # NULL
    BY <2>2, NullIsNoHandler
  <2>6. intent'[f] = Minted(f, e)
    BY <1>1, <2>3
  <2>. QED
    BY <1>3, <2>2, <2>3, <2>4, <2>5, <2>6 DEF Rewrites
<1>4. ASSUME call' # call
      PROVE  /\ Moves(c) /\ call'[c] # NULL
             /\ call'[c].pc = "pane" /\ call'[c].effect = f /\ call'[c].pin = NULL
  <2>. DEFINE h == [pc |-> "pane", effect |-> f, pin |-> NULL]
  <2>1. call' = [call EXCEPT ![c] = h]
    BY <1>4 DEF Begin
  <2>2. h \in Handler
    BY DEF Handler
  <2>. QED
    BY <1>1, <2>1, <2>2, NullIsNoHandler DEF Moves
<1>. QED
  BY <1>2, <1>3, <1>4

LEMMA ResumeWrites ==
    ASSUME Typed, NEW c \in Call, NEW f \in Effect, NEW e, Resume(c, f, e)
    PROVE  /\ intent[f] # NULL
           /\ \/ /\ ClaimDelivery(f) /\ UNCHANGED <<told, background>>
                 /\ Moves(c) /\ call'[c] # NULL
                 /\ call'[c].pc = "paste" /\ call'[c].effect = f /\ call'[c].pin = NULL
              \/ intent[f].custody = "delivered" /\ Finish(f) /\ call' = call
<1>. DEFINE h == [pc |-> "paste", effect |-> f, pin |-> NULL]
<1>1. h \in Handler
  BY DEF Handler
<1>2. call \in [Call -> Handler \cup {NULL}]
  BY TypedParts
<1>3. CASE call' = [call EXCEPT ![c] = h]
  BY <1>1, <1>2, <1>3, NullIsNoHandler DEF Resume, Moves
<1>. QED
  BY <1>3 DEF Resume

LEMMA ReplayWrites ==
    ASSUME Typed, NEW f \in Effect, NEW e, Replay(f, e)
    PROVE  /\ intent[f] # NULL /\ intent[f].state = "delivered"
           /\ Rewrites(f)
           /\ intent'[f].state = "delivered" /\ intent'[f].custody = intent[f].custody
           /\ intent'[f].committed = intent[f].committed
           /\ told' = told \cup {f}
           /\ \E r \in BOOLEAN : background' = background \cup {[effect |-> f, release |-> r]}
<1>1. intent \in [Effect -> Intent \cup {NULL}] /\ intent[f] \in Intent
  BY TypedParts DEF Replay
<1>. DEFINE o == IF intent[f].assign = "failed" THEN "pending" ELSE intent[f].assign
            p == IF intent[f].release = "failed" THEN "pending" ELSE intent[f].release
            n == [intent[f] EXCEPT !.assign = o, !.release = p]
<1>2. o \in Outcome /\ p \in Outcome
  BY <1>1 DEF Intent, Outcome
<1>3. intent' = [intent EXCEPT ![f] = n]
  BY <1>1 DEF Replay
<1>. HIDE DEF o, p
<1>4. n \in Intent
  BY <1>1, <1>2, IntentFields
<1>5. n.state = intent[f].state /\ n.custody = intent[f].custody /\ n.committed = intent[f].committed
  BY <1>1 DEF Intent
<1>. HIDE DEF n
<1>6. (intent[f].release = "failed") \in BOOLEAN
  OBVIOUS
<1>. QED
  BY <1>1, <1>3, <1>4, <1>5, <1>6 DEF Replay, Rewrites

LEMMA RequestTyped ==
    ASSUME Typed, NEW f \in Effect, Request(f)
    PROVE  Typed'
<1>1. ASSUME NEW c \in Call, NEW e \in Epochs, Begin(c, f, e)
      PROVE  Typed'
  <2>1. UNCHANGED vars /\ UNCHANGED <<background, told, session, pasted>>
    BY <1>1 DEF Begin
  <2>2. intent' = intent \/ Rewrites(f)
    BY <1>1, BeginWrites
  <2>3. call' = call \/ Moves(c)
    BY <1>1, BeginWrites
  <2>. QED
    BY <2>1, <2>2, <2>3, TypedParts, TypedFrame
<1>2. ASSUME NEW c \in Call, NEW e \in Epochs, Resume(c, f, e)
      PROVE  Typed'
  <2>1. /\ UNCHANGED vars /\ UNCHANGED <<session, pasted>>
        /\ intent[f] # NULL
    BY <1>2 DEF Resume
  <2>2. CASE call' = call /\ Finish(f)
    <3>1. Rewrites(f) /\ told' \subseteq Effect /\ background' \subseteq Backgrounds
      BY <2>1, <2>2, FinishWrites, TypedParts DEF Backgrounds
    <3>. QED
      BY <2>1, <2>2, <3>1, TypedParts, TypedFrame
  <2>3. CASE ClaimDelivery(f) /\ UNCHANGED <<told, background>> /\ Moves(c)
    BY <2>1, <2>3, ClaimWrites, TypedParts, TypedFrame
  <2>. QED
    BY <1>2, <2>2, <2>3, ResumeWrites
<1>3. ASSUME NEW e \in Epochs, Replay(f, e)
      PROVE  Typed'
  <2>1. UNCHANGED vars /\ UNCHANGED <<call, session, pasted>>
    BY <1>3 DEF Replay
  <2>. QED
    BY <1>3, <2>1, ReplayWrites, TypedParts, TypedFrame DEF Backgrounds
<1>. QED
  BY <1>1, <1>2, <1>3 DEF Request

(* A handler that moves on with a new pin.                                 *)
LEMMA RepinMoves ==
    ASSUME Typed, NEW c \in Call, call[c] # NULL, NEW p \in Pin,
           NEW pc \in {"interrupt", "clear", "cleared", "observe", "deliver"},
           call' = [call EXCEPT ![c] = [call[c] EXCEPT !.pc = pc, !.pin = p]]
    PROVE  /\ Moves(c) /\ call'[c] # NULL
           /\ call'[c].pc = pc /\ call'[c].effect = call[c].effect /\ call'[c].pin = p
<1>1. call \in [Call -> Handler \cup {NULL}] /\ call[c] \in Handler
  BY TypedParts
<1>. DEFINE h == [call[c] EXCEPT !.pc = pc, !.pin = p]
<1>2. h \in Handler
  BY <1>1, HandlerFields
<1>3. h.pc = pc /\ h.effect = call[c].effect /\ h.pin = p
  BY <1>1 DEF Handler
<1>4. call' = [call EXCEPT ![c] = h]
  OBVIOUS
<1>. HIDE DEF h
<1>. QED
  BY <1>1, <1>2, <1>3, <1>4, NullIsNoHandler DEF Moves

(* The steps before the commit: the handler stays short of the delivery.   *)
LEMMA EarlyMoves ==
    ASSUME Typed, NEW c \in Call,
           \/ TakePin(c) \/ Interrupt(c) \/ Clear(c) \/ ClearFails(c) \/ Cleared(c)
    PROVE  /\ Moves(c) /\ call[c] # NULL /\ call'[c] # NULL
           /\ call'[c].pc \in {"interrupt", "clear", "cleared", "observe"}
           /\ call'[c].effect = call[c].effect
           /\ UNCHANGED <<intent, background, told, pasted>>
           /\ UNCHANGED vars \/ Kind(SlotOf(c))
<1>1. /\ call[c] # NULL /\ UNCHANGED <<intent, background, told, pasted>>
  BY DEF TakePin, Interrupt, Clear, ClearFails, Cleared, At
<1>2. /\ SlotOf(c) \in Slot /\ PinOf(SlotOf(c)) \in Pin /\ Core
      /\ call[c] \in Handler
  BY <1>1, GotoMoves, PinTyped, TypedParts
<1>3. CASE TakePin(c)
  <2>1. call' = [call EXCEPT ![c] = [call[c] EXCEPT !.pc = "interrupt", !.pin = PinOf(SlotOf(c))]]
    BY <1>3 DEF TakePin
  <2>. QED
    BY <1>1, <1>2, <1>3, <2>1, RepinMoves DEF TakePin
<1>4. CASE Interrupt(c)
  <2>. DEFINE s == SlotOf(c)
              idle == [call[c].pin EXCEPT !.turn = NULL, !.turnState = "inactive"]
              pc == IF Wanted[call[c].effect].newIssue THEN "clear" ELSE "observe"
  <2>1. idle \in Pin
    <3>1. PinOf(s) \in {call[c].pin, idle}
      BY <1>4 DEF Interrupt
    <3>2. call[c].pin \in Pin => idle \in Pin
      BY Zenon DEF Pin
    <3>. QED
      BY <1>2, <3>1, <3>2
  <2>2. call' = [call EXCEPT ![c] = [call[c] EXCEPT !.pc = pc, !.pin = idle]]
    BY <1>1, <1>4, TypedParts DEF Interrupt
  <2>3. pc \in {"clear", "observe"}
    OBVIOUS
  <2>4. UNCHANGED vars \/ Kind(s)
    <3>1. receipts' = receipts
      BY <1>4 DEF Interrupt
    <3>2. rows' = rows \/ Write(s, [TurnClosed(rows[s]) EXCEPT !.idle = TRUE])
      BY <1>4 DEF Interrupt, Write
    <3>. QED
      BY <1>2, <3>1, <3>2, InterruptKeeps DEF vars, Kind
  <2>. HIDE DEF s, idle, pc
  <2>. QED
    BY <1>1, <2>1, <2>2, <2>3, <2>4, RepinMoves DEF s
<1>5. CASE Clear(c) \/ ClearFails(c)
  BY <1>1, <1>5, GotoMoves DEF Clear, ClearFails
<1>6. CASE Cleared(c)
  <2>1. call' = [call EXCEPT ![c] = [call[c] EXCEPT !.pc = "observe", !.pin = PinOf(SlotOf(c))]]
    BY <1>6 DEF Cleared
  <2>. QED
    BY <1>1, <1>2, <1>6, <2>1, RepinMoves DEF Cleared
<1>. QED
  BY <1>3, <1>4, <1>5, <1>6

(* What is noted on a planned intent before its slot is taken.             *)
LEMMA DisplacedTyped ==
    ASSUME Typed, NEW f \in Effect, intent[f] # NULL
    PROVE  /\ Displaced(f) \in Intent
           /\ Displaced(f).state = intent[f].state /\ Displaced(f).custody = intent[f].custody
           /\ Displaced(f).committed = intent[f].committed
<1>1. intent[f] \in Intent /\ Wanted[f].slot \in Slot /\ Core
  BY TypedParts, WantedIsLanes
<1>2. rows[Wanted[f].slot].occupied => rows[Wanted[f].slot].own.issue \in Issue \cup {NULL}
  BY <1>1 DEF Core, TypeOK, OwnedIffOccupied, Row, Tuple
<1>. DEFINE n == [intent[f] EXCEPT !.displaced = rows[Wanted[f].slot].own.issue]
<1>3. rows[Wanted[f].slot].occupied => n \in Intent
  BY <1>1, <1>2, IntentFields
<1>4. n.state = intent[f].state /\ n.custody = intent[f].custody /\ n.committed = intent[f].committed
  BY <1>1 DEF Intent
<1>5. Displaced(f) = intent[f] \/ (rows[Wanted[f].slot].occupied /\ Displaced(f) = n)
  BY DEF Displaced
<1>. HIDE DEF n
<1>. QED
  BY <1>1, <1>3, <1>4, <1>5

(* The slot is the effect's own after the commit, whatever it was before.  *)
LEMMA CommitTakes ==
    ASSUME Typed, NEW c \in Call, NEW f \in Effect, f = call[c].effect,
           Commit(c) \/ CommitCrashes(c)
    PROVE  /\ call[c] # NULL
           /\ UNCHANGED vars \/ Kind(SlotOf(c))
           /\ Owns(f)'
           /\ rows'[SlotOf(c)] \in Row
<1>1. call[c] # NULL /\ TakeSlot(f)
  BY DEF Commit, CommitCrashes, At
<1>2. SlotOf(c) \in Slot /\ Wanted[f].slot = SlotOf(c) /\ Core
  BY <1>1, GotoMoves, TypedParts
<1>3. (UNCHANGED vars \/ Kind(SlotOf(c))) /\ Owns(f)'
  BY <1>1, <1>2, CommitOwns
<1>4. Core'
  BY <1>2, <1>3, CoreStep, TypedParts
<1>. QED
  BY <1>1, <1>2, <1>3, <1>4 DEF Core, TypeOK

LEMMA CommitWrites ==
    ASSUME Typed, NEW c \in Call, NEW f \in Effect, f = call[c].effect, intent[f] # NULL,
           Commit(c)
    PROVE  /\ Rewrites(f)
           /\ intent'[f].custody = intent[f].custody
           /\ IF intent[f].state = "planned"
              THEN intent'[f].state = "pending_delivery" /\ intent'[f].committed # NULL
              ELSE intent'[f].state = intent[f].state /\ intent'[f].committed = intent[f].committed
           /\ Moves(c) /\ call'[c] # NULL /\ call'[c].pc = "deliver" /\ call'[c].effect = f
           /\ call'[c].pin # NULL /\ call'[c].pin.epoch = rows'[SlotOf(c)].epoch
<1>. DEFINE s == SlotOf(c)
            e == rows'[s].epoch
            d == Displaced(f)
            n == [d EXCEPT !.state = "pending_delivery", !.committed = e]
            q == [call[c].pin EXCEPT !.epoch = e, !.turn = rows'[s].turn,
                                     !.turnState = rows'[s].turnState]
<1>11. call[c] # NULL /\ rows'[s] \in Row
  BY CommitTakes
<1>1. /\ intent \in [Effect -> Intent \cup {NULL}] /\ intent[f] \in Intent
      /\ call \in [Call -> Handler \cup {NULL}] /\ call[c] # NULL /\ s \in Slot
      /\ rows'[s] \in Row /\ e \in Nat
  <2>1. e \in Nat
    BY <1>11 DEF Row
  <2>2. s \in Slot
    BY <1>11, GotoMoves
  <2>3. intent[f] \in Intent
    BY TypedParts
  <2>. HIDE DEF s, e
  <2>. QED
    BY <1>11, <2>1, <2>2, <2>3, TypedParts
<1>2. d \in Intent /\ d.custody = intent[f].custody
  BY DisplacedTyped
<1>. HIDE DEF d, e
<1>3. n \in Intent
  BY <1>1, <1>2, IntentFields
<1>4. n.custody = intent[f].custody /\ n.state = "pending_delivery" /\ n.committed = e
  BY <1>2 DEF Intent
<1>5. intent' = [intent EXCEPT ![f] = IF intent[f].state = "planned" THEN n ELSE intent[f]]
  BY DEF Commit, d, e
<1>6. q \in Pin /\ q.epoch = e
  <2>1. call[c].pin \in Pin
    BY <1>1, PinTyped DEF Commit, Drifted
  <2>2. /\ rows'[s].turn \in Turn \cup {NULL}
        /\ rows'[s].turnState \in {"active", "inactive", "indeterminate"}
    BY <1>1 DEF Row
  <2>. HIDE DEF s
  <2>3. q \in Pin
    BY <1>1, <2>1, <2>2, Zenon DEF Pin
  <2>. QED
    BY <2>1, <2>3 DEF Pin
<1>7. call' = [call EXCEPT ![c] = [call[c] EXCEPT !.pc = "deliver", !.pin = q]]
  BY <1>1 DEF Commit, e
<1>. HIDE DEF n, q, s
<1>8. /\ Moves(c) /\ call'[c] # NULL /\ call'[c].pc = "deliver"
      /\ call'[c].effect = f /\ call'[c].pin = q
  BY <1>1, <1>6, <1>7, RepinMoves
<1>9. Rewrites(f) /\ intent'[f] = IF intent[f].state = "planned" THEN n ELSE intent[f]
  BY <1>1, <1>3, <1>5 DEF Rewrites
<1>10. q # NULL /\ e # NULL
  BY <1>1, <1>6, NullIsNoHandler
<1>. QED
  BY <1>1, <1>4, <1>6, <1>8, <1>9, <1>10 DEF e, s

LEMMA CommitCrashWrites ==
    ASSUME Typed, NEW c \in Call, NEW f \in Effect, f = call[c].effect, intent[f] # NULL,
           CommitCrashes(c)
    PROVE  /\ Rewrites(f)
           /\ intent'[f].state = intent[f].state /\ intent'[f].custody = intent[f].custody
           /\ intent'[f].committed = intent[f].committed
<1>1. intent \in [Effect -> Intent \cup {NULL}]
  BY TypedParts
<1>2. intent' = [intent EXCEPT ![f] = Displaced(f)]
  BY DEF CommitCrashes
<1>. QED
  BY <1>1, <1>2, DisplacedTyped DEF Rewrites

(* The paste, its refusal, its verification and what comes after.          *)
LEMMA PasteWrites ==
    ASSUME Typed, NEW c \in Call, NEW f \in Effect, f = call[c].effect, Paste(c)
    PROVE  /\ call[c] # NULL /\ call[c].pc = "paste" /\ Goto(c, "pasted")
           /\ UNCHANGED <<vars, intent, background, told, session>>
           /\ \E x \in Pasted :
                 /\ pasted' = [pasted EXCEPT ![f] = Append(pasted[f], x)]
                 /\ x.pinned => call[c].pin # NULL /\ ~Drifted(c)
                 /\ Owns(f) => x.owned
<1>. DEFINE o == Owns(f)
            k == call[c].pin # NULL
            x == [owned |-> o, pinned |-> k]
<1>1. o \in BOOLEAN
  BY Zenon DEF Owns
<1>2. k \in BOOLEAN
  OBVIOUS
<1>3. pasted' = [pasted EXCEPT ![f] = Append(pasted[f], x)]
  BY DEF Paste
<1>. HIDE DEF o
<1>4. x \in Pasted /\ (x.pinned <=> k) /\ (o => x.owned)
  BY <1>1, <1>2 DEF Pasted
<1>. HIDE DEF x
<1>5. k => ~Drifted(c)
  BY DEF Paste
<1>. QED
  BY <1>3, <1>4, <1>5 DEF Paste, At, o

LEMMA RefusedWrites ==
    ASSUME Typed, NEW c \in Call, NEW f \in Effect, f = call[c].effect, intent[f] # NULL,
           PasteRefused(c)
    PROVE  /\ call[c] # NULL /\ call[c].pc = "paste" /\ Done(c)
           /\ UNCHANGED <<vars, background, told, session, pasted>>
           /\ Rewrites(f)
           /\ intent'[f].state = intent[f].state /\ intent'[f].committed = intent[f].committed
           /\ intent'[f].custody \in {"unissued", intent[f].custody}
<1>1. intent \in [Effect -> Intent \cup {NULL}] /\ intent[f] \in Intent
  BY TypedParts
<1>. DEFINE k == IF call[c].pin # NULL /\ intent[f].state = "pending_delivery"
                 THEN "unissued" ELSE intent[f].custody
            n == [intent[f] EXCEPT !.custody = k]
<1>2. k \in {"unissued", "unknown", "delivered"} /\ k \in {"unissued", intent[f].custody}
  BY <1>1 DEF Intent
<1>3. intent' = [intent EXCEPT ![f] = n]
  BY <1>1 DEF PasteRefused
<1>. HIDE DEF k
<1>4. n \in Intent
  BY <1>1, <1>2, IntentFields
<1>5. n.custody = k /\ n.state = intent[f].state /\ n.committed = intent[f].committed
  BY <1>1 DEF Intent
<1>. HIDE DEF n
<1>6. /\ Rewrites(f)
      /\ intent'[f].state = intent[f].state /\ intent'[f].committed = intent[f].committed
      /\ intent'[f].custody \in {"unissued", intent[f].custody}
  BY <1>1, <1>2, <1>3, <1>4, <1>5 DEF Rewrites
<1>. QED
  BY <1>6 DEF PasteRefused, At

LEMMA VerifiedCrashWrites ==
    ASSUME Typed, NEW c \in Call, NEW f \in Effect, f = call[c].effect, intent[f] # NULL,
           VerifiedCrashes(c)
    PROVE  /\ Rewrites(f)
           /\ intent'[f].state = intent[f].state /\ intent'[f].committed = intent[f].committed
           /\ intent'[f].custody = "delivered"
<1>1. intent \in [Effect -> Intent \cup {NULL}] /\ intent[f] \in Intent
  BY TypedParts
<1>. DEFINE n == [intent[f] EXCEPT !.custody = "delivered"]
<1>2. intent' = [intent EXCEPT ![f] = n]
  BY DEF VerifiedCrashes
<1>3. n \in Intent
  BY <1>1, IntentFields
<1>4. n.custody = "delivered" /\ n.state = intent[f].state /\ n.committed = intent[f].committed
  BY <1>1 DEF Intent
<1>. HIDE DEF n
<1>. QED
  BY <1>1, <1>2, <1>3, <1>4 DEF Rewrites

LEMMA ProjectedWrites ==
    ASSUME Typed, NEW b \in background, intent[b.effect] # NULL, Projected(b)
    PROVE  /\ b.effect \in Effect /\ background' \subseteq background
           /\ UNCHANGED <<vars, call, told, session, pasted>>
           /\ Rewrites(b.effect)
           /\ intent'[b.effect].state = "delivered"
           /\ intent'[b.effect].custody = intent[b.effect].custody
           /\ intent'[b.effect].committed = intent[b.effect].committed
<1>. DEFINE f == b.effect
<1>1. f \in Effect
  BY TypedParts DEF Backgrounds
<1>. HIDE DEF f
<1>2. intent \in [Effect -> Intent \cup {NULL}] /\ intent[f] \in Intent
  BY <1>1, TypedParts DEF f
<1>3. PICK o \in {"done", "failed"}, r \in {"done", "failed"} :
        intent' = [intent EXCEPT ![f].state = "delivered", ![f].assign = o,
                                 ![f].release = IF b.release THEN r ELSE "none"]
  BY DEF Projected, f
<1>. DEFINE p == IF b.release THEN r ELSE "none"
            n == [intent[f] EXCEPT !.state = "delivered", !.assign = o, !.release = p]
<1>4. o \in Outcome /\ p \in Outcome
  BY DEF Outcome
<1>9. intent' = [intent EXCEPT ![f] = n]
  BY <1>2, <1>3
<1>. HIDE DEF p
<1>5. n \in Intent
  BY <1>2, <1>4, IntentFields
<1>6. n.state = "delivered" /\ n.custody = intent[f].custody /\ n.committed = intent[f].committed
  BY <1>2 DEF Intent
<1>. HIDE DEF n
<1>8. Rewrites(f) /\ intent'[f] = n
  BY <1>1, <1>2, <1>5, <1>9 DEF Rewrites
<1>. QED
  BY <1>1, <1>6, <1>8 DEF Projected, f

LEMMA ContinueTyped ==
    ASSUME Typed, Custody, NEW c \in Call, Continue(c)
    PROVE  Typed'
<1>. DEFINE f == call[c].effect
<1>1. call[c] # NULL
  BY DEF Continue, TakePin, Interrupt, Clear, ClearFails, Cleared, Commit, CommitCrashes,
         Deliver, Paste, PasteRefused, Verified, VerifiedCrashes, Refuse, At
<1>2. f \in Effect /\ SlotOf(c) \in Slot /\ intent[f] # NULL
  BY <1>1, GotoMoves DEF Custody, Holds
<1>. HIDE DEF f
<1>3. CASE TakePin(c) \/ Interrupt(c) \/ Clear(c) \/ ClearFails(c) \/ Cleared(c)
  <2>1. Core'
    BY <1>2, <1>3, EarlyMoves, TypedParts, CoreStep
  <2>2. session' \in [Slot -> 0 .. MaxSession]
    <3>1. CASE session' = session
      BY <3>1, TypedParts
    <3>2. CASE session' # session
      <4>1. session[SlotOf(c)] < MaxSession /\ session' = [session EXCEPT ![SlotOf(c)] = @ + 1]
        BY <1>3, <3>2 DEF TakePin, Interrupt, Clear, ClearFails, Cleared
      <4>2. session \in [Slot -> 0 .. MaxSession]
        BY TypedParts
      <4>3. session[SlotOf(c)] + 1 \in 0 .. MaxSession
        BY <1>2, <4>1, <4>2, MaxSessionIsNat
      <4>. QED
        BY <4>1, <4>2, <4>3
    <3>. QED
      BY <3>1, <3>2
  <2>3. Moves(c) /\ UNCHANGED <<intent, background, told, pasted>>
    BY <1>3, EarlyMoves
  <2>. QED
    BY <2>1, <2>2, <2>3, TypedParts, TypedFrame
<1>4. CASE Commit(c) \/ CommitCrashes(c)
  <2>1. Core'
    BY <1>2, <1>4, CommitTakes, TypedParts, CoreStep DEF f
  <2>2. Rewrites(f)
    BY <1>2, <1>4, CommitWrites, CommitCrashWrites DEF f
  <2>3. Moves(c) \/ call' = [d \in Call |-> NULL]
    BY <1>2, <1>4, CommitWrites DEF CommitCrashes, f
  <2>4. background' \in {background, {}} /\ UNCHANGED <<told, session, pasted>>
    BY <1>4 DEF Commit, CommitCrashes
  <2>. QED
    BY <1>2, <2>1, <2>2, <2>3, <2>4, TypedParts, TypedFrame
<1>5. CASE Deliver(c) \/ Verified(c)
  <2>1. UNCHANGED <<vars, session, pasted>>
    BY <1>5 DEF Deliver, Verified
  <2>2. CASE ClaimDelivery(f) /\ Goto(c, "paste") /\ UNCHANGED <<told, background>>
    BY <1>1, <1>2, <2>1, <2>2, ClaimWrites, GotoMoves, TypedParts, TypedFrame
  <2>3. CASE Finish(f) /\ Done(c)
    <3>1. Rewrites(f) /\ told' \subseteq Effect /\ background' \subseteq Backgrounds
      BY <1>2, <2>3, FinishWrites, TypedParts DEF Backgrounds
    <3>2. Moves(c)
      BY <1>1, <2>3, GotoMoves
    <3>. QED
      BY <1>2, <2>1, <3>1, <3>2, TypedParts, TypedFrame
  <2>. QED
    BY <1>5, <2>2, <2>3 DEF Deliver, Verified, f
<1>6. CASE Paste(c)
  <2>1. PICK x \in Pasted : pasted' = [pasted EXCEPT ![f] = Append(pasted[f], x)]
    BY <1>2, <1>6, PasteWrites DEF f
  <2>2. pasted' \in [Effect -> Seq(Pasted)]
    BY <1>2, <2>1, TypedParts
  <2>3. Moves(c) /\ UNCHANGED <<vars, intent, background, told, session>>
    BY <1>1, <1>2, <1>6, PasteWrites, GotoMoves DEF f
  <2>. QED
    BY <2>2, <2>3, TypedParts, TypedFrame
<1>7. CASE PasteRefused(c)
  BY <1>1, <1>2, <1>7, RefusedWrites, GotoMoves, TypedParts, TypedFrame DEF f
<1>8. CASE VerifiedCrashes(c)
  <2>1. /\ call' = [d \in Call |-> NULL] /\ background' = {}
        /\ UNCHANGED <<vars, told, session, pasted>>
    BY <1>8 DEF VerifiedCrashes
  <2>2. Rewrites(f)
    BY <1>2, <1>8, VerifiedCrashWrites DEF f
  <2>. QED
    BY <1>2, <2>1, <2>2, TypedParts, TypedFrame
<1>9. CASE Refuse(c)
  BY <1>1, <1>9, GotoMoves, TypedParts, TypedFrame DEF Refuse
<1>. QED
  BY <1>3, <1>4, <1>5, <1>6, <1>7, <1>8, <1>9 DEF Continue

LEMMA AroundTyped ==
    ASSUME Typed, Custody,
           \/ \E b \in background : Projected(b)
           \/ Crash
           \/ \E s \in Slot : Others(s)
    PROVE  Typed'
<1>1. ASSUME NEW b \in background, Projected(b)
      PROVE  Typed'
  <2>1. intent[b.effect] # NULL
    BY DEF Custody, ProjectsDelivered
  <2>2. /\ b.effect \in Effect /\ background' \subseteq background
        /\ UNCHANGED <<vars, call, told, session, pasted>> /\ Rewrites(b.effect)
    BY <1>1, <2>1, ProjectedWrites
  <2>. QED
    BY <2>2, TypedParts, TypedFrame
<1>2. CASE Crash
  BY <1>2, TypedParts, TypedFrame DEF Crash
<1>3. ASSUME NEW s \in Slot, Others(s)
      PROVE  Typed'
  <2>1. Core'
    BY <1>3, OthersWrite, TypedParts, CoreStep
  <2>2. UNCHANGED <<intent, call, background, told, pasted>>
    BY <1>3 DEF Others, assignVars
  <2>3. session' \in [Slot -> 0 .. MaxSession]
    <3>1. CASE session' = session
      BY <3>1, TypedParts
    <3>2. CASE session' # session
      <4>1. session[s] < MaxSession /\ session' = [session EXCEPT ![s] = @ + 1]
        BY <1>3, <3>2 DEF Others, assignVars
      <4>2. session \in [Slot -> 0 .. MaxSession]
        BY TypedParts
      <4>3. session[s] + 1 \in 0 .. MaxSession
        BY <4>1, <4>2, MaxSessionIsNat
      <4>. QED
        BY <4>1, <4>2, <4>3
    <3>. QED
      BY <3>1, <3>2
  <2>. QED
    BY <2>1, <2>2, <2>3, TypedParts, TypedFrame
<1>. QED
  BY <1>1, <1>2, <1>3

LEMMA TypedStep ==
    ASSUME Typed, Custody, [AssignNext]_allVars
    PROVE  Typed'
<1>1. CASE UNCHANGED allVars
  <2>1. UNCHANGED vars /\ UNCHANGED assignVars
    BY <1>1 DEF allVars
  <2>. QED
    BY <2>1, TypedParts, TypedFrame DEF assignVars
<1>. QED
  BY <1>1, RequestTyped, ContinueTyped, AroundTyped DEF AssignNext

-----------------------------------------------------------------------------
(* Custody.                                                                *)
LEMMA CustodyInit == AssignInit => Custody
  BY NullIsNoHandler DEF AssignInit, Custody, Custodied, Holds, OneSender, Sends,
     ProjectsDelivered

(* Who sends an effect has the custody of it, so where the custody is not  *)
(* unknown nobody sends.                                                   *)
LEMMA NobodySends ==
    ASSUME Custody, NEW f \in Effect,
           intent[f] = NULL \/ intent[f].state # "pending_delivery"
               \/ intent[f].custody # "unknown"
    PROVE  \A d \in Call : ~(Sends(d) /\ call[d].effect = f)
  BY DEF Custody, Holds, Sends

(* A step that pastes nothing, leaves custody alone, and takes no handler  *)
(* to its paste.                                                           *)
LEMMA Calm ==
    ASSUME Typed, Typed', Custody,
           UNCHANGED pasted,
           \A f \in Effect : intent[f] = NULL => intent'[f] = NULL,
           \A f \in Effect : intent[f] # NULL =>
               /\ intent'[f] # NULL
               /\ intent'[f].state = intent[f].state /\ intent'[f].custody = intent[f].custody
               /\ intent'[f].committed = intent[f].committed,
           \A f \in told' : f \in told \/ (intent[f] # NULL /\ intent[f].state = "delivered"),
           \A b \in background' : \/ b \in background
                                  \/ intent[b.effect] # NULL /\ intent[b.effect].state = "delivered",
           \A c \in Call : \/ call'[c] \in {NULL, call[c]}
                           \/ /\ call'[c].pc \notin {"paste", "pasted"}
                              /\ intent[call'[c].effect] # NULL
    PROVE  Custody'
<1>1. \A c \in Call : call'[c] # NULL => call'[c].effect \in Effect
  BY TypedParts DEF Typed, AssignTypeOK, Handler
<1>2. \A b \in background' : b.effect \in Effect
  BY DEF Typed, AssignTypeOK
<1>3. \A f \in Effect : Custodied(f)'
  BY DEF Custody, Custodied
<1>4. \A c \in Call : Sends(c)' => Sends(c) /\ call'[c] = call[c]
  BY DEF Sends
<1>5. \A c \in Call : Holds(c)'
  BY <1>1, <1>4 DEF Custody, Holds, Sends
<1>6. OneSender'
  BY <1>4 DEF Custody, OneSender
<1>7. ProjectsDelivered'
  BY <1>2 DEF Custody, ProjectsDelivered
<1>. QED
  BY <1>3, <1>5, <1>6, <1>7 DEF Custody

(* A step of one handler with one effect that no other handler sends.      *)
LEMMA Moment ==
    ASSUME Typed, Typed', Custody, NEW f \in Effect, NEW c \in Call,
           \A d \in Call : Sends(d) /\ call[d].effect = f => d = c,
           Custodied(f)', intent'[f] # NULL,
           intent[f] # NULL /\ intent[f].state = "delivered" => intent'[f].state = "delivered",
           \A g \in Effect \ {f} : intent'[g] = intent[g] /\ pasted'[g] = pasted[g],
           told' \subseteq told \cup {f},
           \A b \in background' : \/ b \in background
                                  \/ b.effect = f /\ intent'[f].state = "delivered",
           \A d \in Call \ {c} : call'[d] \in {NULL, call[d]},
           call'[c] # NULL => call'[c].effect = f /\ Holds(c)'
    PROVE  Custody'
<1>1. \A d \in Call : call'[d] # NULL => call'[d].effect \in Effect
  BY TypedParts DEF Typed, AssignTypeOK, Handler
<1>2. \A b \in background' : b.effect \in Effect
  BY DEF Typed, AssignTypeOK
<1>3. \A g \in Effect : Custodied(g)'
  BY DEF Custody, Custodied
<1>4. \A d \in Call \ {c} : Sends(d)' => Sends(d) /\ call'[d] = call[d] /\ call[d].effect # f
  BY DEF Sends
<1>5. \A d \in Call : Holds(d)'
  <2>1. Holds(c)'
    BY DEF Holds
  <2>2. \A d \in Call \ {c} : Holds(d)'
    BY <1>1, <1>4 DEF Custody, Holds, Sends
  <2>. QED
    BY <2>1, <2>2
<1>6. OneSender'
  <2>1. Sends(c)' => call'[c].effect = f
    BY DEF Sends
  <2>. QED
    BY <1>4, <2>1 DEF Custody, OneSender
<1>7. ProjectsDelivered'
  BY <1>2 DEF Custody, ProjectsDelivered
<1>. QED
  BY <1>3, <1>5, <1>6, <1>7 DEF Custody

(* What a rewritten intent and a moved handler leave alone.                *)
LEMMA RewritesOne ==
    ASSUME Typed, NEW f \in Effect, Rewrites(f)
    PROVE  intent'[f] # NULL /\ \A g \in Effect \ {f} : intent'[g] = intent[g]
  BY TypedParts, NullIsNoHandler DEF Rewrites

LEMMA MovesOne ==
    ASSUME Typed, NEW c \in Call, Moves(c)
    PROVE  \A d \in Call \ {c} : call'[d] = call[d]
  BY TypedParts DEF Moves

(* Taking the packet, and finishing: what becomes of the effect.           *)
LEMMA ClaimCustody ==
    ASSUME Typed, Typed', Custody, NEW f \in Effect, NEW c \in Call,
           intent[f] # NULL, ClaimDelivery(f),
           UNCHANGED <<background, told, pasted>>,
           Moves(c), call'[c] # NULL, call'[c].pc = "paste", call'[c].effect = f
    PROVE  Custody'
<1>1. /\ Rewrites(f)
      /\ intent[f].state = "pending_delivery" /\ intent[f].custody = "unissued"
      /\ intent'[f].custody = "unknown" /\ intent'[f].state = "pending_delivery"
      /\ intent'[f].committed = intent[f].committed
  BY ClaimWrites
<1>2. intent'[f] # NULL /\ \A g \in Effect \ {f} : intent'[g] = intent[g]
  BY <1>1, RewritesOne
<1>3. \A d \in Call : ~(Sends(d) /\ call[d].effect = f)
  BY <1>1, NobodySends
<1>4. Custodied(f)'
  BY <1>1, <1>2 DEF Custody, Custodied
<1>5. Len(pasted'[f]) = 0
  BY <1>1 DEF Custody, Custodied
<1>6. Holds(c)'
  BY <1>1, <1>2, <1>5 DEF Holds, Sends
<1>7. \A d \in Call \ {c} : call'[d] \in {NULL, call[d]}
  BY MovesOne
<1>. QED
  BY <1>1, <1>2, <1>3, <1>4, <1>6, <1>7, Moment

LEMMA FinishCustody ==
    ASSUME Typed, Typed', Custody, NEW f \in Effect, NEW c \in Call,
           intent[f] # NULL, Finish(f), UNCHANGED pasted,
           intent[f].state = "pending_delivery", Len(pasted[f]) = 1,
           \A d \in Call : Sends(d) /\ call[d].effect = f => d = c,
           call'[c] = NULL, \A d \in Call \ {c} : call'[d] = call[d]
    PROVE  Custody'
<1>1. /\ Rewrites(f)
      /\ intent'[f].custody = "delivered" /\ intent'[f].committed = intent[f].committed
      /\ \/ /\ intent'[f].state = "delivered"
            /\ told' = told \cup {f}
            /\ \E r \in BOOLEAN : background' = background \cup {[effect |-> f, release |-> r]}
         \/ /\ intent'[f].state = intent[f].state
            /\ UNCHANGED <<told, background>>
  BY FinishWrites
<1>2. intent'[f] # NULL /\ \A g \in Effect \ {f} : intent'[g] = intent[g]
  BY <1>1, RewritesOne
<1>3. Custodied(f)'
  BY <1>1, <1>2 DEF Custody, Custodied
<1>4. \A b \in background' : b \in background \/ (b.effect = f /\ intent'[f].state = "delivered")
  BY <1>1
<1>5. told' \subseteq told \cup {f}
  BY <1>1
<1>. QED
  BY <1>2, <1>3, <1>4, <1>5, Moment

LEMMA RequestCustody ==
    ASSUME Typed, Typed', Custody, NEW f \in Effect, Request(f)
    PROVE  Custody'
<1>1. ASSUME NEW c \in Call, NEW e \in Epochs, Begin(c, f, e)
      PROVE  Custody'
  <2>1. call[c] = NULL /\ UNCHANGED <<background, told, pasted>>
    BY <1>1 DEF Begin
  <2>2. \A d \in Call \ {c} : call'[d] = call[d]
    BY <1>1, BeginWrites, MovesOne
  <2>3. \/ call'[c] = NULL
        \/ call'[c] # NULL /\ call'[c].pc = "pane" /\ call'[c].effect = f
    BY <1>1, <2>1, BeginWrites
  <2>4. CASE intent' = intent /\ intent[f] # NULL
    <3>1. \A d \in Call : \/ call'[d] \in {NULL, call[d]}
                          \/ call'[d].pc \notin {"paste", "pasted"} /\ intent[call'[d].effect] # NULL
      BY <2>2, <2>3, <2>4
    <3>. QED
      BY <2>1, <2>4, <3>1, Calm
  <2>5. CASE /\ intent[f] = NULL /\ Rewrites(f) /\ intent'[f] # NULL
             /\ intent'[f].state = "planned" /\ intent'[f].custody = "unissued"
    <3>1. \A d \in Call : ~(Sends(d) /\ call[d].effect = f)
      BY <2>5, NobodySends
    <3>2. Custodied(f)'
      BY <2>1, <2>5 DEF Custody, Custodied
    <3>3. call'[c] # NULL => call'[c].effect = f /\ Holds(c)'
      BY <2>3, <2>5 DEF Holds, Sends
    <3>4. \A g \in Effect \ {f} : intent'[g] = intent[g]
      BY <2>5, RewritesOne
    <3>. QED
      BY <2>1, <2>2, <2>5, <3>1, <3>2, <3>3, <3>4, Moment
  <2>. QED
    BY <1>1, <2>4, <2>5, BeginWrites
<1>2. ASSUME NEW c \in Call, NEW e \in Epochs, Resume(c, f, e)
      PROVE  Custody'
  <2>1. /\ call[c] = NULL /\ intent[f] # NULL /\ intent[f].state = "pending_delivery"
        /\ UNCHANGED pasted
    BY <1>2 DEF Resume
  <2>2. CASE /\ ClaimDelivery(f) /\ UNCHANGED <<told, background>>
             /\ Moves(c) /\ call'[c] # NULL
             /\ call'[c].pc = "paste" /\ call'[c].effect = f /\ call'[c].pin = NULL
    BY <2>1, <2>2, ClaimCustody
  <2>3. CASE intent[f].custody = "delivered" /\ Finish(f) /\ call' = call
    <3>1. \A d \in Call : ~(Sends(d) /\ call[d].effect = f)
      BY <2>3, NobodySends
    <3>2. Len(pasted[f]) = 1
      BY <2>1, <2>3 DEF Custody, Custodied
    <3>. QED
      BY <2>1, <2>3, <3>1, <3>2, FinishCustody
  <2>. QED
    BY <1>2, <2>2, <2>3, ResumeWrites
<1>3. ASSUME NEW e \in Epochs, Replay(f, e)
      PROVE  Custody'
  <2>1. UNCHANGED <<call, pasted>>
    BY <1>3 DEF Replay
  <2>2. /\ intent[f] # NULL /\ intent[f].state = "delivered"
        /\ Rewrites(f)
        /\ intent'[f].state = "delivered" /\ intent'[f].custody = intent[f].custody
        /\ intent'[f].committed = intent[f].committed
        /\ told' = told \cup {f}
        /\ \E r \in BOOLEAN : background' = background \cup {[effect |-> f, release |-> r]}
    BY <1>3, ReplayWrites
  <2>3. intent'[f] # NULL /\ \A g \in Effect \ {f} : intent'[g] = intent[g]
    BY <2>2, RewritesOne
  <2>4. \A b \in background' : \/ b \in background
                               \/ intent[b.effect] # NULL /\ intent[b.effect].state = "delivered"
    BY <2>2
  <2>. QED
    BY <2>1, <2>2, <2>3, <2>4, Calm
<1>. QED
  BY <1>1, <1>2, <1>3 DEF Request

LEMMA CommitCustody ==
    ASSUME Typed, Typed', Custody, NEW c \in Call, NEW f, f = call[c].effect,
           Commit(c) \/ CommitCrashes(c)
    PROVE  Custody'
<1>1. call[c] # NULL
  BY DEF Commit, CommitCrashes, At
<1>2. f \in Effect /\ intent[f] # NULL
  BY <1>1, GotoMoves DEF Custody, Holds
<1>3. CASE CommitCrashes(c)
  <2>1. /\ Rewrites(f)
        /\ intent'[f].state = intent[f].state /\ intent'[f].custody = intent[f].custody
        /\ intent'[f].committed = intent[f].committed
    BY <1>2, <1>3, CommitCrashWrites
  <2>2. intent'[f] # NULL /\ \A g \in Effect \ {f} : intent'[g] = intent[g]
    BY <1>2, <2>1, RewritesOne
  <2>3. /\ call' = [d \in Call |-> NULL] /\ background' = {}
        /\ UNCHANGED <<told, pasted>>
    BY <1>3 DEF CommitCrashes
  <2>. QED
    BY <1>2, <2>1, <2>2, <2>3, Calm
<1>4. CASE Commit(c)
  <2>1. /\ Rewrites(f)
        /\ intent'[f].custody = intent[f].custody
        /\ IF intent[f].state = "planned"
           THEN intent'[f].state = "pending_delivery" /\ intent'[f].committed # NULL
           ELSE intent'[f].state = intent[f].state /\ intent'[f].committed = intent[f].committed
        /\ Moves(c) /\ call'[c] # NULL /\ call'[c].pc = "deliver" /\ call'[c].effect = f
    BY <1>2, <1>4, CommitWrites
  <2>2. intent'[f] # NULL /\ \A g \in Effect \ {f} : intent'[g] = intent[g]
    BY <1>2, <2>1, RewritesOne
  <2>3. \A d \in Call \ {c} : call'[d] = call[d]
    BY <2>1, MovesOne
  <2>4. UNCHANGED <<background, told, pasted>>
    BY <1>4 DEF Commit
  <2>5. CASE intent[f].state = "planned"
    <3>1. \A d \in Call : ~(Sends(d) /\ call[d].effect = f)
      BY <1>2, <2>5, NobodySends
    <3>2. Custodied(f)'
      BY <1>2, <2>1, <2>2, <2>4, <2>5 DEF Custody, Custodied
    <3>3. Holds(c)'
      BY <2>1, <2>2 DEF Holds, Sends
    <3>. QED
      BY <1>2, <2>1, <2>2, <2>3, <2>4, <2>5, <3>1, <3>2, <3>3, Moment
  <2>6. CASE intent[f].state # "planned"
    <3>1. \A d \in Call : \/ call'[d] \in {NULL, call[d]}
                          \/ call'[d].pc \notin {"paste", "pasted"} /\ intent[call'[d].effect] # NULL
      BY <1>2, <2>1, <2>3
    <3>. QED
      BY <1>2, <2>1, <2>2, <2>4, <2>6, <3>1, Calm
  <2>. QED
    BY <2>5, <2>6
<1>. QED
  BY <1>3, <1>4

(* From the claim to the answer. Whoever sends is alone with the effect.   *)
LEMMA SendCustody ==
    ASSUME Typed, Typed', Custody, NEW c \in Call, NEW f, f = call[c].effect,
           \/ Deliver(c) \/ Paste(c) \/ PasteRefused(c) \/ Verified(c) \/ VerifiedCrashes(c)
    PROVE  Custody'
<1>1. call[c] # NULL
  BY DEF Deliver, Paste, PasteRefused, Verified, VerifiedCrashes, At
<1>2. f \in Effect /\ intent[f] # NULL
  BY <1>1, GotoMoves DEF Custody, Holds
<1>3. Sends(c) => /\ intent[f].state = "pending_delivery" /\ intent[f].custody = "unknown"
                  /\ Len(pasted[f]) = IF call[c].pc = "paste" THEN 0 ELSE 1
                  /\ \A d \in Call : Sends(d) /\ call[d].effect = f => d = c
                  /\ intent[f].committed # NULL /\ f \notin told
  BY <1>1, <1>2 DEF Custody, Holds, OneSender, Custodied
<1>4. CASE Deliver(c)
  <2>1. UNCHANGED pasted
    BY <1>4 DEF Deliver
  <2>2. CASE ClaimDelivery(f) /\ Goto(c, "paste") /\ UNCHANGED <<told, background>>
    <3>1. Moves(c) /\ call'[c] # NULL /\ call'[c].pc = "paste" /\ call'[c].effect = f
      BY <1>1, <2>2, GotoMoves
    <3>. QED
      BY <1>2, <2>1, <2>2, <3>1, ClaimCustody
  <2>3. CASE /\ intent[f].state = "pending_delivery" /\ intent[f].custody = "delivered"
             /\ Finish(f) /\ Done(c)
    <3>1. call'[c] = NULL /\ \A d \in Call \ {c} : call'[d] = call[d]
      BY <1>1, <2>3, GotoMoves, MovesOne
    <3>2. \A d \in Call : ~(Sends(d) /\ call[d].effect = f)
      BY <1>2, <2>3, NobodySends
    <3>3. Len(pasted[f]) = 1
      BY <1>2, <2>3 DEF Custody, Custodied
    <3>. QED
      BY <1>2, <2>1, <2>3, <3>1, <3>2, <3>3, FinishCustody
  <2>. QED
    BY <1>4, <2>2, <2>3 DEF Deliver
<1>5. CASE Paste(c)
  <2>1. /\ call[c].pc = "paste" /\ Goto(c, "pasted")
        /\ UNCHANGED <<intent, background, told>>
    BY <1>2, <1>5, PasteWrites
  <2>2. PICK x \in Pasted : pasted' = [pasted EXCEPT ![f] = Append(pasted[f], x)]
    BY <1>2, <1>5, PasteWrites
  <2>3. Moves(c) /\ call'[c] # NULL /\ call'[c].pc = "pasted" /\ call'[c].effect = f
    BY <1>1, <2>1, GotoMoves
  <2>4. \A d \in Call \ {c} : call'[d] = call[d]
    BY <2>3, MovesOne
  <2>5. Sends(c)
    BY <1>1, <2>1 DEF Sends
  <2>6. pasted \in [Effect -> Seq(Pasted)]
    BY TypedParts
  <2>7. Len(pasted'[f]) = 1 /\ \A g \in Effect \ {f} : pasted'[g] = pasted[g]
    <3>1. pasted'[f] = Append(pasted[f], x) /\ pasted[f] \in Seq(Pasted)
      BY <1>2, <2>2, <2>6
    <3>2. Len(pasted'[f]) = Len(pasted[f]) + 1
      BY <3>1
    <3>. QED
      BY <1>3, <2>1, <2>2, <2>5, <2>6, <3>2
  <2>8. Custodied(f)'
    BY <1>2, <1>3, <2>1, <2>5, <2>7 DEF Custodied
  <2>9. Holds(c)'
    BY <1>2, <1>3, <2>1, <2>3, <2>5, <2>7 DEF Holds, Sends
  <2>. QED
    BY <1>2, <1>3, <2>1, <2>3, <2>4, <2>5, <2>7, <2>8, <2>9, Moment
<1>6. CASE PasteRefused(c)
  <2>1. /\ call[c].pc = "paste" /\ Done(c)
        /\ UNCHANGED <<background, told, pasted>>
        /\ Rewrites(f)
        /\ intent'[f].state = intent[f].state /\ intent'[f].committed = intent[f].committed
        /\ intent'[f].custody \in {"unissued", intent[f].custody}
    BY <1>2, <1>6, RefusedWrites
  <2>2. call'[c] = NULL /\ \A d \in Call \ {c} : call'[d] = call[d]
    BY <1>1, <2>1, GotoMoves, MovesOne
  <2>3. Sends(c)
    BY <1>1, <2>1 DEF Sends
  <2>4. intent'[f] # NULL /\ \A g \in Effect \ {f} : intent'[g] = intent[g]
    BY <1>2, <2>1, RewritesOne
  <2>5. Custodied(f)'
    BY <1>2, <1>3, <2>1, <2>3, <2>4 DEF Custodied
  <2>. QED
    BY <1>2, <1>3, <2>1, <2>2, <2>3, <2>4, <2>5, Moment
<1>7. CASE Verified(c)
  <2>1. call[c].pc = "pasted" /\ Finish(f) /\ Done(c) /\ UNCHANGED pasted
    BY <1>7 DEF Verified, At
  <2>2. call'[c] = NULL /\ \A d \in Call \ {c} : call'[d] = call[d]
    BY <1>1, <2>1, GotoMoves, MovesOne
  <2>3. Sends(c)
    BY <1>1, <2>1 DEF Sends
  <2>. QED
    BY <1>2, <1>3, <2>1, <2>2, <2>3, FinishCustody
<1>8. CASE VerifiedCrashes(c)
  <2>1. /\ Rewrites(f)
        /\ intent'[f].state = intent[f].state /\ intent'[f].committed = intent[f].committed
        /\ intent'[f].custody = "delivered"
    BY <1>2, <1>8, VerifiedCrashWrites
  <2>2. /\ call[c].pc = "pasted" /\ call' = [d \in Call |-> NULL] /\ background' = {}
        /\ UNCHANGED <<told, pasted>>
    BY <1>8 DEF VerifiedCrashes, At
  <2>3. Sends(c)
    BY <1>1, <2>2 DEF Sends
  <2>4. intent'[f] # NULL /\ \A g \in Effect \ {f} : intent'[g] = intent[g]
    BY <1>2, <2>1, RewritesOne
  <2>5. Custodied(f)'
    <3>1. /\ Len(pasted'[f]) = 1 /\ f \notin told'
          /\ intent'[f].state = "pending_delivery" /\ intent'[f].committed # NULL
      BY <1>3, <2>1, <2>2, <2>3
    <3>. QED
      BY <2>1, <2>4, <3>1 DEF Custodied
  <2>6. call'[c] = NULL /\ \A d \in Call \ {c} : call'[d] \in {NULL, call[d]}
    BY <2>2
  <2>. QED
    BY <1>2, <1>3, <2>1, <2>2, <2>3, <2>4, <2>5, <2>6, Moment
<1>. QED
  BY <1>4, <1>5, <1>6, <1>7, <1>8

LEMMA CustodyStep ==
    ASSUME Typed, Custody, [AssignNext]_allVars
    PROVE  Custody'
<1>1. Typed'
  BY TypedStep
<1>2. ASSUME NEW f \in Effect, Request(f)
      PROVE  Custody'
  BY <1>1, <1>2, RequestCustody
<1>3. ASSUME NEW c \in Call,
             \/ TakePin(c) \/ Interrupt(c) \/ Clear(c) \/ ClearFails(c) \/ Cleared(c)
      PROVE  Custody'
  <2>1. /\ Moves(c) /\ call[c] # NULL /\ call'[c] # NULL
        /\ call'[c].pc \in {"interrupt", "clear", "cleared", "observe"}
        /\ call'[c].effect = call[c].effect
        /\ UNCHANGED <<intent, background, told, pasted>>
    BY <1>3, EarlyMoves
  <2>2. \A d \in Call \ {c} : call'[d] = call[d]
    BY <2>1, MovesOne
  <2>3. intent[call[c].effect] # NULL
    BY <2>1 DEF Custody, Holds
  <2>. QED
    BY <1>1, <2>1, <2>2, <2>3, Calm
<1>4. ASSUME NEW c \in Call, Refuse(c)
      PROVE  Custody'
  <2>1. /\ UNCHANGED <<intent, background, told, pasted>>
        /\ call' = [call EXCEPT ![c] = NULL]
    BY <1>4 DEF Refuse, Done
  <2>2. \A d \in Call : call'[d] \in {NULL, call[d]}
    BY <2>1, TypedParts
  <2>. QED
    BY <1>1, <2>1, <2>2, Calm
<1>5. ASSUME NEW b \in background, Projected(b)
      PROVE  Custody'
  <2>1. intent[b.effect] # NULL /\ intent[b.effect].state = "delivered"
    BY DEF Custody, ProjectsDelivered
  <2>2. /\ b.effect \in Effect /\ background' \subseteq background
        /\ UNCHANGED <<call, told, pasted>>
        /\ Rewrites(b.effect)
        /\ intent'[b.effect].state = "delivered"
        /\ intent'[b.effect].custody = intent[b.effect].custody
        /\ intent'[b.effect].committed = intent[b.effect].committed
    BY <1>5, <2>1, ProjectedWrites
  <2>3. intent'[b.effect] # NULL /\ \A g \in Effect \ {b.effect} : intent'[g] = intent[g]
    BY <2>2, RewritesOne
  <2>. QED
    BY <1>1, <2>1, <2>2, <2>3, Calm
<1>6. CASE Crash
  BY <1>1, <1>6, Calm DEF Crash
<1>7. ASSUME NEW s \in Slot, Others(s)
      PROVE  Custody'
  <2>1. UNCHANGED <<intent, call, background, told, pasted>>
    BY <1>7 DEF Others, assignVars
  <2>. QED
    BY <1>1, <2>1, Calm
<1>8. CASE UNCHANGED allVars
  <2>1. UNCHANGED <<intent, call, background, told, pasted>>
    BY <1>8 DEF allVars, assignVars
  <2>. QED
    BY <1>1, <2>1, Calm
<1>9. ASSUME NEW c \in Call, Continue(c)
      PROVE  Custody'
  <2>1. PICK f : f = call[c].effect
    OBVIOUS
  <2>. QED
    BY <1>1, <1>3, <1>4, <1>9, <2>1, CommitCustody, SendCustody DEF Continue
<1>. QED
  BY <1>2, <1>5, <1>6, <1>7, <1>8, <1>9 DEF AssignNext

-----------------------------------------------------------------------------
(* Pins.                                                                   *)

(* A pin taken after the commit stays behind the row, or for the lane.     *)
LEMMA FenceStays ==
    ASSUME Typed, NEW f \in Effect, NEW e \in Nat,
           UNCHANGED vars \/ \E s \in Slot : Kind(s),
           e <= rows[Wanted[f].slot].epoch,
           e = rows[Wanted[f].slot].epoch => Owns(f)
    PROVE  /\ e <= rows'[Wanted[f].slot].epoch
           /\ e = rows'[Wanted[f].slot].epoch => Owns(f)'
<1>1. Wanted[f].slot \in Slot /\ rows[Wanted[f].slot].epoch \in Nat
  BY WantedIsLanes, TypedParts DEF Core, TypeOK, Row
<1>2. CASE UNCHANGED vars
  BY <1>2 DEF vars, Owns
<1>3. ASSUME NEW s \in Slot, Kind(s)
      PROVE  /\ e <= rows'[Wanted[f].slot].epoch
             /\ e = rows'[Wanted[f].slot].epoch => Owns(f)'
  <2>1. /\ rows'[Wanted[f].slot].epoch \in Nat
        /\ rows[Wanted[f].slot].epoch <= rows'[Wanted[f].slot].epoch
        /\ Owns(f) /\ rows'[Wanted[f].slot].epoch = rows[Wanted[f].slot].epoch => Owns(f)'
    BY <1>1, <1>3, KindKeepsLane, TypedParts
  <2>2. e = rows'[Wanted[f].slot].epoch => rows'[Wanted[f].slot].epoch = rows[Wanted[f].slot].epoch
    BY <1>1, <2>1
  <2>. QED
    BY <1>1, <2>1, <2>2
<1>. QED
  BY <1>2, <1>3

LEMMA FencedStays ==
    ASSUME Typed, NEW c \in Call, Fenced(c),
           UNCHANGED vars \/ \E s \in Slot : Kind(s),
           call[c] # NULL, call[c].pc \in {"deliver", "paste"},
           call'[c].effect = call[c].effect, call'[c].pin = call[c].pin
    PROVE  Fenced(c)'
<1>1. call[c].effect \in Effect /\ call[c].pin \in Pin \cup {NULL}
  BY TypedParts DEF Handler
<1>2. CASE call[c].pin = NULL
  BY <1>2 DEF Fenced
<1>3. CASE call[c].pin # NULL
  <2>. DEFINE f == call[c].effect
              e == call[c].pin.epoch
  <2>1. f \in Effect /\ e \in Nat
    BY <1>1, <1>3 DEF Pin
  <2>2. e <= rows[Wanted[f].slot].epoch /\ (e = rows[Wanted[f].slot].epoch => Owns(f))
    BY <1>3 DEF Fenced, SlotOf
  <2>3. PICK g, n : g = f /\ n = e
    OBVIOUS
  <2>4. /\ n <= rows'[Wanted[g].slot].epoch
        /\ n = rows'[Wanted[g].slot].epoch => Owns(g)'
    <3>1. g \in Effect /\ n \in Nat
      BY <2>1, <2>3
    <3>2. n <= rows[Wanted[g].slot].epoch /\ (n = rows[Wanted[g].slot].epoch => Owns(g))
      BY <2>2, <2>3
    <3>. QED
      BY <3>1, <3>2, FenceStays
  <2>5. call'[c].effect = g /\ call'[c].pin.epoch = n
    BY <2>3
  <2>. HIDE DEF f, e
  <2>. QED
    BY <2>4, <2>5 DEF Fenced, SlotOf, Owns
<1>. QED
  BY <1>2, <1>3

(* Every step writes at most one row.                                      *)
LEMMA TableStep ==
    ASSUME Typed, [AssignNext]_allVars
    PROVE  UNCHANGED vars \/ \E s \in Slot : Kind(s)
<1>1. ASSUME NEW f \in Effect, Request(f)
      PROVE  UNCHANGED vars
  BY <1>1 DEF Request, Begin, Resume, Replay
<1>2. ASSUME NEW c \in Call, Continue(c)
      PROVE  UNCHANGED vars \/ \E s \in Slot : Kind(s)
  <2>1. CASE TakePin(c) \/ Interrupt(c) \/ Clear(c) \/ ClearFails(c) \/ Cleared(c)
    BY <2>1, EarlyMoves, GotoMoves
  <2>2. CASE Commit(c) \/ CommitCrashes(c)
    <3>1. PICK f : f = call[c].effect
      OBVIOUS
    <3>2. call[c] # NULL
      BY <2>2 DEF Commit, CommitCrashes, At
    <3>. QED
      BY <2>2, <3>1, <3>2, CommitTakes, GotoMoves
  <2>. QED
    BY <1>2, <2>1, <2>2 DEF Continue, Deliver, Paste, PasteRefused, Verified,
       VerifiedCrashes, Refuse
<1>3. ASSUME NEW s \in Slot, Others(s)
      PROVE  UNCHANGED vars \/ \E o \in Slot : Kind(o)
  BY <1>3, OthersWrite, TypedParts
<1>. QED
  BY <1>1, <1>2, <1>3 DEF AssignNext, Projected, Crash, allVars

(* A handler that is not past its commit, or has no pin, fences nothing.   *)
LEMMA FencedStep ==
    ASSUME Typed, Custody, Pins, [AssignNext]_allVars, NEW d \in Call
    PROVE  Fenced(d)'
<1>0. UNCHANGED vars \/ \E s \in Slot : Kind(s)
  BY TableStep
<1>1. CASE call'[d] \in {NULL, call[d]}
  BY <1>0, <1>1, FencedStays DEF Pins, Fenced
<1>2. ASSUME NEW f \in Effect, Request(f), call'[d] \notin {NULL, call[d]}
      PROVE  Fenced(d)'
  <2>1. CASE \E c \in Call, e \in Epochs : Begin(c, f, e)
    <3>1. PICK c \in Call, e \in Epochs : Begin(c, f, e)
      BY <2>1
    <3>2. Moves(c) /\ call'[c] # NULL /\ call'[c].pc = "pane"
      BY <1>2, <3>1, BeginWrites
    <3>3. d = c
      BY <1>2, <3>2, MovesOne
    <3>. QED
      BY <3>2, <3>3 DEF Fenced
  <2>2. CASE \E c \in Call, e \in Epochs : Resume(c, f, e)
    <3>1. PICK c \in Call, e \in Epochs : Resume(c, f, e)
      BY <2>2
    <3>2. Moves(c) /\ call'[c] # NULL /\ call'[c].pin = NULL
      BY <1>2, <3>1, ResumeWrites
    <3>3. d = c
      BY <1>2, <3>2, MovesOne
    <3>. QED
      BY <3>2, <3>3 DEF Fenced
  <2>. QED
    BY <1>2, <2>1, <2>2 DEF Request, Replay
<1>3. ASSUME NEW c \in Call, Continue(c), call'[d] \notin {NULL, call[d]}
      PROVE  Fenced(d)'
  <2>1. PICK f : f = call[c].effect
    OBVIOUS
  <2>2. call[c] # NULL
    BY <1>3 DEF Continue, TakePin, Interrupt, Clear, ClearFails, Cleared, Commit, CommitCrashes,
           Deliver, Paste, PasteRefused, Verified, VerifiedCrashes, Refuse, At
  <2>3. f \in Effect /\ intent[f] # NULL /\ Wanted[f].slot = SlotOf(c)
    BY <2>1, <2>2, GotoMoves DEF Custody, Holds
  <2>4. CASE TakePin(c) \/ Interrupt(c) \/ Clear(c) \/ ClearFails(c) \/ Cleared(c)
    <3>1. Moves(c) /\ call'[c].pc \notin {"deliver", "paste"}
      BY <2>4, EarlyMoves
    <3>2. d = c
      BY <1>3, <3>1, MovesOne
    <3>. QED
      BY <3>1, <3>2 DEF Fenced
  <2>5. CASE Commit(c)
    <3>1. /\ Moves(c) /\ call'[c].effect = f
          /\ call'[c].pin.epoch = rows'[SlotOf(c)].epoch
      BY <2>1, <2>3, <2>5, CommitWrites
    <3>2. Owns(f)' /\ rows'[SlotOf(c)] \in Row
      BY <2>1, <2>3, <2>5, CommitTakes
    <3>3. d = c
      BY <1>3, <3>1, MovesOne
    <3>4. rows'[SlotOf(c)].epoch \in Nat
      BY <3>2 DEF Row
    <3>. QED
      BY <2>3, <3>1, <3>2, <3>3, <3>4 DEF Fenced, SlotOf, Owns
  <2>6. CASE Deliver(c)
    <3>1. Moves(c) /\ (call'[c] = NULL \/ (call'[c].effect = f /\ call'[c].pin = call[c].pin))
      BY <2>1, <2>2, <2>6, GotoMoves DEF Deliver
    <3>2. d = c /\ call[c].pc = "deliver"
      BY <1>3, <2>6, <3>1, MovesOne DEF Deliver, At
    <3>. QED
      BY <1>0, <1>3, <2>1, <2>2, <3>1, <3>2, FencedStays DEF Pins
  <2>7. CASE Paste(c)
    <3>1. Moves(c) /\ call'[c].pc = "pasted"
      BY <2>2, <2>7, GotoMoves DEF Paste
    <3>2. d = c
      BY <1>3, <3>1, MovesOne
    <3>. QED
      BY <3>1, <3>2 DEF Fenced
  <2>8. CASE PasteRefused(c) \/ Verified(c) \/ Refuse(c)
    <3>1. Moves(c) /\ call'[c] = NULL
      BY <2>2, <2>8, GotoMoves DEF PasteRefused, Verified, Refuse
    <3>. QED
      BY <1>3, <3>1, MovesOne
  <2>9. CASE CommitCrashes(c) \/ VerifiedCrashes(c)
    BY <1>3, <2>9 DEF CommitCrashes, VerifiedCrashes
  <2>. QED
    BY <1>3, <2>4, <2>5, <2>6, <2>7, <2>8, <2>9 DEF Continue
<1>4. CASE \/ \E b \in background : Projected(b)
           \/ \E s \in Slot : Others(s)
           \/ Crash
           \/ UNCHANGED allVars
  <2>1. call'[d] \in {NULL, call[d]}
    BY <1>4 DEF Projected, Others, Crash, allVars, assignVars
  <2>. QED
    BY <1>1, <2>1
<1>. QED
  BY <1>1, <1>2, <1>3, <1>4 DEF AssignNext

(* Only a paste adds to what was pasted, and a pinned one found the row at *)
(* the epoch of its pin.                                                   *)
LEMMA PinsStep ==
    ASSUME Typed, Custody, Pins, [AssignNext]_allVars
    PROVE  Pins'
<1>1. \A d \in Call : Fenced(d)'
  BY FencedStep
<1>2. CASE pasted' = pasted
  BY <1>1, <1>2 DEF Pins, PinnedPasteToOwner
<1>3. CASE pasted' # pasted
  <2>1. PICK c \in Call : Paste(c)
    BY <1>3 DEF AssignNext, allVars, assignVars, Request, Begin, Resume, Replay,
       Continue, TakePin, Interrupt, Clear, ClearFails, Cleared, Commit, CommitCrashes,
       Deliver, PasteRefused, Verified, VerifiedCrashes, Refuse, Projected, Crash, Others
  <2>2. PICK f : f = call[c].effect
    OBVIOUS
  <2>3. call[c] # NULL /\ call[c].pc = "paste"
    BY <2>1 DEF Paste, At
  <2>4. f \in Effect /\ SlotOf(c) \in Slot /\ Wanted[f].slot = SlotOf(c)
    BY <2>2, <2>3, GotoMoves
  <2>5. PICK x \in Pasted : /\ pasted' = [pasted EXCEPT ![f] = Append(pasted[f], x)]
                            /\ x.pinned => call[c].pin # NULL /\ ~Drifted(c)
                            /\ Owns(f) => x.owned
    BY <2>1, <2>2, <2>4, PasteWrites
  <2>6. x.pinned => x.owned
    <3>1. ASSUME x.pinned
          PROVE  Owns(f)
      <4>1. call[c].pin.epoch = rows[SlotOf(c)].epoch
        BY <2>4, <2>5, <3>1, PinTyped DEF Drifted
      <4>. QED
        BY <2>2, <2>3, <2>5, <3>1, <4>1 DEF Pins, Fenced
    <3>. QED
      BY <2>5, <3>1
  <2>7. pasted \in [Effect -> Seq(Pasted)]
    BY TypedParts
  <2>8. Len(pasted[f]) = 0
    BY <2>2, <2>3 DEF Custody, Holds, Sends
  <2>9. DOMAIN pasted'[f] = {1} /\ pasted'[f][1] = x
    <3>1. pasted[f] \in Seq(Pasted) /\ pasted'[f] = Append(pasted[f], x)
      BY <2>4, <2>5, <2>7
    <3>. QED
      BY <2>8, <3>1
  <2>10. \A g \in Effect \ {f} : pasted'[g] = pasted[g]
    BY <2>5, <2>7
  <2>11. PinnedPasteToOwner'
    BY <2>6, <2>9, <2>10 DEF Pins, PinnedPasteToOwner
  <2>. QED
    BY <1>1, <2>11 DEF Pins
<1>. QED
  BY <1>2, <1>3

-----------------------------------------------------------------------------
LEMMA AssignInvariant == AssignSpec => [](Typed /\ Custody /\ Pins)
<1>1. AssignInit => Typed /\ Custody
  BY AssignTypedInit, CustodyInit
<1>2. AssignInit => Pins
  BY DEF AssignInit, Pins, Fenced, PinnedPasteToOwner
<1>3. Typed /\ Custody /\ Pins /\ [AssignNext]_allVars => (Typed /\ Custody /\ Pins)'
  BY TypedStep, CustodyStep, PinsStep
<1>. QED
  BY <1>1, <1>2, <1>3, PTL DEF AssignSpec

(* The intents, the handlers, the answers and the panes are what their     *)
(* types say, through every retry, overlap and crash.                      *)
THEOREM AssignTypeCorrect == AssignSpec => []AssignTypeOK
<1>1. Typed => AssignTypeOK
  BY DEF Typed
<1>. QED
  BY <1>1, AssignInvariant, PTL

(* The task of an effect is pasted at most once, whatever is retried,      *)
(* overlaps or crashes.                                                    *)
THEOREM AssignPastedOnce == AssignSpec => []PastedOnce
<1>1. Custody => PastedOnce
  BY DEF Custody, Custodied, PastedOnce
<1>. QED
  BY <1>1, AssignInvariant, PTL

(* "assigned" is said only of an effect that has its slot on record and    *)
(* its task in a pane.                                                     *)
THEOREM AssignedIsPasted == AssignSpec => []AssignedMeansPasted
<1>1. ASSUME Typed, Custody, NEW f \in told
      PROVE  intent[f].committed # NULL /\ pasted[f] # <<>>
  <2>1. f \in Effect
    BY <1>1, TypedParts
  <2>2. Custodied(f)
    BY <1>1, <2>1 DEF Custody
  <2>. QED
    BY <1>1, <2>2 DEF Custodied
<1>2. Typed /\ Custody => AssignedMeansPasted
  BY <1>1 DEF AssignedMeansPasted
<1>. QED
  BY <1>2, AssignInvariant, PTL

(* A task fenced by a pin goes into the pane of a slot that its effect     *)
(* owns, however long the send waited and whoever took the slot meanwhile. *)
THEOREM PinnedToOwner == AssignSpec => []PinnedPasteToOwner
<1>1. Pins => PinnedPasteToOwner
  BY DEF Pins
<1>. QED
  BY <1>1, AssignInvariant, PTL

=============================================================================
