--------------------------- MODULE HookTurn_proofs ---------------------------
(***************************************************************************)
(* What holds of the hook route for every number of slots, handlers and    *)
(* commits. The handlers keep to the three kinds of writes of the slot     *)
(* table, so its promises survive them, whether or not the agent waits for *)
(* its hooks. When it does wait, a slot has one handler at a time, and two *)
(* more things follow: a guarded claim or release spares a running turn,   *)
(* and heads move forward.                                                 *)
(***************************************************************************)
EXTENDS HookTurn, SlotAuthority_proofs

(* What the handler h may still rely on, having read the row long ago: if  *)
(* the row r of its slot is still under the epoch it read, it has the      *)
(* branch and the head it had.                                             *)
Anchored(h, r) ==
    h.pc # "pr" =>
        /\ h.epoch <= r.epoch
        /\ h.epoch = r.epoch =>
              r.own # NULL /\ r.own.ref = h.ref /\ r.own.head = h.base

OneHandler ==
    \A k, l \in Hook :
        hook[k] # NULL /\ hook[l] # NULL /\ hook[k].slot = hook[l].slot => k = l

(* While a turn runs the row says which, and only the hooks of its tools   *)
(* are handled.                                                            *)
TurnKnown ==
    \A s \in Slot : pane[s].running =>
        rows[s].turn = pane[s].session /\ rows[s].turnState = "active"

ToolsOnly ==
    \A k \in Hook : hook[k] # NULL /\ pane[hook[k].slot].running
                        => hook[k].type = "PostToolUse"

(* Only a Stop waits for GitHub, and git answered before its merge-base    *)
(* was asked for.                                                          *)
Staged(h) ==
    /\ h.pc = "pr" => h.type = "Stop"
    /\ h.pc = "line" => h.head # NULL

HandlersStaged == \A k \in Hook : hook[k] # NULL => Staged(hook[k])

HandlersAnchored == \A k \in Hook : hook[k] # NULL => Anchored(hook[k], rows[hook[k].slot])

HookCore == HookTypeOK /\ OwnedIffOccupied /\ HandlersStaged

PatientInv == OneHandler /\ TurnKnown /\ ToolsOnly /\ HandlersAnchored

-----------------------------------------------------------------------------
(* What a handler makes of a row: neither its owner nor its turn changes   *)
(* before the turn is ended.                                               *)
LEMMA HandledKept ==
    ASSUME NEW r \in Row, NEW type, NEW q \in Handled(r, type)
    PROVE  /\ KeptRow(r, q)
           /\ q.own = r.own
           /\ q.turn = r.turn
           /\ q.turnState = r.turnState
<1>1. CASE type = "Stop"
  <2>1. PICK a \in Activity \cup {WaitingForPm, NULL} :
           q = [r EXCEPT !.idle = TRUE, !.activity = a]
    BY <1>1 DEF Handled, Row
  <2>2. q \in Row
    BY <2>1, Zenon DEF Row
  <2>. QED
    BY <2>1, <2>2 DEF KeptRow, Row, TurnNamed
<1>2. CASE type = "PostToolUse"
  <2>1. PICK a \in Activity \cup {WaitingForPm, NULL} :
           q = [r EXCEPT !.idle = FALSE, !.activity = a]
    BY <1>2 DEF Handled, Row
  <2>2. q \in Row
    BY <2>1, Zenon DEF Row
  <2>. QED
    BY <2>1, <2>2 DEF KeptRow, Row, TurnNamed
<1>3. CASE type \notin {"Stop", "PostToolUse"}
  <2>1. q = r
    BY <1>3 DEF Handled
  <2>. QED
    BY <2>1 DEF KeptRow
<1>. QED
  BY <1>1, <1>2, <1>3

LEMMA KeptTwice ==
    ASSUME NEW r, NEW q, NEW p, KeptRow(r, q), KeptRow(q, p), p.own = q.own
    PROVE  KeptRow(r, p)
  BY DEF KeptRow

(* A handler comes to the hook itself, with the row q it has made of the   *)
(* slot's so far.                                                          *)
LEMMA ProceedKeeps ==
    ASSUME Core, NEW k \in Hook, NEW h \in Handling, NEW q,
           KeptRow(rows[h.slot], q), Proceed(k, h, q), UNCHANGED receipts
    PROVE  /\ Keeps(h.slot)
           /\ rows'[h.slot].own = q.own
           /\ h.type # "Stop" => /\ rows'[h.slot].turn = q.turn
                                 /\ rows'[h.slot].turnState = q.turnState
           /\ \/ hook' = [hook EXCEPT ![k] = NULL]
              \/ h.type = "Stop" /\ hook' = [hook EXCEPT ![k] = [h EXCEPT !.pc = "pr"]]
<1>1. h.slot \in Slot /\ rows \in [Slot -> Row]
  BY DEF Handling, Core, TypeOK
<1>2. PICK p \in Handled(q, h.type) :
        IF h.type = "Stop" /\ AsksForPr(p)
        THEN /\ Write(h.slot, p)
             /\ hook' = [hook EXCEPT ![k] = [h EXCEPT !.pc = "pr"]]
        ELSE /\ Write(h.slot, IF h.type = "Stop" THEN AfterFinish(p, h.session) ELSE p)
             /\ hook' = [hook EXCEPT ![k] = NULL]
  BY DEF Proceed
<1>3. q \in Row
  BY DEF KeptRow
<1>4. /\ KeptRow(q, p) /\ p.own = q.own
      /\ p.turn = q.turn /\ p.turnState = q.turnState
  BY <1>3, HandledKept
<1>5. KeptRow(rows[h.slot], p)
  BY <1>4, KeptTwice
<1>6. CASE Write(h.slot, p)
  <2>1. Keeps(h.slot)
    BY <1>1, <1>5, <1>6, WriteKept
  <2>2. rows'[h.slot] = p
    BY <1>1, <1>6 DEF Write
  <2>. QED
    BY <1>2, <1>4, <2>1, <2>2
<1>7. CASE ~ Write(h.slot, p)
  <2>. DEFINE f == AfterFinish(p, h.session)
  <2>1. h.type = "Stop" /\ Write(h.slot, f) /\ hook' = [hook EXCEPT ![k] = NULL]
    BY <1>2, <1>7
  <2>2. p \in Row
    BY <1>4 DEF KeptRow
  <2>3. KeptRow(p, f) /\ f.own = p.own
    BY <2>2, FinishKept
  <2>4. KeptRow(rows[h.slot], f)
    BY <1>5, <2>3, KeptTwice
  <2>. HIDE DEF f
  <2>5. Keeps(h.slot)
    BY <1>1, <2>1, <2>4, WriteKept
  <2>6. rows'[h.slot] = f
    BY <1>1, <2>1 DEF Write
  <2>. QED
    BY <1>4, <2>1, <2>3, <2>5, <2>6
<1>. QED
  BY <1>6, <1>7

(* A hook arrives.                                                         *)
LEMMA ArriveKeeps ==
    ASSUME HookCore, NEW k \in Hook, NEW s \in Slot,
           NEW type \in {"PostToolUse", "SessionStart", "Stop"}, NEW r,
           KeptRow(rows[s], r), r.own = rows[s].own, Arrive(k, s, type, r)
    PROVE  /\ hook[k] = NULL
           /\ Keeps(s)
           /\ rows'[s].own = rows[s].own
           /\ type # "Stop" => /\ rows'[s].turn = r.turn
                               /\ rows'[s].turnState = r.turnState
           /\ \/ hook' = [hook EXCEPT ![k] = NULL]
              \/ \E h \in Handling :
                    /\ hook' = [hook EXCEPT ![k] = h]
                    /\ h.slot = s /\ h.type = type
                    /\ Staged(h) /\ Anchored(h, rows'[s])
<1>. DEFINE see == Observing(r, pane[s].session)
            h == [pc |-> "branch", slot |-> s, type |-> type,
                  session |-> pane[s].session,
                  ref |-> IF see THEN r.own.ref ELSE NULL,
                  base |-> IF see THEN r.own.head ELSE NULL,
                  epoch |-> r.epoch, head |-> NULL]
<1>1. /\ hook[k] = NULL /\ UNCHANGED receipts
      /\ IF see THEN Write(s, r) /\ hook' = [hook EXCEPT ![k] = h]
                ELSE Proceed(k, h, r)
  BY DEF Arrive
<1>2. Core /\ rows \in [Slot -> Row] /\ pane[s].session \in Turn
  BY DEF HookCore, HookTypeOK, Core, TypeOK, Pane
<1>3. r \in Row /\ r.epoch \in Nat /\ r.epoch = rows[s].epoch /\ r.occupied = rows[s].occupied
  BY DEF KeptRow, Row
<1>4. see => r.own \in Tuple /\ r.own # NULL
  BY <1>2, <1>3, NullIsNoValue DEF Observing, HookCore, OwnedIffOccupied, Row
<1>5. h \in Handling
  <2>1. (IF see THEN r.own.ref ELSE NULL) \in Branch \cup {NULL}
    BY <1>4 DEF Tuple
  <2>2. (IF see THEN r.own.head ELSE NULL) \in HeadSha \cup {NULL}
    BY <1>4 DEF Tuple
  <2>. QED
    BY <1>2, <1>3, <2>1, <2>2 DEF Handling
<1>6. h.slot = s /\ h.type = type /\ h.pc = "branch" /\ h.epoch = r.epoch
      /\ (see => h.ref = r.own.ref /\ h.base = r.own.head)
  OBVIOUS
<1>. HIDE DEF h
<1>7. CASE see
  <2>1. Keeps(s)
    BY <1>1, <1>2, <1>7, WriteKept
  <2>2. rows'[s] = r
    BY <1>1, <1>2, <1>7 DEF Write
  <2>3. Staged(h) /\ Anchored(h, rows'[s])
    BY <1>3, <1>4, <1>6, <1>7, <2>2 DEF Staged, Anchored
  <2>. QED
    BY <1>1, <1>5, <1>6, <1>7, <2>1, <2>2, <2>3
<1>8. CASE ~ see
  <2>1. /\ Keeps(s)
        /\ rows'[s].own = r.own
        /\ type # "Stop" => rows'[s].turn = r.turn /\ rows'[s].turnState = r.turnState
        /\ \/ hook' = [hook EXCEPT ![k] = NULL]
           \/ type = "Stop" /\ hook' = [hook EXCEPT ![k] = [h EXCEPT !.pc = "pr"]]
    BY <1>1, <1>2, <1>5, <1>6, <1>8, ProceedKeeps
  <2>2. /\ [h EXCEPT !.pc = "pr"] \in Handling
        /\ [h EXCEPT !.pc = "pr"].slot = s
        /\ [h EXCEPT !.pc = "pr"].type = type
        /\ [h EXCEPT !.pc = "pr"].pc = "pr"
    BY <1>5, <1>6 DEF Handling
  <2>3. type = "Stop" => Staged([h EXCEPT !.pc = "pr"]) /\ Anchored([h EXCEPT !.pc = "pr"], rows'[s])
    BY <2>2 DEF Staged, Anchored
  <2>. QED
    BY <1>1, <2>1, <2>2, <2>3
<1>. QED
  BY <1>7, <1>8

(* The head of slot s stays, is the first one seen, or moves on along the  *)
(* line of commits.                                                        *)
Advances(s) ==
    \/ rows'[s].own = rows[s].own
    \/ rows[s].own.head \in {NULL, rows'[s].own.head}
    \/ <<rows[s].own.head, rows'[s].own.head>> \in Ancestor

(* What syncSlotCheckout writes for a handler that knows the head.         *)
LEMMA SyncedKept ==
    ASSUME NEW r \in Row, NEW h, h.head \in HeadSha, r.occupied => r.own \in Tuple
    PROVE  /\ KeptRow(r, Synced(r, h))
           /\ Synced(r, h).turn = r.turn
           /\ Synced(r, h).turnState = r.turnState
           /\ \/ Synced(r, h).own = r.own
              \/ r.epoch = h.epoch /\ Synced(r, h).own.head = h.head
<1>1. CASE Synced(r, h) = r
  BY <1>1 DEF KeptRow
<1>2. CASE Synced(r, h) # r
  <2>. DEFINE own == [r.own EXCEPT !.head = h.head]
              q == [r EXCEPT !.own = own]
  <2>1. Synced(r, h) = q /\ r.occupied /\ r.epoch = h.epoch
    BY <1>2 DEF Synced
  <2>2. own \in Tuple /\ own.head = h.head
    BY <2>1, HeadMoves DEF Tuple
  <2>3. \E g \in HeadSha : own = [r.own EXCEPT !.head = g]
    OBVIOUS
  <2>. HIDE DEF own
  <2>4. q \in Row
    BY <2>2, Zenon DEF Row
  <2>5. /\ q.own = own /\ q.occupied = r.occupied /\ q.epoch = r.epoch /\ q.dnd = r.dnd
        /\ q.turn = r.turn /\ q.turnState = r.turnState
    BY DEF Row
  <2>. HIDE DEF q
  <2>6. KeptRow(r, q)
    BY <2>1, <2>3, <2>4, <2>5 DEF KeptRow, TurnNamed
  <2>. QED
    BY <2>1, <2>2, <2>5, <2>6
<1>. QED
  BY <1>1, <1>2

(* From an await of the handler of request k to its next one or its end.   *)
LEMMA HandlerKeeps ==
    ASSUME HookCore, NEW k \in Hook,
           SeeBranch(k) \/ SeeHead(k) \/ SeeLine(k) \/ SeePr(k)
    PROVE  /\ hook[k] \in Handling /\ hook[k] # NULL /\ pane' = pane
           /\ Keeps(hook[k].slot)
           /\ hook[k].type # "Stop" =>
                  /\ rows'[hook[k].slot].turn = rows[hook[k].slot].turn
                  /\ rows'[hook[k].slot].turnState = rows[hook[k].slot].turnState
           /\ Anchored(hook[k], rows[hook[k].slot]) => Advances(hook[k].slot)
           /\ \/ hook' = [hook EXCEPT ![k] = NULL]
              \/ \E n \in Handling :
                    /\ hook' = [hook EXCEPT ![k] = n]
                    /\ n.slot = hook[k].slot /\ n.type = hook[k].type
                    /\ Staged(n)
                    /\ Anchored(hook[k], rows[hook[k].slot])
                          => Anchored(n, rows'[hook[k].slot])
<1>1. /\ Core /\ rows \in [Slot -> Row] /\ pane \in [Slot -> Pane]
      /\ hook[k] \in Handling \cup {NULL}
  BY DEF HookCore, HookTypeOK, Core, TypeOK
<1>2. hook[k] # NULL
  BY DEF SeeBranch, SeeHead, SeeLine, SeePr, At
<1>3. PICK h \in Handling : h = hook[k]
  BY <1>1, <1>2
<1>4. /\ h.slot \in Slot /\ rows[h.slot] \in Row /\ Staged(h)
      /\ rows[h.slot].occupied => rows[h.slot].own \in Tuple
  BY <1>1, <1>2, <1>3 DEF Handling, HookCore, HandlersStaged, OwnedIffOccupied, Row
<1>. DEFINE r == rows[h.slot]
<1>5. KeptRow(r, r)
  BY <1>4 DEF KeptRow
<1>. DEFINE Goes == \/ hook' = [hook EXCEPT ![k] = NULL]
                    \/ \E n \in Handling :
                          /\ hook' = [hook EXCEPT ![k] = n]
                          /\ n.slot = h.slot /\ n.type = h.type /\ Staged(n)
                          /\ Anchored(h, r) => Anchored(n, rows'[h.slot])
<1>6. ASSUME NEW n \in Handling, n.slot = h.slot, n.type = h.type,
             \/ hook' = [hook EXCEPT ![k] = NULL]
             \/ h.type = "Stop" /\ hook' = [hook EXCEPT ![k] = [n EXCEPT !.pc = "pr"]]
      PROVE  Goes
  <2>1. PICK p \in Handling : p = [n EXCEPT !.pc = "pr"]
    BY DEF Handling
  <2>2. p.slot = h.slot /\ p.type = h.type /\ p.pc = "pr"
    BY <1>6, <2>1 DEF Handling
  <2>. QED
    BY <1>6, <2>1, <2>2 DEF Staged, Anchored
<1>7. CASE SeeBranch(k)
  <2>1. CASE pane[h.slot].branch = h.ref
    <3>1. /\ hook' = [hook EXCEPT ![k].pc = "head"]
          /\ UNCHANGED <<rows, receipts, pane>> /\ h.pc = "branch"
      BY <1>3, <1>7, <2>1 DEF SeeBranch, At
    <3>2. Write(h.slot, r)
      BY <1>1, <1>4, <3>1 DEF Write
    <3>3. Keeps(h.slot)
      BY <1>1, <1>4, <1>5, <3>1, <3>2, WriteKept
    <3>4. PICK n \in Handling : n = [h EXCEPT !.pc = "head"]
      BY DEF Handling
    <3>5. /\ n.slot = h.slot /\ n.type = h.type /\ Staged(n)
          /\ Anchored(h, r) => Anchored(n, r)
      BY <3>1, <3>4 DEF Handling, Staged, Anchored
    <3>6. hook' = [hook EXCEPT ![k] = n]
      BY <1>3, <3>1, <3>4
    <3>. QED
      BY <1>2, <1>3, <3>1, <3>3, <3>5, <3>6 DEF Advances
  <2>2. CASE pane[h.slot].branch # h.ref
    <3>1. Proceed(k, h, r) /\ UNCHANGED <<receipts, pane>>
      BY <1>3, <1>7, <2>2 DEF SeeBranch
    <3>. HIDE DEF r
    <3>2. /\ Keeps(h.slot) /\ rows'[h.slot].own = r.own
          /\ h.type # "Stop" => /\ rows'[h.slot].turn = r.turn
                                /\ rows'[h.slot].turnState = r.turnState
          /\ \/ hook' = [hook EXCEPT ![k] = NULL]
             \/ h.type = "Stop" /\ hook' = [hook EXCEPT ![k] = [h EXCEPT !.pc = "pr"]]
      BY <1>1, <1>5, <3>1, ProceedKeeps DEF r
    <3>. QED
      BY <1>2, <1>3, <1>6, <3>1, <3>2 DEF r, Advances
  <2>. QED
    BY <2>1, <2>2
<1>8. CASE SeeHead(k)
  <2>1. PICK g \in Handling : g = [h EXCEPT !.head = pane[h.slot].head]
    BY <1>1, <1>4 DEF Pane, Handling
  <2>2. /\ g.head \in HeadSha /\ g.slot = h.slot /\ g.type = h.type /\ g.pc = "head"
        /\ h.pc = "head" /\ g.epoch = h.epoch /\ g.base = h.base /\ g.ref = h.ref
    BY <1>1, <1>3, <1>4, <1>8, <2>1 DEF SeeHead, At, Pane, Handling
  <2>3. CASE g.base \in {NULL, g.head}
    <3>1. Proceed(k, g, Synced(r, g)) /\ UNCHANGED <<receipts, pane>>
      BY <1>3, <1>8, <2>1, <2>2, <2>3 DEF SeeHead
    <3>2. /\ KeptRow(r, Synced(r, g))
          /\ Synced(r, g).turn = r.turn /\ Synced(r, g).turnState = r.turnState
          /\ \/ Synced(r, g).own = r.own
             \/ r.epoch = g.epoch /\ Synced(r, g).own.head = g.head
      BY <1>4, <2>2, SyncedKept
    <3>. DEFINE q == Synced(r, g)
    <3>. HIDE DEF q, r
    <3>3. /\ Keeps(h.slot) /\ rows'[h.slot].own = q.own
          /\ h.type # "Stop" => rows'[h.slot].turn = q.turn /\ rows'[h.slot].turnState = q.turnState
          /\ \/ hook' = [hook EXCEPT ![k] = NULL]
             \/ h.type = "Stop" /\ hook' = [hook EXCEPT ![k] = [g EXCEPT !.pc = "pr"]]
      BY <1>1, <2>2, <3>1, <3>2, ProceedKeeps DEF q, r
    <3>4. Anchored(h, r) => Advances(h.slot)
      BY <2>2, <2>3, <3>2, <3>3 DEF q, r, Anchored, Advances
    <3>. QED
      BY <1>2, <1>3, <1>6, <2>2, <3>1, <3>2, <3>3, <3>4 DEF q, r
  <2>4. CASE g.base \notin {NULL, g.head}
    <3>1. /\ hook' = [hook EXCEPT ![k] = [g EXCEPT !.pc = "line"]]
          /\ UNCHANGED <<rows, receipts, pane>>
      BY <1>3, <1>8, <2>1, <2>2, <2>4 DEF SeeHead
    <3>2. Write(h.slot, r)
      BY <1>1, <1>4, <3>1 DEF Write
    <3>3. Keeps(h.slot)
      BY <1>1, <1>4, <1>5, <3>1, <3>2, WriteKept
    <3>4. PICK n \in Handling : n = [g EXCEPT !.pc = "line"]
      BY DEF Handling
    <3>5. /\ n.slot = h.slot /\ n.type = h.type /\ Staged(n)
          /\ Anchored(h, r) => Anchored(n, r)
      <4>1. n.head \in HeadSha /\ n.pc = "line" /\ n.slot = h.slot /\ n.type = h.type
            /\ n.epoch = h.epoch /\ n.base = h.base /\ n.ref = h.ref
        BY <2>2, <3>4 DEF Handling
      <4>. HIDE DEF r
      <4>. QED BY <2>2, <4>1, NullIsNoValue DEF Staged, Anchored
    <3>. QED
      BY <1>2, <1>3, <3>1, <3>3, <3>4, <3>5 DEF Advances
  <2>. QED
    BY <2>3, <2>4
<1>9. CASE SeeLine(k)
  <2>. DEFINE q == IF <<h.base, h.head>> \in Ancestor THEN Synced(r, h) ELSE r
  <2>1. h.pc = "line" /\ Proceed(k, h, q) /\ UNCHANGED <<receipts, pane>>
    BY <1>3, <1>9 DEF SeeLine, At
  <2>2. h.head \in HeadSha
    BY <1>4, <2>1 DEF Staged, Handling
  <2>3. /\ KeptRow(r, q) /\ q.turn = r.turn /\ q.turnState = r.turnState
        /\ \/ q.own = r.own
           \/ /\ r.epoch = h.epoch /\ q.own.head = h.head
              /\ <<h.base, h.head>> \in Ancestor
    BY <1>4, <1>5, <2>2, SyncedKept
  <2>. HIDE DEF q, r
  <2>4. /\ Keeps(h.slot) /\ rows'[h.slot].own = q.own
        /\ h.type # "Stop" => rows'[h.slot].turn = q.turn /\ rows'[h.slot].turnState = q.turnState
        /\ \/ hook' = [hook EXCEPT ![k] = NULL]
           \/ h.type = "Stop" /\ hook' = [hook EXCEPT ![k] = [h EXCEPT !.pc = "pr"]]
    BY <1>1, <2>1, <2>3, ProceedKeeps DEF r
  <2>5. Anchored(h, r) => Advances(h.slot)
    BY <2>1, <2>3, <2>4 DEF r, Anchored, Advances
  <2>. QED
    BY <1>2, <1>3, <1>6, <2>1, <2>3, <2>4, <2>5 DEF r
<1>10. CASE SeePr(k)
  <2>. DEFINE q == AfterFinish(r, h.session)
  <2>1. /\ h.pc = "pr" /\ Write(h.slot, q) /\ UNCHANGED <<receipts, pane>>
        /\ hook' = [hook EXCEPT ![k] = NULL]
    BY <1>3, <1>10 DEF SeePr, At, FinishAgentTurn
  <2>2. KeptRow(r, q) /\ q.own = r.own
    BY <1>4, FinishKept
  <2>. HIDE DEF q
  <2>3. Keeps(h.slot)
    BY <1>1, <1>4, <2>1, <2>2, WriteKept
  <2>4. rows'[h.slot] = q
    BY <1>1, <1>4, <2>1 DEF Write
  <2>. QED
    BY <1>2, <1>3, <1>4, <2>1, <2>2, <2>3, <2>4 DEF Staged, Advances
<1>. QED
  BY <1>7, <1>8, <1>9, <1>10

-----------------------------------------------------------------------------
(* The rows the agent's hooks bring to the handler.                        *)
LEMMA SubmitKeeps ==
    ASSUME HookCore, NEW s \in Slot, Submit(s)
    PROVE  /\ Keeps(s) /\ rows'[s].own = rows[s].own /\ hook' = hook
           /\ ~ pane[s].running /\ Free(s)
           /\ \E session \in Turn :
                 /\ pane' = [pane EXCEPT ![s].running = TRUE, ![s].session = session]
                 /\ rows'[s].turn = session /\ rows'[s].turnState = "active"
<1>1. Core /\ rows \in [Slot -> Row] /\ rows[s] \in Row
  BY DEF HookCore, HookTypeOK, Core, TypeOK
<1>2. PICK session \in Turn :
        /\ pane' = [pane EXCEPT ![s].running = TRUE, ![s].session = session]
        /\ Write(s, [rows[s] EXCEPT
              !.turn = session, !.turnState = "active", !.idle = FALSE, !.fresh = TRUE,
              !.activity = IF @ = WaitingForPm THEN NULL ELSE @])
  BY DEF Submit
<1>. DEFINE a == IF rows[s].activity = WaitingForPm THEN NULL ELSE rows[s].activity
            q == [rows[s] EXCEPT !.turn = session, !.turnState = "active",
                                 !.idle = FALSE, !.fresh = TRUE, !.activity = a]
<1>3. Write(s, q)
  BY <1>2
<1>4. a \in Activity \cup {WaitingForPm, NULL}
  BY <1>1 DEF Row
<1>. HIDE DEF a
<1>5. q \in Row
  BY <1>1, <1>4, Zenon DEF Row
<1>6. KeptRow(rows[s], q) /\ q.own = rows[s].own /\ q.turn = session /\ q.turnState = "active"
  BY <1>1, <1>5, NullIsNoName DEF KeptRow, Row, TurnNamed
<1>. HIDE DEF q
<1>7. Keeps(s)
  BY <1>1, <1>3, <1>6, WriteKept DEF Submit
<1>8. rows'[s] = q
  BY <1>1, <1>3 DEF Write
<1>. QED
  BY <1>2, <1>6, <1>7, <1>8 DEF Submit

LEMMA TouchedKept ==
    ASSUME NEW r \in Row, NEW i \in BOOLEAN, NEW f \in BOOLEAN
    PROVE  LET q == [r EXCEPT !.idle = i, !.fresh = f]
           IN  /\ KeptRow(r, q) /\ q.own = r.own
               /\ q.turn = r.turn /\ q.turnState = r.turnState
<1>. DEFINE q == [r EXCEPT !.idle = i, !.fresh = f]
<1>1. q \in Row
  BY Zenon DEF Row
<1>. QED
  BY <1>1 DEF KeptRow, Row, TurnNamed

LEMMA SessionEndKeeps ==
    ASSUME HookCore, NEW s \in Slot, SessionEnd(s)
    PROVE  /\ Keeps(s) /\ rows'[s].own = rows[s].own
           /\ ~ pane[s].running /\ UNCHANGED <<pane, hook>>
<1>1. Core /\ rows \in [Slot -> Row] /\ rows[s] \in Row
  BY DEF HookCore, HookTypeOK, Core, TypeOK
<1>. DEFINE q == [rows[s] EXCEPT !.idle = FALSE]
            f == AfterFinish(q, pane[s].session)
<1>2. q \in Row
  BY <1>1, Zenon DEF Row
<1>3. KeptRow(rows[s], q) /\ q.own = rows[s].own
  BY <1>1, <1>2 DEF KeptRow, Row, TurnNamed
<1>4. Write(s, f) /\ UNCHANGED receipts
  BY DEF SessionEnd
<1>. HIDE DEF q
<1>5. KeptRow(q, f) /\ f.own = q.own
  BY <1>2, FinishKept
<1>. HIDE DEF f
<1>6. KeptRow(rows[s], f)
  BY <1>3, <1>5, KeptTwice
<1>7. Keeps(s) /\ rows'[s] = f
  BY <1>1, <1>4, <1>6, WriteKept DEF Write
<1>. QED
  BY <1>3, <1>5, <1>7 DEF SessionEnd

(* A tool, a Stop and the start of a session arrive at a handler.          *)
LEMMA HookArrives ==
    ASSUME HookCore, NEW k \in Hook, NEW s \in Slot,
           Tool(k, s) \/ Stop(k, s) \/ SessionStart(k, s)
    PROVE  /\ hook[k] = NULL /\ Free(s)
           /\ Keeps(s) /\ rows'[s].own = rows[s].own
           /\ \/ pane' = pane
              \/ pane' = [pane EXCEPT ![s].running = FALSE]
           /\ pane'[s].running =>
                 /\ pane' = pane
                 /\ rows'[s].turn = rows[s].turn /\ rows'[s].turnState = rows[s].turnState
           /\ \/ hook' = [hook EXCEPT ![k] = NULL]
              \/ \E h \in Handling :
                    /\ hook' = [hook EXCEPT ![k] = h]
                    /\ h.slot = s /\ (pane'[s].running => h.type = "PostToolUse")
                    /\ Staged(h) /\ Anchored(h, rows'[s])
<1>1. rows[s] \in Row /\ pane \in [Slot -> Pane]
  BY DEF HookCore, HookTypeOK, TypeOK
<1>2. KeptRow(rows[s], rows[s])
  BY <1>1 DEF KeptRow
<1>3. CASE Tool(k, s)
  <2>. DEFINE r == [rows[s] EXCEPT !.idle = FALSE, !.fresh = TRUE]
  <2>1. /\ KeptRow(rows[s], r) /\ r.own = rows[s].own
        /\ r.turn = rows[s].turn /\ r.turnState = rows[s].turnState
    BY <1>1, TouchedKept
  <2>2. Arrive(k, s, "PostToolUse", r) /\ pane' = pane /\ Free(s)
    BY <1>3 DEF Tool
  <2>. HIDE DEF r
  <2>. QED
    BY <2>1, <2>2, ArriveKeeps
<1>4. CASE Stop(k, s)
  <2>1. /\ Arrive(k, s, "Stop", rows[s]) /\ Free(s)
        /\ pane' = [pane EXCEPT ![s].running = FALSE]
    BY <1>4 DEF Stop
  <2>2. ~ pane'[s].running
    BY <1>1, <2>1 DEF Pane
  <2>. QED
    BY <1>2, <2>1, <2>2, ArriveKeeps
<1>5. CASE SessionStart(k, s)
  <2>1. /\ Arrive(k, s, "SessionStart", rows[s]) /\ Free(s)
        /\ pane' = pane /\ ~ pane[s].running
    BY <1>5 DEF SessionStart
  <2>. QED
    BY <1>2, <2>1, ArriveKeeps
<1>. QED
  BY <1>3, <1>4, <1>5

(* The guarded callers, which write only over a row without a live turn or *)
(* beside the owner.                                                       *)
LEMMA GuardedKinds ==
    ASSUME HookCore, NEW s \in Slot, Guarded(s)
    PROVE  \/ (Grants(s) \/ Frees(s)) /\ NoLiveTurn(rows[s])
           \/ /\ Keeps(s) /\ rows'[s].own = rows[s].own
              /\ \/ ~ pane[s].running
                 \/ rows'[s].turn = rows[s].turn /\ rows'[s].turnState = rows[s].turnState
<1>1. Core /\ rows \in [Slot -> Row] /\ rows[s] \in Row
  BY DEF HookCore, HookTypeOK, Core, TypeOK
<1>2. CASE /\ rows[s].epoch < MaxEpoch
           /\ \E q \in Requests :
                 \/ \E e \in Epochs : AssignSlot(s, e, q.own, q.task, TRUE)
                 \/ \E e \in Epochs, expected \in Readable : RebindSlot(s, e, expected, q.own, NULL)
  <2>1. Claim(s)
    BY <1>2 DEF Claim
  <2>2. NoLiveTurn(rows[s])
    BY <1>2 DEF AssignSlot, RebindSlot
  <2>. QED
    BY <1>1, <2>1, <2>2, ClaimGrants
<1>3. CASE \E f \in Effect, e \in Epochs, expected \in Readable, task \in Task :
             CommitNativeNoPaneRelease(s, f, e, expected, task)
  <2>1. Release(s)
    BY <1>3, NullIsNoName DEF Release
  <2>2. NoLiveTurn(rows[s])
    BY <1>3 DEF CommitNativeNoPaneRelease
  <2>. QED
    BY <1>1, <2>1, <2>2, ReleaseFrees
<1>4. CASE ~ pane[s].running /\ AbandonTurn(s, rows[s].turn)
  <2>. DEFINE q == AfterFinish(rows[s], rows[s].turn)
  <2>1. Write(s, q) /\ UNCHANGED receipts
    BY <1>4 DEF AbandonTurn
  <2>2. KeptRow(rows[s], q) /\ q.own = rows[s].own
    BY <1>1, FinishKept
  <2>. HIDE DEF q
  <2>3. Keeps(s) /\ rows'[s] = q
    BY <1>1, <2>1, <2>2, WriteKept DEF Write
  <2>. QED
    BY <1>4, <2>2, <2>3
<1>5. CASE WorkAges(s)
  <2>. DEFINE q == [rows[s] EXCEPT !.fresh = FALSE]
  <2>1. q \in Row
    BY <1>1, Zenon DEF Row
  <2>2. /\ KeptRow(rows[s], q) /\ q.own = rows[s].own
        /\ q.turn = rows[s].turn /\ q.turnState = rows[s].turnState
    BY <1>1, <2>1 DEF KeptRow, Row, TurnNamed
  <2>3. Keeps(s) /\ rows'[s] = q
    BY <1>1, <1>5, <2>2, WriteKept DEF WorkAges, Write
  <2>. QED
    BY <2>2, <2>3
<1>. QED
  BY <1>2, <1>3, <1>4, <1>5 DEF Guarded

-----------------------------------------------------------------------------
(* Every step writes one row in one of the three kinds, or none.           *)
LEMMA HookKinds ==
    ASSUME HookCore, HookNext
    PROVE  UNCHANGED vars \/ \E s \in Slot : Kind(s)
<1>1. ASSUME NEW s \in Slot, Submit(s) \/ SessionEnd(s)
      PROVE  Kind(s)
  BY <1>1, SubmitKeeps, SessionEndKeeps DEF Kind
<1>2. ASSUME NEW s \in Slot, Checkout(s) \/ StopUnheard(s)
      PROVE  UNCHANGED vars
  BY <1>2 DEF Checkout, StopUnheard
<1>3. ASSUME NEW s \in Slot, NEW k \in Hook, Tool(k, s) \/ Stop(k, s) \/ SessionStart(k, s)
      PROVE  Kind(s)
  BY <1>3, HookArrives DEF Kind
<1>4. ASSUME NEW k \in Hook, SeeBranch(k) \/ SeeHead(k) \/ SeeLine(k) \/ SeePr(k)
      PROVE  \E s \in Slot : Kind(s)
  <2>1. hook[k] \in Handling /\ Keeps(hook[k].slot)
    BY <1>4, HandlerKeeps
  <2>. QED
    BY <2>1 DEF Handling, Kind
<1>5. CASE Restart
  BY <1>5 DEF Restart
<1>6. ASSUME NEW s \in Slot, Guarded(s)
      PROVE  Kind(s)
  BY <1>6, GuardedKinds DEF Kind
<1>. QED
  BY <1>1, <1>2, <1>3, <1>4, <1>5, <1>6 DEF HookNext

LEMMA HookCoreInit == HookInit => HookCore
<1>. SUFFICES ASSUME HookInit PROVE HookCore
  OBVIOUS
<1>1. Core
  BY CoreInit DEF HookInit
<1>2. pane \in [Slot -> Pane]
  <2>1. [session : Turn, running : {FALSE}, branch : Branch, head : HeadSha] \subseteq Pane
    BY DEF Pane
  <2>. QED
    BY <2>1 DEF HookInit
<1>. QED
  BY <1>1, <1>2 DEF HookInit, HookCore, HookTypeOK, Core, HandlersStaged

LEMMA HookCoreStep ==
    ASSUME HookCore, [HookNext]_hookVars
    PROVE  HookCore'
<1>1. Core /\ pane \in [Slot -> Pane] /\ hook \in [Hook -> Handling \cup {NULL}]
  BY DEF HookCore, HookTypeOK, Core
<1>2. Core'
  <2>1. CASE UNCHANGED vars
    BY <1>1, <2>1 DEF vars, Core, TypeOK, OwnedIffOccupied
  <2>2. CASE HookNext
    BY <1>1, <2>1, <2>2, HookKinds, CoreStep
  <2>. QED
    BY <2>1, <2>2 DEF hookVars
<1>3. pane' \in [Slot -> Pane]
  <2>1. ASSUME NEW s \in Slot, Submit(s) \/ Checkout(s) \/ StopUnheard(s) \/ SessionEnd(s)
        PROVE  pane' \in [Slot -> Pane]
    <3>1. CASE Submit(s)
      BY <1>1, <3>1 DEF Submit, Pane
    <3>2. CASE Checkout(s)
      <4>1. PICK b \in Branch, head \in HeadSha :
              pane' = [pane EXCEPT ![s].branch = b, ![s].head = head]
        BY <3>2 DEF Checkout
      <4>2. [pane[s] EXCEPT !.branch = b, !.head = head] \in Pane
        BY <1>1, Zenon DEF Pane
      <4>3. pane' = [pane EXCEPT ![s] = [pane[s] EXCEPT !.branch = b, !.head = head]]
        BY <1>1, <4>1
      <4>. QED
        BY <1>1, <4>2, <4>3
    <3>3. CASE StopUnheard(s)
      BY <1>1, <3>3 DEF StopUnheard, Pane
    <3>4. CASE SessionEnd(s)
      BY <1>1, <3>4 DEF SessionEnd
    <3>. QED
      BY <2>1, <3>1, <3>2, <3>3, <3>4
  <2>2. ASSUME NEW s \in Slot, NEW k \in Hook, Tool(k, s) \/ Stop(k, s) \/ SessionStart(k, s)
        PROVE  pane' \in [Slot -> Pane]
    <3>1. pane' = pane \/ pane' = [pane EXCEPT ![s].running = FALSE]
      BY <2>2, HookArrives
    <3>. QED
      BY <1>1, <3>1 DEF Pane
  <2>3. ASSUME NEW k \in Hook, SeeBranch(k) \/ SeeHead(k) \/ SeeLine(k) \/ SeePr(k)
        PROVE  pane' \in [Slot -> Pane]
    BY <1>1, <2>3 DEF SeeBranch, SeeHead, SeeLine, SeePr
  <2>. QED
    BY <1>1, <2>1, <2>2, <2>3 DEF HookNext, Restart, hookVars
<1>4. hook' \in [Hook -> Handling \cup {NULL}] /\ HandlersStaged'
  <2>1. ASSUME NEW k \in Hook,
               \/ hook' = [hook EXCEPT ![k] = NULL]
               \/ \E h \in Handling : hook' = [hook EXCEPT ![k] = h] /\ Staged(h)
        PROVE  hook' \in [Hook -> Handling \cup {NULL}] /\ HandlersStaged'
    BY <1>1, <2>1 DEF HookCore, HandlersStaged
  <2>2. ASSUME hook' = hook
        PROVE  hook' \in [Hook -> Handling \cup {NULL}] /\ HandlersStaged'
    BY <1>1, <2>2 DEF HookCore, HandlersStaged
  <2>3. ASSUME NEW s \in Slot, Submit(s) \/ Checkout(s) \/ StopUnheard(s) \/ SessionEnd(s)
        PROVE  hook' = hook
    BY <2>3 DEF Submit, Checkout, StopUnheard, SessionEnd
  <2>4. ASSUME NEW s \in Slot, NEW k \in Hook, Tool(k, s) \/ Stop(k, s) \/ SessionStart(k, s)
        PROVE  \/ hook' = [hook EXCEPT ![k] = NULL]
               \/ \E h \in Handling : hook' = [hook EXCEPT ![k] = h] /\ Staged(h)
    BY <2>4, HookArrives
  <2>5. ASSUME NEW k \in Hook, SeeBranch(k) \/ SeeHead(k) \/ SeeLine(k) \/ SeePr(k)
        PROVE  \/ hook' = [hook EXCEPT ![k] = NULL]
               \/ \E h \in Handling : hook' = [hook EXCEPT ![k] = h] /\ Staged(h)
    BY <2>5, HandlerKeeps
  <2>6. CASE Restart
    BY <2>6 DEF Restart, HandlersStaged
  <2>. QED
    BY <2>1, <2>2, <2>3, <2>4, <2>5, <2>6 DEF HookNext, hookVars
<1>. QED
  BY <1>2, <1>3, <1>4 DEF HookCore, HookTypeOK, Core

LEMMA HookCoreHolds == HookSpec => []HookCore
  BY HookCoreInit, HookCoreStep, PTL DEF HookSpec

LEMMA HookSteps == HookSpec => []HookCore /\ [][HookCore /\ HookNext]_hookVars
  BY HookCoreHolds, PTL DEF HookSpec

(* Rows, panes and handlers stay well typed, and a row has a tuple exactly *)
(* when it is occupied, with hooks handled in any order.                   *)
THEOREM HookTypes == HookSpec => [](HookTypeOK /\ OwnedIffOccupied)
<1>1. HookCore => HookTypeOK /\ OwnedIffOccupied
  BY DEF HookCore
<1>. QED
  BY <1>1, HookCoreHolds, PTL

(* The hook route keeps what the authority promises: one slot per lane,    *)
(* named turns, do-not-disturb and receipts, and every step of it is one   *)
(* of SlotOwnership. Impatient agents and crashes change nothing of that.  *)
THEOREM HooksKeepTheAuthority ==
    HookSpec => /\ [](LanesExclusive /\ TurnPointerConsistent)
                /\ [](DndOnlyWhileOccupied /\ EpochReleasedOnce)
                /\ ImplementsOwnership
<1>. DEFINE Inv == /\ LanesExclusive /\ TurnPointerConsistent
                   /\ DndOnlyWhileOccupied /\ EpochReleasedOnce
<1>1. HookInit => Inv
  <2>1. HookInit => \A s \in Slot : rows[s] = SeedRow
    BY DEF HookInit, Init
  <2>2. HookInit => \A f \in Effect : receipts[f] = NULL
    BY DEF HookInit, Init
  <2>. QED
    BY <2>1, <2>2 DEF SeedRow, LanesExclusive, TurnPointerConsistent,
                      DndOnlyWhileOccupied, EpochReleasedOnce
<1>2. Inv /\ [HookCore /\ HookNext]_hookVars => Inv'
  <2>1. CASE UNCHANGED vars
    BY <2>1 DEF vars, LanesExclusive, TurnPointerConsistent, DndOnlyWhileOccupied, EpochReleasedOnce
  <2>2. ASSUME Inv, HookCore, HookNext, NEW s \in Slot, Kind(s)
        PROVE  Inv'
    <3>1. Core
      BY <2>2 DEF HookCore, HookTypeOK, Core
    <3>. QED
      BY <2>2, <3>1, LanesKept, TurnsKept, DndKept, EpochsKept
  <2>. QED
    BY <2>1, <2>2, HookKinds DEF hookVars
<1>3. HookInit => Ownership!Init
  BY DEF HookInit, Init, Ownership!Init, SeedRow, OwnerOf
<1>4. Inv /\ [HookCore /\ HookNext]_hookVars => [Ownership!Next]_(Ownership!vars)
  <2>1. CASE UNCHANGED vars
    BY <2>1 DEF vars, Ownership!vars
  <2>2. ASSUME Inv, HookCore, HookNext, NEW s \in Slot, Kind(s)
        PROVE  [Ownership!Next]_(Ownership!vars)
    <3>1. Core
      BY <2>2 DEF HookCore, HookTypeOK, Core
    <3>. QED
      BY <2>2, <3>1, KindImplements
  <2>. QED
    BY <2>1, <2>2, HookKinds DEF hookVars
<1>5. Inv => /\ LanesExclusive /\ TurnPointerConsistent
             /\ DndOnlyWhileOccupied /\ EpochReleasedOnce
  OBVIOUS
<1>. HIDE DEF Inv
<1>6. HookSpec => []Inv
  BY <1>1, <1>2, HookSteps, PTL DEF HookSpec
<1>. QED
  BY <1>3, <1>4, <1>5, <1>6, HookSteps, PTL DEF HookSpec, ImplementsOwnership, Ownership!Spec

-----------------------------------------------------------------------------
(* A patient agent: one handler per slot. What a step does to one slot,    *)
(* its agent and its handler is all there is to look at.                   *)
LEMMA OneSlotMoves ==
    ASSUME HookCore, HookCore', PatientInv, NEW s \in Slot,
           \A o \in Slot \ {s} : rows'[o] = rows[o] /\ pane'[o] = pane[o],
           pane'[s].running => /\ rows'[s].turn = pane'[s].session
                               /\ rows'[s].turnState = "active",
           \A k \in Hook : hook'[k] # NULL =>
              \/ hook'[k] = hook[k] /\ hook[k].slot # s
              \/ /\ hook'[k].slot = s /\ Anchored(hook'[k], rows'[s])
                 /\ pane'[s].running => hook'[k].type = "PostToolUse",
           \A k, l \in Hook :
              /\ hook'[k] # NULL /\ hook'[k].slot = s
              /\ hook'[l] # NULL /\ hook'[l].slot = s
              => k = l
    PROVE  PatientInv'
<1>1. \A k \in Hook : hook[k] # NULL => hook[k].slot \in Slot
  BY DEF HookCore, HookTypeOK, Handling
<1>2. OneHandler'
  BY <1>1 DEF PatientInv, OneHandler
<1>3. TurnKnown'
  BY DEF PatientInv, TurnKnown
<1>4. ToolsOnly'
  BY <1>1 DEF PatientInv, ToolsOnly
<1>5. HandlersAnchored'
  BY <1>1 DEF PatientInv, HandlersAnchored
<1>. QED
  BY <1>2, <1>3, <1>4, <1>5 DEF PatientInv

(* A handler's claim on the row survives whatever leaves the owner alone   *)
(* or takes a new epoch.                                                   *)
LEMMA AnchorHolds ==
    ASSUME NEW h \in Handling, NEW r \in Row, NEW q \in Row, Anchored(h, r),
           \/ q.epoch = r.epoch /\ q.own = r.own
           \/ q.epoch = r.epoch + 1
    PROVE  Anchored(h, q)
  BY DEF Anchored, Handling, Row

LEMMA OtherRows ==
    ASSUME HookCore, NEW s \in Slot, Kind(s)
    PROVE  /\ rows \in [Slot -> Row] /\ rows[s] \in Row /\ rows'[s] \in Row
           /\ \A o \in Slot \ {s} : rows'[o] = rows[o]
           /\ Keeps(s) => rows'[s].epoch = rows[s].epoch
           /\ Grants(s) \/ Frees(s) => rows'[s].epoch = rows[s].epoch + 1
  BY DEF HookCore, HookTypeOK, TypeOK, Kind, Keeps, Grants, Frees, RowStep

(* What the two action properties say of slot s.                           *)
Spared(s) == rows'[s].epoch # rows[s].epoch => ~ pane[s].running

Advanced(s) ==
    /\ rows[s].own # NULL /\ rows'[s].epoch = rows[s].epoch
    /\ rows[s].own.head \notin {NULL, rows'[s].own.head}
    => <<rows[s].own.head, rows'[s].own.head>> \in Ancestor

LEMMA PatientStep ==
    ASSUME Patient, HookCore, PatientInv, HookNext
    PROVE  PatientInv' /\ \A s \in Slot : Spared(s) /\ Advanced(s)
<1>1. /\ HookCore' /\ pane \in [Slot -> Pane] /\ hook \in [Hook -> Handling \cup {NULL}]
      /\ rows \in [Slot -> Row]
  BY HookCoreStep DEF HookCore, HookTypeOK, TypeOK
<1>2. \A s \in Slot : Free(s) => \A k \in Hook : hook[k] # NULL => hook[k].slot # s
  BY DEF Free, Handlers
<1>3. ASSUME UNCHANGED vars
      PROVE  \A s \in Slot : Spared(s) /\ Advanced(s)
  BY <1>3 DEF vars, Spared, Advanced
<1>4. ASSUME NEW s \in Slot, Keeps(s), Advances(s)
      PROVE  \A o \in Slot : Spared(o) /\ Advanced(o)
  <2>1. \A o \in Slot \ {s} : rows'[o] = rows[o]
    BY <1>4, OtherRows DEF Kind
  <2>2. \A o \in Slot \ {s} : Spared(o) /\ Advanced(o)
    BY <2>1 DEF Spared, Advanced
  <2>3. Spared(s) /\ Advanced(s)
    BY <1>4 DEF Keeps, Advances, Spared, Advanced
  <2>. QED
    BY <2>2, <2>3
<1>5. ASSUME NEW s \in Slot, Submit(s)
      PROVE  PatientInv' /\ \A o \in Slot : Spared(o) /\ Advanced(o)
  <2>1. PICK session \in Turn :
          /\ pane' = [pane EXCEPT ![s].running = TRUE, ![s].session = session]
          /\ rows'[s].turn = session /\ rows'[s].turnState = "active"
    BY <1>5, SubmitKeeps
  <2>2. Keeps(s) /\ rows'[s].own = rows[s].own /\ hook' = hook /\ Free(s)
    BY <1>5, SubmitKeeps
  <2>3. /\ \A o \in Slot \ {s} : rows'[o] = rows[o] /\ pane'[o] = pane[o]
        /\ pane'[s].session = session
    BY <1>1, <2>1, <2>2, OtherRows DEF Kind, Pane
  <2>4. PatientInv'
    BY <1>1, <1>2, <2>1, <2>2, <2>3, OneSlotMoves
  <2>. QED
    BY <1>4, <2>2, <2>4 DEF Advances
<1>6. ASSUME NEW s \in Slot, Checkout(s) \/ StopUnheard(s)
      PROVE  PatientInv' /\ \A o \in Slot : Spared(o) /\ Advanced(o)
  <2>1. UNCHANGED vars /\ hook' = hook /\ rows' = rows
    BY <1>6 DEF Checkout, StopUnheard, vars
  <2>2. /\ \A o \in Slot \ {s} : pane'[o] = pane[o]
        /\ pane'[s].running => pane[s].running /\ pane'[s].session = pane[s].session
    <3>1. CASE Checkout(s)
      <4>1. PICK b \in Branch, head \in HeadSha :
              pane' = [pane EXCEPT ![s].branch = b, ![s].head = head]
        BY <3>1 DEF Checkout
      <4>. QED BY <1>1, <3>1, <4>1 DEF Checkout, Pane
    <3>2. CASE StopUnheard(s)
      BY <1>1, <3>2 DEF StopUnheard, Pane
    <3>. QED BY <1>6, <3>1, <3>2
  <2>3. PatientInv'
    BY <1>1, <1>2, <1>6, <2>1, <2>2, OneSlotMoves
       DEF Checkout, StopUnheard, PatientInv, TurnKnown
  <2>. QED
    BY <1>3, <2>1, <2>3
<1>7. ASSUME NEW s \in Slot, SessionEnd(s)
      PROVE  PatientInv' /\ \A o \in Slot : Spared(o) /\ Advanced(o)
  <2>1. /\ Keeps(s) /\ rows'[s].own = rows[s].own
        /\ ~ pane[s].running /\ UNCHANGED <<pane, hook>> /\ Free(s)
    BY <1>7, SessionEndKeeps DEF SessionEnd
  <2>2. \A o \in Slot \ {s} : rows'[o] = rows[o]
    BY <2>1, OtherRows DEF Kind
  <2>3. PatientInv'
    BY <1>1, <1>2, <2>1, <2>2, OneSlotMoves
  <2>. QED
    BY <1>4, <2>1, <2>3 DEF Advances
<1>8. ASSUME NEW s \in Slot, NEW k \in Hook, Tool(k, s) \/ Stop(k, s) \/ SessionStart(k, s)
      PROVE  PatientInv' /\ \A o \in Slot : Spared(o) /\ Advanced(o)
  <2>1. /\ hook[k] = NULL /\ Free(s) /\ Keeps(s) /\ rows'[s].own = rows[s].own
        /\ \/ pane' = pane
           \/ pane' = [pane EXCEPT ![s].running = FALSE]
        /\ pane'[s].running =>
              /\ pane' = pane
              /\ rows'[s].turn = rows[s].turn /\ rows'[s].turnState = rows[s].turnState
        /\ \/ hook' = [hook EXCEPT ![k] = NULL]
           \/ \E h \in Handling :
                 /\ hook' = [hook EXCEPT ![k] = h]
                 /\ h.slot = s /\ (pane'[s].running => h.type = "PostToolUse")
                 /\ Anchored(h, rows'[s])
    BY <1>8, HookArrives
  <2>2. \A o \in Slot \ {s} : rows'[o] = rows[o] /\ pane'[o] = pane[o]
    BY <1>1, <2>1, OtherRows DEF Kind
  <2>3. pane'[s].running => /\ rows'[s].turn = pane'[s].session
                            /\ rows'[s].turnState = "active"
    BY <2>1 DEF PatientInv, TurnKnown
  <2>4. /\ \A l \in Hook \ {k} : hook'[l] = hook[l]
        /\ hook'[k] # NULL => /\ hook'[k].slot = s /\ Anchored(hook'[k], rows'[s])
                              /\ pane'[s].running => hook'[k].type = "PostToolUse"
    BY <1>1, <2>1
  <2>5. PatientInv'
    BY <1>1, <1>2, <2>1, <2>2, <2>3, <2>4, OneSlotMoves
  <2>. QED
    BY <1>4, <2>1, <2>5 DEF Advances
<1>9. ASSUME NEW k \in Hook, SeeBranch(k) \/ SeeHead(k) \/ SeeLine(k) \/ SeePr(k)
      PROVE  PatientInv' /\ \A o \in Slot : Spared(o) /\ Advanced(o)
  <2>1. PICK s \in Slot : s = hook[k].slot
    BY <1>9, HandlerKeeps DEF Handling
  <2>2. /\ hook[k] # NULL /\ pane' = pane /\ Keeps(s)
        /\ hook[k].type # "Stop" => /\ rows'[s].turn = rows[s].turn
                                    /\ rows'[s].turnState = rows[s].turnState
        /\ Anchored(hook[k], rows[s]) => Advances(s)
        /\ \/ hook' = [hook EXCEPT ![k] = NULL]
           \/ \E n \in Handling :
                 /\ hook' = [hook EXCEPT ![k] = n]
                 /\ n.slot = s /\ n.type = hook[k].type
                 /\ Anchored(hook[k], rows[s]) => Anchored(n, rows'[s])
    BY <1>9, <2>1, HandlerKeeps
  <2>3. /\ Anchored(hook[k], rows[s])
        /\ pane[s].running => hook[k].type = "PostToolUse"
        /\ \A l \in Hook \ {k} : hook[l] # NULL => hook[l].slot # s
    BY <2>1, <2>2 DEF PatientInv, HandlersAnchored, ToolsOnly, OneHandler
  <2>4. \A o \in Slot \ {s} : rows'[o] = rows[o]
    BY <2>2, OtherRows DEF Kind
  <2>5. /\ \A l \in Hook \ {k} : hook'[l] = hook[l]
        /\ hook'[k] # NULL => /\ hook'[k].slot = s /\ Anchored(hook'[k], rows'[s])
                              /\ pane[s].running => hook'[k].type = "PostToolUse"
    BY <1>1, <2>2, <2>3
  <2>6. pane'[s].running => /\ rows'[s].turn = pane'[s].session
                            /\ rows'[s].turnState = "active"
    BY <2>2, <2>3 DEF PatientInv, TurnKnown
  <2>7. PatientInv'
    BY <1>1, <2>2, <2>3, <2>4, <2>5, <2>6, OneSlotMoves
  <2>. QED
    BY <1>4, <2>2, <2>3, <2>7
<1>10. CASE Restart
  <2>1. UNCHANGED <<vars, pane>> /\ hook' = [k \in Hook |-> NULL]
    BY <1>10 DEF Restart
  <2>2. PatientInv'
    BY <2>1 DEF vars, PatientInv, OneHandler, TurnKnown, ToolsOnly, HandlersAnchored
  <2>. QED
    BY <1>3, <2>1, <2>2
<1>11. ASSUME NEW s \in Slot, Guarded(s) /\ UNCHANGED <<pane, hook>>
       PROVE  PatientInv' /\ \A o \in Slot : Spared(o) /\ Advanced(o)
  <2>1. /\ \/ (Grants(s) \/ Frees(s)) /\ NoLiveTurn(rows[s])
           \/ /\ Keeps(s) /\ rows'[s].own = rows[s].own
              /\ \/ ~ pane[s].running
                 \/ rows'[s].turn = rows[s].turn /\ rows'[s].turnState = rows[s].turnState
        /\ pane' = pane /\ hook' = hook
    BY <1>11, GuardedKinds
  <2>2. /\ rows[s] \in Row /\ rows'[s] \in Row
        /\ \A o \in Slot \ {s} : rows'[o] = rows[o]
        /\ \/ rows'[s].epoch = rows[s].epoch /\ rows'[s].own = rows[s].own
           \/ rows'[s].epoch = rows[s].epoch + 1
    BY <2>1, OtherRows DEF Kind
  <2>3. NoLiveTurn(rows[s]) => ~ pane[s].running
    BY DEF NoLiveTurn, PatientInv, TurnKnown
  <2>4. pane'[s].running => /\ rows'[s].turn = pane'[s].session
                            /\ rows'[s].turnState = "active"
    BY <2>1, <2>3 DEF PatientInv, TurnKnown
  <2>5. ASSUME NEW k \in Hook, hook[k] # NULL, hook[k].slot = s
        PROVE  /\ Anchored(hook[k], rows'[s])
               /\ pane[s].running => hook[k].type = "PostToolUse"
    <3>1. Anchored(hook[k], rows[s]) /\ hook[k] \in Handling
      BY <1>1, <2>5 DEF PatientInv, HandlersAnchored
    <3>. QED
      BY <2>2, <2>5, <3>1, AnchorHolds DEF PatientInv, ToolsOnly
  <2>6. PatientInv'
    BY <1>1, <2>1, <2>2, <2>4, <2>5, OneSlotMoves DEF PatientInv, OneHandler
  <2>7. ASSUME Grants(s) \/ Frees(s), ~ pane[s].running
        PROVE  \A o \in Slot : Spared(o) /\ Advanced(o)
    <3>1. rows'[s].epoch # rows[s].epoch
      BY <2>2, <2>7, OtherRows DEF Kind, Row
    <3>. QED
      BY <2>2, <2>7, <3>1 DEF Spared, Advanced
  <2>. QED
    BY <1>4, <2>1, <2>3, <2>6, <2>7 DEF Advances
<1>. QED
  BY <1>5, <1>6, <1>7, <1>8, <1>9, <1>10, <1>11 DEF HookNext

LEMMA PatientInit == HookInit => PatientInv
<1>. SUFFICES ASSUME HookInit PROVE PatientInv
  OBVIOUS
<1>1. \A s \in Slot : ~ pane[s].running
  BY DEF HookInit
<1>2. \A k \in Hook : hook[k] = NULL
  BY DEF HookInit
<1>. QED
  BY <1>1, <1>2 DEF PatientInv, OneHandler, TurnKnown, ToolsOnly, HandlersAnchored

LEMMA PatientHolds ==
    ASSUME Patient
    PROVE  HookSpec => [][HookCore /\ PatientInv /\ HookNext]_hookVars
<1>1. PatientInv /\ [HookCore /\ HookNext]_hookVars => PatientInv'
  <2>1. CASE UNCHANGED hookVars
    BY <2>1 DEF hookVars, vars, PatientInv, OneHandler, TurnKnown, ToolsOnly, HandlersAnchored
  <2>. QED
    BY <2>1, PatientStep
<1>. QED
  BY <1>1, PatientInit, HookSteps, PTL DEF HookSpec

(* While the agent waits for its hooks, no guarded claim, rebind or        *)
(* release changes the owner of a slot in the middle of a turn: the row    *)
(* knows of the turn from its prompt on until the agent itself ends it.    *)
THEOREM TurnsAreSpared ==
    ASSUME Patient
    PROVE  HookSpec => RunningTurnSpared
<1>1. [HookCore /\ PatientInv /\ HookNext]_hookVars
        => [\A s \in Slot : rows'[s].epoch # rows[s].epoch => ~ pane[s].running]_hookVars
  BY PatientStep DEF Spared
<1>. QED
  BY <1>1, PatientHolds, PTL DEF RunningTurnSpared

(* Within one ownership the head moves along the line of commits: when the *)
(* handler writes, the row still has the head it compared with.            *)
THEOREM HeadsAdvance ==
    ASSUME Patient
    PROVE  HookSpec => HeadAdvances
<1>1. [HookCore /\ PatientInv /\ HookNext]_hookVars
        => [\A s \in Slot :
              /\ rows[s].own # NULL /\ rows'[s].epoch = rows[s].epoch
              /\ rows[s].own.head \notin {NULL, rows'[s].own.head}
              => <<rows[s].own.head, rows'[s].own.head>> \in Ancestor]_hookVars
  BY PatientStep DEF Advanced
<1>. QED
  BY <1>1, PatientHolds, PTL DEF HeadAdvances

=============================================================================
