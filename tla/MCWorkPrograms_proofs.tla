------------------------ MODULE MCWorkPrograms_proofs ------------------------
(* Proofs about the programs that carry work, for every value of their      *)
(* constants.  Each program is first shown to keep an invariant of its own; *)
(* the theorems at the end put the programs together.                       *)
EXTENDS MCWorkPrograms, TLAPS, SequenceTheorems, FiniteSetTheorems, WellFoundedInduction

-----------------------------------------------------------------------------
(* The manager's queue of events (PMQueue).                                 *)

LEMMA QueueInit == PQ!QueueInit => PQ!QueueInv
<1> SUFFICES ASSUME PQ!QueueInit PROVE PQ!QueueInv
  OBVIOUS
<1> USE QueueAssumption
<1>1. PQ!QueueShape
  <2>1. chain \in Seq(PQ!QueuedJob)
    BY DEF PQ!QueueInit
  <2>2. tick \in [of : {"none", "cadence", "reminder"}, heard : {"nothing", "ok", "refused"}]
    BY DEF PQ!QueueInit, PQ!NoTick
  <2>3. last = 0 /\ queueRows \in [PQ!Types -> 0 .. last]
    BY DEF PQ!QueueInit
  <2>4. job = NULL /\ \A n \in PQ!Types : queueRows[n] = 0
    BY DEF PQ!QueueInit
  <2>5. /\ type \in [PQ!Stamp -> PQ!Types \cup {NULL}] /\ \A n \in PQ!Stamp : type[n] = NULL
        /\ queueMark \in [PQ!Stamp -> PQ!Marks] /\ pasted \in [PQ!Stamp -> Nat] /\ due \in BOOLEAN
    BY DEF PQ!QueueInit, PQ!Marks
  <2> QED BY <2>1, <2>2, <2>3, <2>4, <2>5 DEF PQ!QueueShape, PQ!Running
<1>2. PQ!AttemptsJournalled
  BY DEF PQ!QueueInit, PQ!AttemptsJournalled, PQ!Stamp, PQ!Running
<1>3. PQ!OneTickJob
  BY DEF PQ!QueueInit, PQ!OneTickJob, PQ!Running
<1>4. PQ!OneCadenceRow
  <2>1. tick # [of |-> "cadence", heard |-> "ok"]
    BY DEF PQ!QueueInit, PQ!NoTick
  <2> QED BY <2>1 DEF PQ!QueueInit, PQ!OneCadenceRow, PQ!Stamp
<1> QED BY <1>1, <1>2, <1>3, <1>4 DEF PQ!QueueInv

(* A row that is deleted by its stamp is the one that was written with it.  *)
LEMMA WithoutKeeps ==
  ASSUME PQ!QueueShape, NEW n
  PROVE  /\ PQ!Without(n) \in [PQ!Types -> 0 .. last]
         /\ \A t \in PQ!Types :
              PQ!Without(n)[t] = queueRows[t]
                \/ (PQ!Without(n)[t] = 0 /\ queueRows[t] = n /\ type[n] = t /\ n \in 1 .. last)
<1>1. PICK S : S = 0 .. last
  OBVIOUS
<1>2. PICK T : T = PQ!Types
  OBVIOUS
<1>3. queueRows \in [T -> S] /\ 0 \in S /\ \A x \in S : x = 0 \/ x \in 1 .. last
  BY <1>1, <1>2, QueueAssumption DEF PQ!QueueShape
<1>4. PICK k : k = type[n]
  OBVIOUS
<1>5. PICK w : w = PQ!Without(n)
  OBVIOUS
<1>6. w = IF queueRows[k] = n THEN [queueRows EXCEPT ![k] = 0] ELSE queueRows
  BY <1>4, <1>5 DEF PQ!Without
<1>7. w \in [T -> S] /\ \A t \in T : w[t] = queueRows[t]
                      \/ (w[t] = 0 /\ queueRows[t] = n /\ k = t /\ n \in 1 .. last)
  <2>1. CASE queueRows[k] # n
    BY <1>3, <1>6, <2>1
  <2>2. CASE queueRows[k] = n /\ k \in T
    <3>1. w = [queueRows EXCEPT ![k] = 0] /\ n \in S
      BY <1>3, <1>6, <2>2
    <3>2. w \in [T -> S] /\ \A t \in T : w[t] = IF t = k THEN 0 ELSE queueRows[t]
      BY <1>3, <3>1
    <3>3. n = 0 \/ n \in 1 .. last
      BY <1>3, <3>1
    <3> QED BY <2>2, <3>2, <3>3
  <2>3. CASE queueRows[k] = n /\ k \notin T
    <3>1. w = [queueRows EXCEPT ![k] = 0]
      BY <1>6, <2>3
    <3> QED BY <1>3, <2>3, <3>1
  <2> QED BY <2>1, <2>2, <2>3
<1> QED BY <1>1, <1>2, <1>4, <1>5, <1>7

LEMMA DeliverQueued ==
  ASSUME NEW n \in PQ!Stamp, NEW b \in BOOLEAN
  PROVE  PQ!Deliver(n, b) \in PQ!QueuedJob /\ PQ!Deliver(n, b).tick = b /\ PQ!Deliver(n, b).at = n
           /\ PQ!Deliver(n, b).kind = "deliver"
<1>1. PQ!Deliver(n, b) \in PQ!QueuedJob
  BY DEF PQ!QueuedJob
<1> QED BY <1>1 DEF PQ!Deliver

(* What a new row adds. *)
LEMMA EnqueueKeeps ==
  ASSUME PQ!QueueShape, NEW t \in PQ!Types, NEW r \in [PQ!Types -> 0 .. last],
         \A u \in PQ!Types : r[u] \in {queueRows[u], 0}, PQ!Enqueue(t, r)
  PROVE  /\ last' = last + 1 /\ last' \in 1 .. MaxStamp /\ queueRows' \in [PQ!Types -> 0 .. last']
         /\ type' \in [PQ!Stamp -> PQ!Types \cup {NULL}]
         /\ \A n \in PQ!Stamp : n > last' => type'[n] = NULL
         /\ \A n \in PQ!Stamp : n # last' => type'[n] = type[n]
         /\ type[last'] = NULL /\ type'[last'] = t /\ queueRows'[t] = last'
         /\ \A u \in PQ!Types : u # t => queueRows'[u] = r[u]
         /\ \A u \in PQ!Types : queueRows'[u] # 0 => type'[queueRows'[u]] = u
<1> USE QueueAssumption DEF PQ!QueueShape, PQ!Enqueue, PQ!Stamp
<1>1. /\ last' = last + 1 /\ last' \in 1 .. MaxStamp /\ queueRows' \in [PQ!Types -> 0 .. last']
      /\ type' \in [PQ!Stamp -> PQ!Types \cup {NULL}]
  OBVIOUS
<1>2. /\ \A n \in PQ!Stamp : n > last' => type'[n] = NULL
      /\ \A n \in PQ!Stamp : n # last' => type'[n] = type[n]
      /\ type[last'] = NULL /\ type'[last'] = t /\ queueRows'[t] = last'
      /\ \A u \in PQ!Types : u # t => queueRows'[u] = r[u]
  OBVIOUS
<1>3. ASSUME NEW u \in PQ!Types, queueRows'[u] # 0 PROVE type'[queueRows'[u]] = u
  <2>1. CASE u = t
    BY <1>2, <2>1
  <2>2. CASE u # t
    <3>1. queueRows'[u] = queueRows[u] /\ queueRows[u] \in 1 .. last /\ type[queueRows[u]] = u
      BY <1>2, <1>3, <2>2
    <3> QED BY <1>1, <1>2, <3>1
  <2> QED BY <2>1, <2>2
<1> QED BY <1>1, <1>2, <1>3

(* The chain after a push. *)
LEMMA PushKeeps ==
  ASSUME PQ!QueueShape, NEW j \in PQ!QueuedJob, PQ!Push(j)
  PROVE  /\ chain' \in Seq(PQ!QueuedJob) /\ DOMAIN chain' = 1 .. Len(chain) + 1
         /\ DOMAIN chain = 1 .. Len(chain) /\ Len(chain) \in Nat
         /\ \A i \in DOMAIN chain : chain'[i] = chain[i]
         /\ chain'[Len(chain) + 1] = j
BY DEF PQ!QueueShape, PQ!Push

LEMMA QuietPush ==
  ASSUME PQ!QueueShape, PQ!OneTickJob, job' = job, tick' = tick, last' \in Nat, last' >= last,
         \A n \in 1 .. last : type'[n] = type[n],
         \/ chain' = chain
         \/ \E j \in PQ!QueuedJob : ~j.tick /\ PQ!Push(j)
  PROVE  PQ!OneTickJob'
<1>1. \A j : PQ!TickJob(j) => PQ!TickJob(j)'
  BY QueueAssumption DEF PQ!TickJob, PQ!QueueShape
<1>2. CASE chain' = chain
  BY <1>1, <1>2 DEF PQ!OneTickJob, PQ!Running
<1>3. ASSUME NEW j \in PQ!QueuedJob, ~j.tick, PQ!Push(j) PROVE PQ!OneTickJob'
  <2>1. \A i \in DOMAIN chain' : chain'[i].tick => i \in DOMAIN chain /\ chain'[i] = chain[i]
    BY <1>3, PushKeeps
  <2> QED BY <1>1, <2>1 DEF PQ!OneTickJob, PQ!Running
<1> QED BY <1>2, <1>3

LEMMA TickPush ==
  ASSUME PQ!QueueShape, PQ!OneTickJob, job' = job, tick = PQ!NoTick,
         NEW t \in {"cadence", "reminder"}, tick' = [of |-> t, heard |-> "nothing"],
         NEW n \in PQ!Stamp, n \in 1 .. last', type'[n] = t, PQ!Push(PQ!Deliver(n, TRUE))
  PROVE  PQ!OneTickJob'
<1>1. \A j : ~PQ!TickJob(j)
  BY DEF PQ!TickJob, PQ!NoTick
<1>2. ~(PQ!Running /\ job.tick) /\ \A i \in DOMAIN chain : ~chain[i].tick
  BY <1>1 DEF PQ!OneTickJob
<1>3. /\ DOMAIN chain' = 1 .. Len(chain) + 1 /\ DOMAIN chain = 1 .. Len(chain)
      /\ \A i \in DOMAIN chain : chain'[i] = chain[i]
      /\ chain'[Len(chain) + 1] = PQ!Deliver(n, TRUE) /\ Len(chain) \in Nat
  <2>1. PQ!Deliver(n, TRUE) \in PQ!QueuedJob
    BY DeliverQueued
  <2> QED BY <2>1, PushKeeps
<1>4. ASSUME NEW i \in DOMAIN chain', chain'[i].tick
      PROVE  i = Len(chain) + 1 /\ chain'[i] = PQ!Deliver(n, TRUE)
  <2>1. i \notin DOMAIN chain
    BY <1>2, <1>3, <1>4
  <2>2. i \in 1 .. Len(chain) + 1 /\ i \notin 1 .. Len(chain) /\ Len(chain) \in Nat
    BY <1>3, <1>4, <2>1
  <2>3. i = Len(chain) + 1
    BY <2>2
  <2> QED BY <1>3, <2>3
<1>5. PQ!TickJob(PQ!Deliver(n, TRUE))'
  BY DEF PQ!TickJob, PQ!Deliver
<1> QED BY <1>2, <1>4, <1>5 DEF PQ!OneTickJob, PQ!Running

(* While no job moves, the journal speaks of the same rows.                 *)
LEMMA JournalFrame ==
  ASSUME PQ!QueueShape, PQ!AttemptsJournalled, job' = job, queueMark' = queueMark, pasted' = pasted,
         \A n \in 1 .. last : type'[n] = type[n]
  PROVE  PQ!AttemptsJournalled'
<1>1. PQ!Running /\ job.at \in PQ!Stamp /\ job.pc = "look" => type'[job.at] = "check"
  <2>1. ASSUME PQ!Running, job.at \in PQ!Stamp, job.pc = "look" PROVE job.at \in 1 .. last
    BY <2>1, QueueAssumption DEF PQ!AttemptsJournalled, PQ!QueueShape, PQ!Stamp
  <2> QED BY <2>1 DEF PQ!AttemptsJournalled
<1> QED BY <1>1 DEF PQ!AttemptsJournalled, PQ!Running

(* A submit of the tick for the cadence, or of anything else.               *)
LEMMA SubmitKeeps ==
  ASSUME PQ!QueueInv, NEW t \in PQ!Types, NEW same \in BOOLEAN, NEW isTick \in BOOLEAN,
         PQ!Submit(t, same, isTick), job' = job, queueMark' = queueMark, pasted' = pasted,
         due' = due, isTick => tick = PQ!NoTick /\ t \in {"cadence", "reminder"},
         t = "cadence" => isTick /\ same /\ PQ!Undelivered
  PROVE  PQ!QueueInv' /\ PQ!RowsKeptStep
<1> USE QueueAssumption
<1>0. PQ!QueueShape /\ PQ!AttemptsJournalled /\ PQ!OneTickJob /\ PQ!OneCadenceRow
  BY DEF PQ!QueueInv
<1>1. /\ last \in 0 .. MaxStamp /\ queueRows \in [PQ!Types -> 0 .. last]
      /\ \A u \in PQ!Types : queueRows[u] # 0 => queueRows[u] \in 1 .. last /\ queueRows[u] \in PQ!Stamp
                                                /\ type[queueRows[u]] = u
  BY <1>0 DEF PQ!QueueShape, PQ!Stamp
<1>2. CASE queueRows[t] # 0 /\ same /\ PQ!Blocking(queueMark[queueRows[t]])
  <2>1. /\ queueRows' = (IF queueMark[queueRows[t]] = "delivered" THEN [queueRows EXCEPT ![t] = 0]
                         ELSE queueRows)
        /\ tick' = (IF isTick THEN [of |-> t, heard |->
                       IF queueMark[queueRows[t]] = "delivered" THEN "ok" ELSE "refused"] ELSE tick)
        /\ type' = type /\ last' = last /\ chain' = chain
    BY <1>2 DEF PQ!Submit
  <2>2. queueRows' \in [PQ!Types -> 0 .. last] /\ \A u \in PQ!Types : queueRows'[u] = queueRows[u]
                            \/ (u = t /\ queueRows'[u] = 0 /\ queueMark[queueRows[t]] = "delivered")
    BY <1>1, <2>1
  <2>3. tick' \in [of : {"none", "cadence", "reminder"}, heard : {"nothing", "ok", "refused"}]
    BY <1>0, <2>1 DEF PQ!QueueShape
  <2>4. PQ!QueueShape'
    BY <1>0, <2>1, <2>2, <2>3 DEF PQ!QueueShape, PQ!Running
  <2>5. PQ!AttemptsJournalled'
    BY <1>0, <2>1, JournalFrame
  <2>6. PQ!OneTickJob'
    <3>1. CASE isTick
      <4>1. \A j : ~PQ!TickJob(j)
        BY <3>1 DEF PQ!TickJob, PQ!NoTick
      <4> QED BY <1>0, <2>1, <4>1 DEF PQ!OneTickJob, PQ!Running
    <3>2. CASE ~isTick
      BY <1>0, <1>1, <2>1, <3>2, QuietPush
    <3> QED BY <3>1, <3>2
  <2>7. PQ!OneCadenceRow'
    <3>1. tick' = [of |-> "cadence", heard |-> "ok"] =>
             \/ tick = [of |-> "cadence", heard |-> "ok"]
             \/ t = "cadence" /\ queueMark[queueRows[t]] = "delivered"
      BY <2>1
    <3>2. t = "cadence" => queueMark[queueRows[t]] # "delivered"
      BY <1>1, <1>2 DEF PQ!Undelivered
    <3>3. queueRows'["cadence"] = queueRows["cadence"]
      BY <2>2, <3>2 DEF PQ!Types
    <3> QED BY <1>0, <2>1, <3>1, <3>2, <3>3 DEF PQ!OneCadenceRow
  <2>8. PQ!RowsKeptStep
    BY <1>1, <2>2 DEF PQ!RowsKeptStep
  <2> QED BY <2>4, <2>5, <2>6, <2>7, <2>8 DEF PQ!QueueInv
<1>3. CASE queueRows[t] # 0 /\ same /\ ~PQ!Blocking(queueMark[queueRows[t]])
  <2>1. /\ PQ!Push(PQ!Deliver(queueRows[t], isTick))
        /\ tick' = (IF isTick THEN [of |-> t, heard |-> "nothing"] ELSE tick)
        /\ queueRows' = queueRows /\ type' = type /\ last' = last
    BY <1>3 DEF PQ!Submit
  <2>2. PQ!Deliver(queueRows[t], isTick) \in PQ!QueuedJob
          /\ PQ!Deliver(queueRows[t], isTick).tick = isTick
    BY <1>1, <1>3, DeliverQueued
  <2>3. tick' \in [of : {"none", "cadence", "reminder"}, heard : {"nothing", "ok", "refused"}]
    BY <1>0, <2>1 DEF PQ!QueueShape
  <2>4. PQ!QueueShape'
    <3>1. chain' \in Seq(PQ!QueuedJob)
      BY <1>0, <2>1, <2>2, PushKeeps
    <3> QED BY <1>0, <2>1, <2>3, <3>1 DEF PQ!QueueShape, PQ!Running
  <2>5. PQ!AttemptsJournalled'
    BY <1>0, <2>1, JournalFrame
  <2>6. PQ!OneTickJob'
    <3>1. CASE isTick
      <4>1. /\ tick' = [of |-> t, heard |-> "nothing"] /\ t \in {"cadence", "reminder"}
            /\ queueRows[t] \in PQ!Stamp /\ queueRows[t] \in 1 .. last' /\ type'[queueRows[t]] = t
            /\ PQ!Push(PQ!Deliver(queueRows[t], TRUE)) /\ tick = PQ!NoTick
        BY <1>1, <1>3, <2>1, <3>1
      <4> QED BY <1>0, <4>1, TickPush
    <3>2. CASE ~isTick
      BY <1>0, <1>1, <2>1, <2>2, <3>2, QuietPush
    <3> QED BY <3>1, <3>2
  <2>7. PQ!OneCadenceRow'
    <3>1. tick' = [of |-> "cadence", heard |-> "ok"] => tick = [of |-> "cadence", heard |-> "ok"]
      BY <2>1
    <3> QED BY <1>0, <2>1, <3>1 DEF PQ!OneCadenceRow
  <2>8. PQ!RowsKeptStep
    BY <2>1 DEF PQ!RowsKeptStep
  <2> QED BY <2>4, <2>5, <2>6, <2>7, <2>8 DEF PQ!QueueInv
<1>4. CASE ~(queueRows[t] # 0 /\ same)
  <2>1. /\ PQ!Enqueue(t, queueRows) /\ PQ!Push(PQ!Deliver(last + 1, isTick))
        /\ tick' = (IF isTick THEN [of |-> t, heard |-> "nothing"] ELSE tick)
    BY <1>4 DEF PQ!Submit
  <2>2. /\ last' = last + 1 /\ last' \in 1 .. MaxStamp /\ queueRows' \in [PQ!Types -> 0 .. last']
        /\ type' \in [PQ!Stamp -> PQ!Types \cup {NULL}]
        /\ \A n \in PQ!Stamp : n > last' => type'[n] = NULL
        /\ \A n \in PQ!Stamp : n # last' => type'[n] = type[n]
        /\ type[last'] = NULL /\ type'[last'] = t /\ queueRows'[t] = last'
        /\ \A u \in PQ!Types : u # t => queueRows'[u] = queueRows[u]
        /\ \A u \in PQ!Types : queueRows'[u] # 0 => type'[queueRows'[u]] = u
    BY <1>0, <1>1, <2>1, EnqueueKeeps
  <2>3. PQ!Deliver(last', isTick) \in PQ!QueuedJob /\ PQ!Deliver(last', isTick).tick = isTick
          /\ PQ!Push(PQ!Deliver(last', isTick))
    BY <2>1, <2>2, DeliverQueued DEF PQ!Stamp
  <2>4. tick' \in [of : {"none", "cadence", "reminder"}, heard : {"nothing", "ok", "refused"}]
    BY <1>0, <2>1 DEF PQ!QueueShape
  <2>5. PQ!QueueShape'
    <3>1. chain' \in Seq(PQ!QueuedJob)
      BY <1>0, <2>3, PushKeeps
    <3>2. last' \in 0 .. MaxStamp
      BY <2>2
    <3> QED BY <1>0, <2>2, <2>4, <3>1, <3>2 DEF PQ!QueueShape, PQ!Running
  <2>6. \A n \in 1 .. last : type'[n] = type[n]
    BY <1>1, <2>2 DEF PQ!Stamp
  <2>7. PQ!AttemptsJournalled'
    BY <1>0, <2>6, JournalFrame
  <2>8. PQ!OneTickJob'
    <3>1. CASE isTick
      <4>1. /\ tick' = [of |-> t, heard |-> "nothing"] /\ t \in {"cadence", "reminder"}
            /\ last' \in PQ!Stamp /\ last' \in 1 .. last' /\ type'[last'] = t
            /\ tick = PQ!NoTick
        BY <2>1, <2>2, <3>1 DEF PQ!Stamp
      <4>2. isTick = TRUE
        BY <3>1
      <4>3. PQ!Push(PQ!Deliver(last', TRUE))
        BY <2>3, <4>2
      <4> QED BY <1>0, <4>1, <4>3, TickPush
    <3>2. CASE ~isTick
      <4>1. last' \in Nat /\ last' >= last /\ tick' = tick
        BY <1>1, <2>1, <2>2, <3>2
      <4> QED BY <1>0, <2>3, <2>6, <3>2, <4>1, QuietPush
    <3> QED BY <3>1, <3>2
  <2>9. PQ!OneCadenceRow'
    <3>1. tick' = [of |-> "cadence", heard |-> "ok"] => tick = [of |-> "cadence", heard |-> "ok"]
      BY <2>1
    <3>2. \A n \in PQ!Stamp : type[n] = "cadence" => type'[n] = "cadence"
      BY <2>2
    <3>3. CASE t = "cadence"
      <4>1. \A n \in PQ!Stamp : type[n] # "cadence"
        BY <1>0, <1>1, <1>4, <3>3 DEF PQ!OneCadenceRow, PQ!Undelivered, PQ!Stamp
      <4>2. \A n \in PQ!Stamp : type'[n] = "cadence" => n = last'
        BY <2>2, <4>1
      <4>3. queueRows'["cadence"] = last'
        BY <2>2, <3>3
      <4> QED BY <1>0, <3>1, <3>2, <4>2, <4>3 DEF PQ!OneCadenceRow
    <3>4. CASE t # "cadence"
      <4>1. \A n \in PQ!Stamp : type'[n] = "cadence" => type[n] = "cadence"
        BY <2>2, <3>4
      <4>2. queueRows'["cadence"] = queueRows["cadence"]
        BY <2>2, <3>4 DEF PQ!Types
      <4> QED BY <1>0, <3>1, <3>2, <4>1, <4>2 DEF PQ!OneCadenceRow
    <3> QED BY <3>3, <3>4
  <2>10. PQ!RowsKeptStep
    <3>1. ASSUME NEW u \in PQ!Types, queueRows[u] # 0, queueRows'[u] # queueRows[u]
          PROVE  queueRows'[u] > queueRows[u]
      BY <1>1, <2>2, <3>1
    <3> QED BY <3>1 DEF PQ!RowsKeptStep
  <2> QED BY <2>5, <2>7, <2>8, <2>9, <2>10 DEF PQ!QueueInv
<1> QED BY <1>2, <1>3, <1>4

(* The steps of the server's other code, which leave the jobs alone.        *)
LEMMA SlotEventKeeps ==
  ASSUME PQ!QueueInv, NEW t \in SlotState, PQ!SlotEvent(t)
  PROVE  PQ!QueueInv' /\ PQ!RowsKeptStep
<1> USE QueueAssumption
<1>0. PQ!QueueShape /\ PQ!AttemptsJournalled /\ PQ!OneTickJob /\ PQ!OneCadenceRow
  BY DEF PQ!QueueInv
<1>1. /\ last \in 0 .. MaxStamp /\ queueRows \in [PQ!Types -> 0 .. last]
      /\ t \in PQ!Types /\ t \notin {"cadence", "reminder"}
  BY <1>0 DEF PQ!QueueShape, PQ!Types
<1>2. PICK r : /\ r = queueRows \/ (t = "active" /\ r = [queueRows EXCEPT !["check"] = 0])
               /\ PQ!Enqueue(t, r)
  BY DEF PQ!SlotEvent
<1>3. /\ r \in [PQ!Types -> 0 .. last]
      /\ \A u \in PQ!Types : r[u] = queueRows[u] \/ (r[u] = 0 /\ u = "check" /\ t = "active")
  BY <1>1, <1>2
<1>4. /\ last' = last + 1 /\ last' \in 1 .. MaxStamp /\ queueRows' \in [PQ!Types -> 0 .. last']
      /\ type' \in [PQ!Stamp -> PQ!Types \cup {NULL}]
      /\ \A n \in PQ!Stamp : n > last' => type'[n] = NULL
      /\ \A n \in PQ!Stamp : n # last' => type'[n] = type[n]
      /\ type[last'] = NULL /\ type'[last'] = t /\ queueRows'[t] = last'
      /\ \A u \in PQ!Types : u # t => queueRows'[u] = r[u]
      /\ \A u \in PQ!Types : queueRows'[u] # 0 => type'[queueRows'[u]] = u
  BY <1>0, <1>1, <1>2, <1>3, EnqueueKeeps
<1>5. /\ chain' = chain \/ PQ!Push(PQ!Drain)
      /\ job' = job /\ queueMark' = queueMark /\ pasted' = pasted /\ tick' = tick /\ due' = due
  BY DEF PQ!SlotEvent
<1>6. PQ!Drain \in PQ!QueuedJob /\ ~PQ!Drain.tick
  BY DEF PQ!QueuedJob, PQ!Drain
<1>7. PQ!QueueShape'
  <2>1. chain' \in Seq(PQ!QueuedJob)
    BY <1>0, <1>5, <1>6, PushKeeps DEF PQ!QueueShape
  <2>2. last' \in 0 .. MaxStamp
    BY <1>4
  <2> QED BY <1>0, <1>4, <1>5, <2>1, <2>2 DEF PQ!QueueShape, PQ!Running
<1>8. \A n \in 1 .. last : type'[n] = type[n]
  BY <1>1, <1>4 DEF PQ!Stamp
<1>9. PQ!AttemptsJournalled'
  BY <1>0, <1>5, <1>8, JournalFrame
<1>10. PQ!OneTickJob'
  <2>1. last' \in Nat /\ last' >= last
    BY <1>1, <1>4
  <2> QED BY <1>0, <1>5, <1>6, <1>8, <2>1, QuietPush
<1>11. PQ!OneCadenceRow'
  <2>1. \A n \in PQ!Stamp : type'[n] = "cadence" <=> type[n] = "cadence"
    BY <1>1, <1>4
  <2>2. queueRows'["cadence"] = queueRows["cadence"]
    BY <1>1, <1>3, <1>4 DEF PQ!Types
  <2> QED BY <1>0, <1>5, <2>1, <2>2 DEF PQ!OneCadenceRow
<1>12. PQ!RowsKeptStep
  <2>1. ASSUME NEW u \in PQ!Types, queueRows[u] # 0, queueRows'[u] # queueRows[u]
        PROVE  \/ queueRows'[u] > queueRows[u]
               \/ u \in SlotState /\ \E v \in SlotState : queueRows'[v] # 0 /\ PQ!Rank[v] < PQ!Rank[u]
    <3>1. CASE u = t
      BY <1>1, <1>4, <2>1, <3>1
    <3>2. CASE u # t
      <4>1. u = "check" /\ t = "active" /\ u \in SlotState /\ queueRows'[t] # 0
        BY <1>3, <1>4, <2>1, <3>2 DEF PQ!Types
      <4>2. PQ!Rank["active"] < PQ!Rank["check"]
        BY DEF PQ!Rank
      <4> QED BY <4>1, <4>2
    <3> QED BY <3>1, <3>2
  <2> QED BY <2>1 DEF PQ!RowsKeptStep
<1> QED BY <1>7, <1>9, <1>10, <1>11, <1>12 DEF PQ!QueueInv

LEMMA ServerKeeps ==
  ASSUME PQ!QueueInv,
         \/ \E t \in SlotState : PQ!StateSubmitted(t)
         \/ PQ!DrainAsked \/ PQ!CadenceTick \/ PQ!ReminderTick \/ PQ!TickEnds
  PROVE  PQ!QueueInv' /\ PQ!RowsKeptStep
<1> USE QueueAssumption
<1>0. PQ!QueueShape /\ PQ!AttemptsJournalled /\ PQ!OneTickJob /\ PQ!OneCadenceRow
  BY DEF PQ!QueueInv
<1>1. ASSUME NEW t \in SlotState, PQ!StateSubmitted(t) PROVE PQ!QueueInv' /\ PQ!RowsKeptStep
  <2>1. PICK same \in BOOLEAN : PQ!Submit(t, same, FALSE)
    BY <1>1 DEF PQ!StateSubmitted
  <2>2. /\ job' = job /\ queueMark' = queueMark /\ pasted' = pasted /\ due' = due
        /\ t \in PQ!Types /\ t # "cadence"
    BY <1>1 DEF PQ!StateSubmitted, PQ!Types
  <2> QED BY <2>1, <2>2, SubmitKeeps
<1>2. CASE PQ!CadenceTick /\ PQ!Undelivered
  <2>1. /\ PQ!Submit("cadence", TRUE, TRUE) /\ tick = PQ!NoTick
        /\ job' = job /\ queueMark' = queueMark /\ pasted' = pasted /\ due' = due
    BY <1>2 DEF PQ!CadenceTick
  <2>2. "cadence" \in PQ!Types
    BY DEF PQ!Types
  <2> QED BY <1>2, <2>1, <2>2, SubmitKeeps
<1>3. CASE PQ!ReminderTick
  <2>1. /\ PQ!Submit("reminder", TRUE, TRUE) /\ tick = PQ!NoTick
        /\ job' = job /\ queueMark' = queueMark /\ pasted' = pasted /\ due' = due
    BY <1>3 DEF PQ!ReminderTick
  <2>2. "reminder" \in PQ!Types /\ "reminder" # "cadence"
    BY DEF PQ!Types
  <2> QED BY <2>1, <2>2, SubmitKeeps
<1>4. CASE PQ!DrainAsked
  <2>1. /\ PQ!Push(PQ!Drain) /\ job' = job /\ queueMark' = queueMark /\ pasted' = pasted
        /\ tick' = tick /\ due' = due /\ type' = type /\ last' = last /\ queueRows' = queueRows
    BY <1>4 DEF PQ!DrainAsked
  <2>2. PQ!Drain \in PQ!QueuedJob /\ ~PQ!Drain.tick
    BY DEF PQ!QueuedJob, PQ!Drain
  <2>3. chain' \in Seq(PQ!QueuedJob) /\ last \in Nat
    BY <1>0, <2>1, <2>2, PushKeeps DEF PQ!QueueShape
  <2>4. PQ!QueueShape'
    BY <1>0, <2>1, <2>3 DEF PQ!QueueShape, PQ!Running
  <2>5. PQ!AttemptsJournalled'
    BY <1>0, <2>1, JournalFrame
  <2>6. PQ!OneTickJob'
    BY <1>0, <2>1, <2>2, <2>3, QuietPush
  <2>7. PQ!OneCadenceRow' /\ PQ!RowsKeptStep
    BY <1>0, <2>1 DEF PQ!OneCadenceRow, PQ!RowsKeptStep
  <2> QED BY <2>4, <2>5, <2>6, <2>7 DEF PQ!QueueInv
<1>5. CASE PQ!TickEnds \/ (PQ!CadenceTick /\ ~PQ!Undelivered)
  <2>1. /\ job' = job /\ queueMark' = queueMark /\ pasted' = pasted /\ chain' = chain
        /\ type' = type /\ last' = last /\ queueRows' = queueRows
        /\ tick' = tick \/ (tick' = PQ!NoTick /\ tick.heard # "nothing")
        /\ due' \in BOOLEAN
        /\ due' => \/ due \/ tick = [of |-> "cadence", heard |-> "ok"] \/ (~due /\ ~PQ!Undelivered)
    BY <1>0, <1>5 DEF PQ!TickEnds, PQ!CadenceTick, PQ!QueueShape
  <2>2. PQ!QueueShape'
    <3>1. tick' \in [of : {"none", "cadence", "reminder"}, heard : {"nothing", "ok", "refused"}]
      BY <1>0, <2>1 DEF PQ!QueueShape, PQ!NoTick
    <3> QED BY <1>0, <2>1, <3>1 DEF PQ!QueueShape, PQ!Running
  <2>3. PQ!AttemptsJournalled'
    BY <1>0, <2>1, JournalFrame
  <2>4. PQ!OneTickJob'
    <3>1. CASE tick' = tick
      BY <1>0, <2>1, <3>1 DEF PQ!OneTickJob, PQ!TickJob, PQ!Running
    <3>2. CASE tick.heard # "nothing"
      BY <1>0, <2>1, <3>2 DEF PQ!OneTickJob, PQ!TickJob, PQ!Running
    <3> QED BY <2>1, <3>1, <3>2
  <2>5. PQ!OneCadenceRow'
    <3>1. tick' = [of |-> "cadence", heard |-> "ok"] => tick = [of |-> "cadence", heard |-> "ok"]
      BY <2>1 DEF PQ!NoTick
    <3>2. ~due /\ ~PQ!Undelivered => \E n \in PQ!Stamp : type[n] = "cadence" /\ queueMark[n] = "delivered"
      BY DEF PQ!Undelivered
    <3> QED BY <1>0, <2>1, <3>1, <3>2 DEF PQ!OneCadenceRow
  <2>6. PQ!RowsKeptStep
    BY <2>1 DEF PQ!RowsKeptStep
  <2> QED BY <2>2, <2>3, <2>4, <2>5, <2>6 DEF PQ!QueueInv
<1> QED BY <1>1, <1>2, <1>3, <1>4, <1>5

(* The steps of the jobs.  A job goes on with the row it has, or ends.      *)
LEMMA JobGoes ==
  ASSUME PQ!QueueShape, PQ!Running, NEW pc, PQ!Goto(pc)
  PROVE  job' = [kind |-> job.kind, pc |-> pc, left |-> job.left, at |-> job.at, tick |-> job.tick]
BY DEF PQ!QueueShape, PQ!Goto

(* What holds of the jobs and the tick after the answer of a delivery.      *)
LEMMA ReplyKeeps ==
  ASSUME PQ!QueueInv, PQ!Running, NEW ok \in BOOLEAN, PQ!Reply(ok), chain' = chain, type' = type,
         last' = last, ok /\ job.at \in PQ!Stamp => queueMark'[job.at] = "delivered"
  PROVE  /\ PQ!OneTickJob'
         /\ tick' \in [of : {"none", "cadence", "reminder"}, heard : {"nothing", "ok", "refused"}]
         /\ PQ!Running' =>
              /\ job' = [kind |-> job.kind, pc |-> "next", left |-> job.left, at |-> job.at,
                        tick |-> job.tick]
              /\ job.kind \in {"drain", "deliver"} /\ job.tick \in BOOLEAN
         /\ tick' = [of |-> "cadence", heard |-> "ok"] =>
              \/ tick = [of |-> "cadence", heard |-> "ok"]
              \/ job.at \in PQ!Stamp /\ type[job.at] = "cadence" /\ queueMark'[job.at] = "delivered"
<1> USE QueueAssumption
<1>0. PQ!QueueShape /\ PQ!OneTickJob
  BY DEF PQ!QueueInv
<1>1. CASE job.tick
  <2>1. /\ tick.of \in {"cadence", "reminder"} /\ job.at \in PQ!Stamp /\ type[job.at] = tick.of
        /\ job.kind = "deliver" /\ \A j \in DOMAIN chain : ~chain[j].tick
    BY <1>0, <1>1 DEF PQ!OneTickJob, PQ!TickJob, PQ!QueueShape, PQ!Stamp
  <2>2. job' = NULL /\ tick' = [tick EXCEPT !.heard = IF ok THEN "ok" ELSE "refused"]
    BY <1>1, <2>1 DEF PQ!Reply
  <2>3. tick' = [of |-> tick.of, heard |-> IF ok THEN "ok" ELSE "refused"]
    BY <1>0, <2>2 DEF PQ!QueueShape
  <2>4. PQ!OneTickJob'
    BY <2>1, <2>2 DEF PQ!OneTickJob, PQ!Running
  <2>5. tick' = [of |-> "cadence", heard |-> "ok"] => type[job.at] = "cadence" /\ ok
    BY <2>1, <2>3
  <2> QED BY <2>1, <2>2, <2>3, <2>4, <2>5 DEF PQ!Running
<1>2. CASE ~job.tick
  <2>1. tick' = tick /\ (job' = NULL \/ PQ!Goto("next"))
    BY <1>2 DEF PQ!Reply
  <2>2. PQ!Running' => /\ job' = [kind |-> job.kind, pc |-> "next", left |-> job.left, at |-> job.at,
                                  tick |-> job.tick]
                       /\ job'.tick = job.tick
    BY <1>0, <2>1, JobGoes DEF PQ!Running
  <2>3. PQ!OneTickJob'
    BY <1>0, <1>2, <2>1, <2>2 DEF PQ!OneTickJob, PQ!TickJob, PQ!Running
  <2> QED BY <1>0, <2>1, <2>2, <2>3 DEF PQ!QueueShape
<1> QED BY <1>1, <1>2

(* A job that only goes from one point to another, perhaps deleting a row.  *)
LEMMA JobMoves ==
  ASSUME PQ!QueueInv, PQ!Running, ~job.tick, NEW pc, NEW l, NEW a, pc \notin {"send", "key"},
         pc = "look" /\ a \in PQ!Stamp => type[a] = "check",
         job' \in {NULL, [kind |-> job.kind, pc |-> pc, left |-> l, at |-> a, tick |-> job.tick]},
         queueMark' = queueMark, pasted' = pasted, type' = type, last' = last, chain' = chain,
         tick' = tick, due' = due,
         queueRows' \in [PQ!Types -> 0 .. last],
         \A t \in PQ!Types : queueRows'[t] \in {queueRows[t], 0},
         queueRows'["cadence"] = queueRows["cadence"]
           \/ (queueRows["cadence"] # 0 /\ queueMark[queueRows["cadence"]] = "delivered")
  PROVE  PQ!QueueInv'
<1> USE QueueAssumption
<1>0. PQ!QueueShape /\ PQ!AttemptsJournalled /\ PQ!OneTickJob /\ PQ!OneCadenceRow
  BY DEF PQ!QueueInv
<1>1. PQ!Running' =>
        /\ job' = [kind |-> job.kind, pc |-> pc, left |-> l, at |-> a, tick |-> job.tick]
        /\ job'.kind = job.kind /\ job'.tick = job.tick /\ job'.at = a /\ job'.pc = pc
        /\ job' = [kind |-> job'.kind, pc |-> job'.pc, left |-> job'.left, at |-> job'.at,
                  tick |-> job'.tick]
  BY DEF PQ!Running
<1>2. PQ!QueueShape'
  BY <1>0, <1>1 DEF PQ!QueueShape, PQ!Running
<1>3. PQ!AttemptsJournalled'
  BY <1>0, <1>1 DEF PQ!AttemptsJournalled
<1>4. PQ!OneTickJob'
  BY <1>0, <1>1 DEF PQ!OneTickJob, PQ!TickJob, PQ!Running
<1>5. PQ!OneCadenceRow'
  <2>1. "cadence" \in PQ!Types
    BY DEF PQ!Types
  <2>2. \A n \in PQ!Stamp : type[n] = "cadence" => queueRows'["cadence"] = n \/ queueMark[n] = "delivered"
    BY <1>0 DEF PQ!OneCadenceRow
  <2> QED BY <1>0, <2>2 DEF PQ!OneCadenceRow
<1> QED BY <1>2, <1>3, <1>4, <1>5 DEF PQ!QueueInv

(* The end of an attempt: the journal holds what became of the row, and the *)
(* row leaves the table only delivered, or as a reminder that is not owed.  *)
LEMMA AttemptEnds ==
  ASSUME PQ!QueueInv, PQ!Running, NEW ok \in BOOLEAN, PQ!Reply(ok),
         chain' = chain, type' = type, last' = last, due' = due,
         queueMark' \in [PQ!Stamp -> PQ!Marks], pasted' \in [PQ!Stamp -> Nat],
         \A n \in PQ!Stamp : n # job.at => queueMark'[n] = queueMark[n] /\ pasted'[n] = pasted[n],
         job.at \in PQ!Stamp =>
           /\ pasted'[job.at] <= 1 /\ (pasted'[job.at] = 1 => PQ!Blocking(queueMark'[job.at]))
           /\ (queueMark'[job.at] = "delivered" => pasted'[job.at] = 1)
           /\ (queueMark[job.at] = "delivered" => queueMark'[job.at] = "delivered")
           /\ (ok => queueMark'[job.at] = "delivered"),
         queueRows' \in {queueRows, PQ!Without(job.at)},
         queueRows' # queueRows /\ job.at \in PQ!Stamp =>
           queueMark'[job.at] = "delivered" \/ type[job.at] = "reminder"
  PROVE  PQ!QueueInv' /\ PQ!RowsKeptStep
<1> USE QueueAssumption
<1>0. PQ!QueueShape /\ PQ!AttemptsJournalled /\ PQ!OneTickJob /\ PQ!OneCadenceRow
  BY DEF PQ!QueueInv
<1>1. /\ queueRows' \in [PQ!Types -> 0 .. last]
      /\ \A t \in PQ!Types : queueRows'[t] = queueRows[t]
           \/ (queueRows'[t] = 0 /\ queueRows[t] = job.at /\ type[job.at] = t /\ job.at \in 1 .. last)
  <2>1. CASE queueRows' = queueRows
    BY <1>0, <2>1 DEF PQ!QueueShape
  <2>2. CASE queueRows' = PQ!Without(job.at)
    BY <1>0, <2>2, WithoutKeeps
  <2> QED BY <2>1, <2>2
<1>2. /\ PQ!OneTickJob'
      /\ tick' \in [of : {"none", "cadence", "reminder"}, heard : {"nothing", "ok", "refused"}]
      /\ PQ!Running' =>
           /\ job' = [kind |-> job.kind, pc |-> "next", left |-> job.left, at |-> job.at,
                     tick |-> job.tick]
           /\ job.kind \in {"drain", "deliver"} /\ job.tick \in BOOLEAN
      /\ tick' = [of |-> "cadence", heard |-> "ok"] =>
           \/ tick = [of |-> "cadence", heard |-> "ok"]
           \/ job.at \in PQ!Stamp /\ type[job.at] = "cadence" /\ queueMark'[job.at] = "delivered"
  BY ReplyKeeps
<1>3. PQ!Running' =>
        /\ job'.kind = job.kind /\ job'.tick = job.tick /\ job'.at = job.at /\ job'.pc = "next"
        /\ job' = [kind |-> job'.kind, pc |-> job'.pc, left |-> job'.left, at |-> job'.at,
                  tick |-> job'.tick]
  BY <1>2
<1>4. \A n \in PQ!Stamp : queueMark[n] = "delivered" => queueMark'[n] = "delivered"
  OBVIOUS
<1>5. PQ!QueueShape'
  BY <1>0, <1>1, <1>2, <1>3 DEF PQ!QueueShape, PQ!Running
<1>6. PQ!AttemptsJournalled'
  BY <1>0, <1>3 DEF PQ!AttemptsJournalled
<1>7. PQ!OneCadenceRow'
  <2>1. queueRows'["cadence"] = queueRows["cadence"]
          \/ (queueRows["cadence"] \in PQ!Stamp /\ queueMark'[queueRows["cadence"]] = "delivered")
    <3>1. "cadence" \in PQ!Types
      BY DEF PQ!Types
    <3>2. 1 .. last \subseteq PQ!Stamp
      BY <1>0 DEF PQ!QueueShape, PQ!Stamp
    <3> QED BY <1>1, <3>1, <3>2
  <2>2. \A n \in PQ!Stamp : type[n] = "cadence" => queueRows'["cadence"] = n \/ queueMark'[n] = "delivered"
    BY <1>0, <1>4, <2>1 DEF PQ!OneCadenceRow
  <2>3. due' \/ tick' = [of |-> "cadence", heard |-> "ok"] =>
          \E n \in PQ!Stamp : type[n] = "cadence" /\ queueMark'[n] = "delivered"
    BY <1>0, <1>2, <1>4 DEF PQ!OneCadenceRow
  <2> QED BY <1>0, <2>2, <2>3 DEF PQ!OneCadenceRow
<1>8. PQ!RowsKeptStep
  <2>1. 1 .. last \subseteq PQ!Stamp
    BY <1>0 DEF PQ!QueueShape, PQ!Stamp
  <2>2. ASSUME NEW t \in PQ!Types, queueRows[t] # 0, queueRows'[t] # queueRows[t]
        PROVE  \/ queueMark'[queueRows[t]] = "delivered"
               \/ t \in {"check", "reminder"} /\ job # NULL /\ job.at = queueRows[t]
    <3>1. queueRows[t] = job.at /\ type[job.at] = t /\ job.at \in PQ!Stamp /\ queueRows' # queueRows
      BY <1>1, <2>1, <2>2
    <3> QED BY <3>1 DEF PQ!Running
  <2> QED BY <2>2 DEF PQ!RowsKeptStep
<1> QED BY <1>2, <1>5, <1>6, <1>7, <1>8 DEF PQ!QueueInv

(* An attempt that goes on, to the paste or to the key.                     *)
LEMMA AttemptGoes ==
  ASSUME PQ!QueueInv, PQ!Running, NEW pc \in {"send", "key"}, PQ!Goto(pc),
         job.pc \in {"deliver", "send"},
         chain' = chain, type' = type, last' = last, due' = due, tick' = tick, queueRows' = queueRows,
         queueMark' \in [PQ!Stamp -> PQ!Marks], pasted' \in [PQ!Stamp -> Nat],
         \A n \in PQ!Stamp : n # job.at => queueMark'[n] = queueMark[n] /\ pasted'[n] = pasted[n],
         job.at \in PQ!Stamp =>
           /\ queueMark[job.at] # "delivered" /\ queueMark'[job.at] = "started"
           /\ pasted'[job.at] = (IF pc = "key" THEN 1 ELSE 0)
  PROVE  PQ!QueueInv' /\ PQ!RowsKeptStep
<1> USE QueueAssumption
<1>0. PQ!QueueShape /\ PQ!AttemptsJournalled /\ PQ!OneTickJob /\ PQ!OneCadenceRow
  BY DEF PQ!QueueInv
<1>1. job' = [kind |-> job.kind, pc |-> pc, left |-> job.left, at |-> job.at, tick |-> job.tick]
  BY <1>0, JobGoes
<1>2. /\ job'.kind = job.kind /\ job'.tick = job.tick /\ job'.at = job.at /\ job'.pc = pc
      /\ job' = [kind |-> job'.kind, pc |-> job'.pc, left |-> job'.left, at |-> job'.at,
                tick |-> job'.tick]
  BY <1>1
<1>3. PQ!QueueShape'
  BY <1>0, <1>2 DEF PQ!QueueShape, PQ!Running
<1>4. PQ!AttemptsJournalled'
  BY <1>0, <1>2 DEF PQ!AttemptsJournalled, PQ!Blocking
<1>5. PQ!OneTickJob'
  BY <1>0, <1>2 DEF PQ!OneTickJob, PQ!TickJob, PQ!Running
<1>6. PQ!OneCadenceRow'
  BY <1>0 DEF PQ!OneCadenceRow
<1>7. PQ!RowsKeptStep
  BY DEF PQ!RowsKeptStep
<1> QED BY <1>3, <1>4, <1>5, <1>6, <1>7 DEF PQ!QueueInv

LEMMA QueuedShape ==
  ASSUME NEW j \in PQ!QueuedJob
  PROVE  /\ j = [kind |-> j.kind, pc |-> j.pc, left |-> j.left, at |-> j.at, tick |-> j.tick]
         /\ j.kind \in {"drain", "deliver"} /\ j.tick \in BOOLEAN /\ j.pc \in {"pane", "deliver"}
         /\ (j.tick => (j.kind = "deliver" /\ j.pc = "deliver"))
<1>1. CASE j = PQ!Drain
  BY <1>1 DEF PQ!Drain
<1>2. ASSUME NEW n \in PQ!Stamp, NEW b \in BOOLEAN, j = PQ!Deliver(n, b)
      PROVE  /\ j = [kind |-> j.kind, pc |-> j.pc, left |-> j.left, at |-> j.at, tick |-> j.tick]
             /\ j.kind \in {"drain", "deliver"} /\ j.tick \in BOOLEAN /\ j.pc \in {"pane", "deliver"}
             /\ (j.tick => (j.kind = "deliver" /\ j.pc = "deliver"))
  BY <1>2 DEF PQ!Deliver
<1> QED BY <1>1, <1>2 DEF PQ!QueuedJob

LEMMA JobStartsKeeps ==
  ASSUME PQ!QueueInv, PQ!JobStarts
  PROVE  PQ!QueueInv' /\ PQ!RowsKeptStep
<1> USE QueueAssumption
<1>0. PQ!QueueShape /\ PQ!AttemptsJournalled /\ PQ!OneTickJob /\ PQ!OneCadenceRow
  BY DEF PQ!QueueInv
<1>1. /\ chain \in Seq(PQ!QueuedJob) /\ chain # <<>> /\ job' = Head(chain) /\ chain' = Tail(chain)
      /\ queueMark' = queueMark /\ pasted' = pasted /\ tick' = tick /\ due' = due /\ type' = type
      /\ last' = last /\ queueRows' = queueRows /\ job = NULL
  BY <1>0 DEF PQ!JobStarts, PQ!QueueShape
<1>2. /\ chain' \in Seq(PQ!QueuedJob) /\ job' \in PQ!QueuedJob /\ job' = chain[1]
      /\ 1 \in DOMAIN chain
      /\ \A i \in DOMAIN chain' : i \in Nat /\ i + 1 \in DOMAIN chain /\ chain'[i] = chain[i + 1] /\ i + 1 # 1
  <2>1. DOMAIN chain = 1 .. Len(chain) /\ Len(chain) \in Nat /\ Len(chain) # 0
    BY <1>1, EmptySeq
  <2>2. chain' \in Seq(PQ!QueuedJob) /\ Len(chain') = Len(chain) - 1 /\ job' = chain[1]
    BY <1>1
  <2>3. \A i \in 1 .. Len(chain) - 1 : chain'[i] = chain[i + 1]
    BY <1>1
  <2>4. DOMAIN chain' = 1 .. Len(chain) - 1
    BY <2>2
  <2> QED BY <1>1, <2>1, <2>2, <2>3, <2>4
<1>3. /\ job' = [kind |-> job'.kind, pc |-> job'.pc, left |-> job'.left, at |-> job'.at, tick |-> job'.tick]
      /\ job'.kind \in {"drain", "deliver"} /\ job'.tick \in BOOLEAN /\ job'.pc \in {"pane", "deliver"}
      /\ (job'.tick => (job'.kind = "deliver" /\ job'.pc = "deliver"))
  <2>1. PICK j : j = job'
    OBVIOUS
  <2>2. j \in PQ!QueuedJob
    BY <1>2, <2>1
  <2>3. /\ j = [kind |-> j.kind, pc |-> j.pc, left |-> j.left, at |-> j.at, tick |-> j.tick]
        /\ j.kind \in {"drain", "deliver"} /\ j.tick \in BOOLEAN /\ j.pc \in {"pane", "deliver"}
        /\ (j.tick => (j.kind = "deliver" /\ j.pc = "deliver"))
    BY <2>2, QueuedShape
  <2> QED BY <2>1, <2>3
<1>4. PQ!QueueShape'
  BY <1>0, <1>1, <1>2, <1>3 DEF PQ!QueueShape, PQ!Running
<1>5. PQ!AttemptsJournalled'
  BY <1>0, <1>1, <1>3 DEF PQ!AttemptsJournalled
<1>6. PQ!OneTickJob'
  <2>1. \A j : PQ!TickJob(j)' <=> PQ!TickJob(j)
    BY <1>1 DEF PQ!TickJob
  <2>2. PICK first : first = job'
    OBVIOUS
  <2>3. PICK rest : rest = chain'
    OBVIOUS
  <2>4. ASSUME first.tick
        PROVE  /\ PQ!TickJob(first)' /\ first.kind = "deliver" /\ first.pc \in {"deliver", "send", "key"}
               /\ \A i \in DOMAIN rest : ~rest[i].tick
    <3>1. PQ!TickJob(chain[1]) /\ \A k \in DOMAIN chain : chain[k].tick => k = 1
      BY <1>0, <1>2, <2>2, <2>4 DEF PQ!OneTickJob
    <3>2. PQ!TickJob(first)'
      BY <1>2, <2>1, <2>2, <3>1
    <3> QED BY <1>2, <1>3, <2>2, <2>3, <2>4, <3>1, <3>2
  <2>5. ASSUME NEW i \in DOMAIN rest, rest[i].tick
        PROVE  PQ!TickJob(rest[i])' /\ \A k \in DOMAIN rest : rest[k].tick => k = i
    <3>1. PQ!TickJob(chain[i + 1]) /\ \A k \in DOMAIN chain : chain[k].tick => k = i + 1
      BY <1>0, <1>2, <2>3, <2>5 DEF PQ!OneTickJob
    <3>2. PQ!TickJob(rest[i])'
      BY <1>2, <2>1, <2>3, <3>1
    <3> QED BY <1>2, <2>3, <2>5, <3>1, <3>2
  <2> QED BY <2>2, <2>3, <2>4, <2>5 DEF PQ!OneTickJob
<1>7. PQ!OneCadenceRow' /\ PQ!RowsKeptStep
  BY <1>0, <1>1 DEF PQ!OneCadenceRow, PQ!RowsKeptStep
<1> QED BY <1>4, <1>5, <1>6, <1>7 DEF PQ!QueueInv

(* Of the rows of the slot's state the coalescing leaves the most urgent.   *)
LEMMA CoalescedKeeps ==
  ASSUME PQ!QueueShape
  PROVE  /\ PQ!Coalesced \in [PQ!Types -> 0 .. last]
         /\ PQ!Coalesced["cadence"] = queueRows["cadence"]
         /\ \A t \in PQ!Types : PQ!Coalesced[t] # queueRows[t] =>
              /\ PQ!Coalesced[t] = 0
              /\ t \in SlotState /\ \E u \in SlotState : PQ!Coalesced[u] # 0 /\ PQ!Rank[u] < PQ!Rank[t]
<1> USE QueueAssumption
<1>1. last \in Nat /\ queueRows \in [PQ!Types -> 0 .. last] /\ SlotState \subseteq PQ!Types
  BY DEF PQ!QueueShape, PQ!Types
<1>2. \A t \in PQ!Types : PQ!Coalesced[t] = IF PQ!Beaten(t) THEN 0 ELSE queueRows[t]
  BY DEF PQ!Coalesced
<1>3. PQ!Coalesced \in [PQ!Types -> 0 .. last]
  BY <1>1 DEF PQ!Coalesced
<1>4. PQ!Coalesced["cadence"] = queueRows["cadence"]
  BY <1>2 DEF PQ!Types, PQ!Beaten
<1>5. \A u \in SlotState : PQ!Rank[u] \in 1 .. 4
  BY DEF PQ!Rank
<1>6. ASSUME NEW t \in PQ!Types, PQ!Beaten(t)
      PROVE  \E u \in SlotState : PQ!Coalesced[u] # 0 /\ PQ!Rank[u] < PQ!Rank[t]
  <2>1. PICK u \in SlotState : queueRows[u] # 0 /\ PQ!Rank[u] < PQ!Rank[t]
    BY <1>6 DEF PQ!Beaten
  <2>2. CASE ~PQ!Beaten(u)
    BY <1>1, <1>2, <2>1, <2>2
  <2>3. CASE PQ!Beaten(u)
    <3>1. PICK v \in SlotState : queueRows[v] # 0 /\ PQ!Rank[v] < PQ!Rank[u]
      BY <2>3 DEF PQ!Beaten
    <3>2. CASE ~PQ!Beaten(v)
      <4>1. PQ!Coalesced[v] # 0
        BY <1>1, <1>2, <3>1, <3>2
      <4>2. PQ!Rank[v] < PQ!Rank[t]
        BY <1>5, <1>6, <2>1, <3>1 DEF PQ!Beaten
      <4> QED BY <4>1, <4>2
    <3>3. CASE PQ!Beaten(v)
      <4>1. PICK w \in SlotState : queueRows[w] # 0 /\ PQ!Rank[w] < PQ!Rank[v]
        BY <3>3 DEF PQ!Beaten
      <4>2. t \in SlotState
        BY <1>6 DEF PQ!Beaten
      <4>3. PQ!Rank[w] = 1 /\ PQ!Rank[w] < PQ!Rank[t]
        BY <1>5, <2>1, <3>1, <4>1, <4>2
      <4>4. ~PQ!Beaten(w)
        BY <1>5, <4>3 DEF PQ!Beaten
      <4> QED BY <1>1, <1>2, <4>1, <4>3, <4>4
    <3> QED BY <3>2, <3>3
  <2> QED BY <2>2, <2>3
<1>7. \A t \in PQ!Types : PQ!Coalesced[t] # queueRows[t] => PQ!Beaten(t) /\ PQ!Coalesced[t] = 0
  BY <1>2
<1> QED BY <1>3, <1>4, <1>6, <1>7 DEF PQ!Beaten

LEMMA DrainKeeps ==
  ASSUME PQ!QueueInv,
         PQ!DrainReads \/ PQ!NextRow \/ PQ!CheckLooked \/ PQ!MarkRead
  PROVE  PQ!QueueInv' /\ PQ!RowsKeptStep
<1> USE QueueAssumption
<1>0. PQ!QueueShape /\ PQ!AttemptsJournalled /\ PQ!OneTickJob /\ PQ!OneCadenceRow
  BY DEF PQ!QueueInv
<1>1. /\ PQ!Running /\ job.pc \in {"pane", "next", "look", "mark"}
      /\ queueMark' = queueMark /\ pasted' = pasted /\ type' = type /\ last' = last /\ chain' = chain
      /\ tick' = tick /\ due' = due
  BY DEF PQ!DrainReads, PQ!NextRow, PQ!CheckLooked, PQ!MarkRead, PQ!Running
<1>2. ~job.tick
  BY <1>0, <1>1 DEF PQ!OneTickJob
<1>3. /\ job = [kind |-> job.kind, pc |-> job.pc, left |-> job.left, at |-> job.at, tick |-> job.tick]
      /\ last \in Nat /\ queueRows \in [PQ!Types -> 0 .. last]
      /\ "cadence" \in PQ!Types /\ 1 .. last \subseteq PQ!Stamp
  BY <1>0, <1>1 DEF PQ!QueueShape, PQ!Types, PQ!Stamp
<1>4. CASE PQ!DrainReads
  <2>1. CASE job' = NULL /\ queueRows' = queueRows
    <3>1. PQ!QueueInv'
      BY <1>1, <1>2, <1>3, <2>1, JobMoves
    <3> QED BY <2>1, <3>1 DEF PQ!RowsKeptStep
  <2>2. CASE queueRows' = PQ!Coalesced
                /\ job' = [job EXCEPT !.pc = "next", !.left = PQ!Batch(PQ!Coalesced)]
    <3>1. PICK l : l = PQ!Batch(PQ!Coalesced)
      OBVIOUS
    <3>2. job' = [kind |-> job.kind, pc |-> "next", left |-> l, at |-> job.at, tick |-> job.tick]
      BY <1>3, <2>2, <3>1
    <3>3. /\ queueRows' \in [PQ!Types -> 0 .. last]
          /\ queueRows'["cadence"] = queueRows["cadence"]
          /\ \A t \in PQ!Types : queueRows'[t] # queueRows[t] =>
               /\ queueRows'[t] = 0
               /\ t \in SlotState /\ \E u \in SlotState : queueRows'[u] # 0 /\ PQ!Rank[u] < PQ!Rank[t]
      BY <1>0, <2>2, CoalescedKeeps
    <3>4. PQ!QueueInv'
      BY <1>1, <1>2, <3>2, <3>3, JobMoves
    <3> QED BY <3>3, <3>4 DEF PQ!RowsKeptStep
  <2> QED BY <1>4, <2>1, <2>2 DEF PQ!DrainReads
<1>5. CASE PQ!NextRow
  <2>1. PICK l, a, pc : /\ l = Tail(job.left) /\ a = Head(job.left)
                        /\ pc = (IF type[Head(job.left)] = "check" THEN "look" ELSE "mark")
    OBVIOUS
  <2>2. job' \in {NULL, [kind |-> job.kind, pc |-> pc, left |-> l, at |-> a, tick |-> job.tick]}
    BY <1>3, <1>5, <2>1 DEF PQ!NextRow
  <2>3. queueRows' = queueRows
    BY <1>5 DEF PQ!NextRow
  <2>4. pc \notin {"send", "key"} /\ (pc = "look" /\ a \in PQ!Stamp => type[a] = "check")
    BY <2>1
  <2>5. PQ!QueueInv'
    BY <1>1, <1>2, <1>3, <2>2, <2>3, <2>4, JobMoves
  <2> QED BY <2>3, <2>5 DEF PQ!RowsKeptStep
<1>6. CASE PQ!CheckLooked \/ PQ!MarkRead
  <2>1. PICK pc \in {"next", "mark", "deliver"} : PQ!Goto(pc)
    BY <1>6 DEF PQ!CheckLooked, PQ!MarkRead
  <2>2. job' = [kind |-> job.kind, pc |-> pc, left |-> job.left, at |-> job.at, tick |-> job.tick]
    BY <1>0, <1>1, <2>1, JobGoes
  <2>3. \/ queueRows' = queueRows
        \/ /\ queueRows' = PQ!Without(job.at)
           /\ \/ job.pc = "look"
              \/ queueMark[job.at] = "delivered"
    BY <1>6 DEF PQ!CheckLooked, PQ!MarkRead
  <2>4. /\ queueRows' \in [PQ!Types -> 0 .. last]
        /\ \A t \in PQ!Types : queueRows'[t] = queueRows[t]
             \/ /\ queueRows'[t] = 0 /\ queueRows[t] = job.at /\ type[job.at] = t /\ job.at \in 1 .. last
                /\ (queueMark[job.at] = "delivered" \/ t = "check")
    <3>1. CASE queueRows' = queueRows
      BY <1>3, <3>1
    <3>2. CASE queueRows' = PQ!Without(job.at) /\ (job.pc = "look" \/ queueMark[job.at] = "delivered")
      <4>1. /\ queueRows' \in [PQ!Types -> 0 .. last]
            /\ \A t \in PQ!Types : queueRows'[t] = queueRows[t]
                 \/ (queueRows'[t] = 0 /\ queueRows[t] = job.at /\ type[job.at] = t /\ job.at \in 1 .. last)
        BY <1>0, <3>2, WithoutKeeps
      <4>2. job.pc = "look" /\ job.at \in 1 .. last => type[job.at] = "check"
        BY <1>0, <1>1, <1>3 DEF PQ!AttemptsJournalled
      <4> QED BY <3>2, <4>1, <4>2
    <3> QED BY <2>3, <3>1, <3>2
  <2>5. PQ!QueueInv'
    <3>1. queueRows'["cadence"] = queueRows["cadence"]
           \/ (queueRows["cadence"] # 0 /\ queueMark[queueRows["cadence"]] = "delivered")
      BY <1>3, <2>4
    <3>2. \A t \in PQ!Types : queueRows'[t] \in {queueRows[t], 0}
      BY <2>4
    <3>3. pc \notin {"send", "key"} /\ pc # "look"
      OBVIOUS
    <3> QED BY <1>1, <1>2, <2>2, <2>4, <3>1, <3>2, <3>3, JobMoves
  <2>6. PQ!RowsKeptStep
    <3>1. ASSUME NEW t \in PQ!Types, queueRows[t] # 0, queueRows'[t] # queueRows[t]
          PROVE  \/ queueMark'[queueRows[t]] = "delivered"
                 \/ t \in {"check", "reminder"} /\ job # NULL /\ job.at = queueRows[t]
      BY <1>1, <2>4, <3>1 DEF PQ!Running
    <3> QED BY <3>1 DEF PQ!RowsKeptStep
  <2> QED BY <2>5, <2>6
<1> QED BY <1>4, <1>5, <1>6

LEMMA DeliveryKeeps ==
  ASSUME PQ!QueueInv,
         PQ!RowDelivered \/ PQ!Sent \/ PQ!KeySent
  PROVE  PQ!QueueInv' /\ PQ!RowsKeptStep
<1> USE QueueAssumption
<1>0. PQ!QueueShape /\ PQ!AttemptsJournalled
  BY DEF PQ!QueueInv
<1>1. /\ PQ!Running /\ job.pc \in {"deliver", "send", "key"} /\ TRUE \in BOOLEAN /\ FALSE \in BOOLEAN
      /\ chain' = chain /\ type' = type /\ last' = last /\ due' = due
  BY DEF PQ!RowDelivered, PQ!Sent, PQ!KeySent, PQ!Running
<1>2. /\ queueMark \in [PQ!Stamp -> PQ!Marks] /\ pasted \in [PQ!Stamp -> Nat]
      /\ \A n \in PQ!Stamp : /\ pasted[n] <= 1 /\ (pasted[n] = 1 => PQ!Blocking(queueMark[n]))
                              /\ (queueMark[n] = "delivered" => pasted[n] = 1)
  BY <1>0 DEF PQ!QueueShape, PQ!AttemptsJournalled
<1>3. CASE PQ!RowDelivered
  <2>0. pasted' = pasted
    BY <1>3 DEF PQ!RowDelivered
  <2>1. ASSUME NEW ok \in BOOLEAN, PQ!Reply(ok), ok => queueMark[job.at] = "delivered",
               queueMark' = queueMark, queueRows' \in {queueRows, PQ!Without(job.at)},
               queueRows' # queueRows => type[job.at] = "reminder"
        PROVE  PQ!QueueInv' /\ PQ!RowsKeptStep
    BY <1>1, <1>2, <2>0, <2>1, AttemptEnds
  <2>3. CASE PQ!Reply(queueMark[job.at] = "delivered") /\ queueRows' = queueRows /\ queueMark' = queueMark
    <3>1. PICK ok \in BOOLEAN : ok = (queueMark[job.at] = "delivered")
      OBVIOUS
    <3>2. PQ!Reply(ok)
      BY <2>3, <3>1
    <3> QED BY <2>1, <2>3, <3>1, <3>2
  <2>4. CASE /\ type[job.at] = "reminder" /\ queueRows' \in {queueRows, PQ!Without(job.at)}
             /\ PQ!Reply(FALSE) /\ queueMark' = queueMark
    BY <1>1, <2>1, <2>4
  <2>2. CASE /\ ~PQ!Blocking(queueMark[job.at]) /\ queueMark' = [queueMark EXCEPT ![job.at] = "started"]
             /\ PQ!Goto("send") /\ queueRows' = queueRows /\ tick' = tick
    <3>1. pasted' = pasted /\ job.pc = "deliver"
      BY <1>3 DEF PQ!RowDelivered
    <3>2. queueMark' \in [PQ!Stamp -> PQ!Marks]
      BY <1>2, <2>2 DEF PQ!Marks
    <3>3. job.at \in PQ!Stamp => /\ queueMark[job.at] # "delivered" /\ queueMark'[job.at] = "started"
                                /\ pasted'[job.at] = 0
      BY <1>2, <2>2, <3>1 DEF PQ!Blocking
    <3>4. \A n \in PQ!Stamp : n # job.at => queueMark'[n] = queueMark[n]
      BY <1>2, <2>2
    <3> QED BY <1>1, <1>2, <2>2, <3>1, <3>2, <3>3, <3>4, AttemptGoes
  <2> QED BY <1>3, <2>2, <2>3, <2>4 DEF PQ!RowDelivered
<1>4. ASSUME NEW m \in {"deferred", "ambiguous", "delivered"}, NEW ok \in BOOLEAN,
             NEW p \in {pasted, [pasted EXCEPT ![job.at] = @ + 1]},
             queueMark' = [queueMark EXCEPT ![job.at] = m], pasted' = p, PQ!Reply(ok),
             ok <=> m = "delivered",
             queueRows' = queueRows \/ (m = "delivered" /\ queueRows' = PQ!Without(job.at)),
             job.at \in PQ!Stamp =>
               /\ queueMark[job.at] = "started"
               /\ \/ m = "delivered" /\ pasted'[job.at] = 1
                  \/ m = "ambiguous" /\ pasted'[job.at] <= 1
                  \/ m = "deferred" /\ pasted'[job.at] = 0
      PROVE  PQ!QueueInv' /\ PQ!RowsKeptStep
  <2>1. queueMark' \in [PQ!Stamp -> PQ!Marks]
    BY <1>2, <1>4 DEF PQ!Marks
  <2>2. pasted' \in [PQ!Stamp -> Nat]
    BY <1>2, <1>4
  <2>3. \A n \in PQ!Stamp : n # job.at => queueMark'[n] = queueMark[n] /\ pasted'[n] = pasted[n]
    BY <1>2, <1>4
  <2>4. job.at \in PQ!Stamp =>
           /\ pasted'[job.at] <= 1 /\ (pasted'[job.at] = 1 => PQ!Blocking(queueMark'[job.at]))
           /\ (queueMark'[job.at] = "delivered" => pasted'[job.at] = 1)
           /\ (queueMark[job.at] = "delivered" => queueMark'[job.at] = "delivered")
           /\ (ok => queueMark'[job.at] = "delivered")
    BY <1>2, <1>4 DEF PQ!Blocking
  <2>5. queueRows' # queueRows /\ job.at \in PQ!Stamp => queueMark'[job.at] = "delivered"
    BY <1>2, <1>4
  <2> QED BY <1>1, <1>4, <2>1, <2>2, <2>3, <2>4, <2>5, AttemptEnds
<1>5. CASE PQ!Sent
  <2>1. job.pc = "send" /\ queueRows' = queueRows
    BY <1>5 DEF PQ!Sent
  <2>2. job.at \in PQ!Stamp => queueMark[job.at] = "started" /\ pasted[job.at] = 0
    BY <1>0, <1>1, <2>1 DEF PQ!AttemptsJournalled
  <2>3. CASE queueMark' = [queueMark EXCEPT ![job.at] = "deferred"] /\ PQ!Reply(FALSE) /\ pasted' = pasted
    BY <1>1, <1>2, <1>4, <2>1, <2>2, <2>3
  <2>4. CASE /\ pasted' = [pasted EXCEPT ![job.at] = @ + 1]
             /\ PQ!Goto("key") /\ queueMark' = queueMark /\ tick' = tick
    <3>1. pasted' \in [PQ!Stamp -> Nat]
      <4>1. job.at \in PQ!Stamp => pasted[job.at] + 1 \in Nat
        BY <1>2
      <4> QED BY <1>2, <2>4, <4>1
    <3>2. job.at \in PQ!Stamp => /\ queueMark[job.at] # "delivered" /\ queueMark'[job.at] = "started"
                                /\ pasted'[job.at] = 1
      BY <1>2, <2>2, <2>4
    <3>3. \A n \in PQ!Stamp : n # job.at => pasted'[n] = pasted[n]
      BY <1>2, <2>4
    <3> QED BY <1>1, <1>2, <2>1, <2>4, <3>1, <3>2, <3>3, AttemptGoes
  <2>5. CASE /\ pasted' \in {pasted, [pasted EXCEPT ![job.at] = @ + 1]}
             /\ queueMark' = [queueMark EXCEPT ![job.at] = "ambiguous"] /\ PQ!Reply(FALSE)
    <3>1. job.at \in PQ!Stamp => pasted'[job.at] <= 1
      BY <1>2, <2>2, <2>5
    <3> QED BY <1>1, <1>4, <2>1, <2>2, <2>5, <3>1
  <2> QED BY <1>5, <2>3, <2>4, <2>5 DEF PQ!Sent
<1>6. CASE PQ!KeySent
  <2>1. job.pc = "key" /\ pasted' = pasted
    BY <1>6 DEF PQ!KeySent
  <2>2. job.at \in PQ!Stamp => queueMark[job.at] = "started" /\ pasted[job.at] = 1
    BY <1>0, <1>1, <2>1 DEF PQ!AttemptsJournalled
  <2>3. CASE /\ queueMark' = [queueMark EXCEPT ![job.at] = "delivered"]
             /\ queueRows' = PQ!Without(job.at) /\ PQ!Reply(TRUE)
    BY <1>1, <1>4, <2>1, <2>2, <2>3
  <2>4. CASE queueMark' = [queueMark EXCEPT ![job.at] = "ambiguous"] /\ PQ!Reply(FALSE) /\ queueRows' = queueRows
    <3>1. "ambiguous" \in {"deferred", "ambiguous", "delivered"} /\ "ambiguous" # "delivered"
          /\ pasted' \in {pasted, [pasted EXCEPT ![job.at] = @ + 1]}
          /\ (job.at \in PQ!Stamp => queueMark[job.at] = "started" /\ pasted'[job.at] <= 1)
      BY <2>1, <2>2
    <3> QED BY <1>1, <1>4, <2>1, <2>4, <3>1
  <2> QED BY <1>6, <2>3, <2>4 DEF PQ!KeySent
<1> QED BY <1>3, <1>5, <1>6

LEMMA RestartKeeps ==
  ASSUME PQ!QueueInv, PQ!Restart
  PROVE  PQ!QueueInv' /\ PQ!RowsKeptStep
<1> USE QueueAssumption
<1>0. PQ!QueueShape /\ PQ!AttemptsJournalled /\ PQ!OneTickJob /\ PQ!OneCadenceRow
  BY DEF PQ!QueueInv
<1>1. /\ job' = NULL /\ chain' = <<>> /\ tick' = [of |-> "none", heard |-> "nothing"]
      /\ queueRows' = queueRows /\ type' = type /\ queueMark' = queueMark /\ last' = last
      /\ due' = due /\ pasted' = pasted
  BY DEF PQ!Restart, PQ!NoTick
<1>2. chain' \in Seq(PQ!QueuedJob) /\ DOMAIN chain' = {}
  BY <1>1
<1>3. /\ tick' \in [of : {"none", "cadence", "reminder"}, heard : {"nothing", "ok", "refused"}]
      /\ tick' # [of |-> "cadence", heard |-> "ok"]
  BY <1>1
<1>4. PQ!QueueShape'
  BY <1>0, <1>1, <1>2, <1>3 DEF PQ!QueueShape, PQ!Running
<1>5. PQ!AttemptsJournalled'
  BY <1>0, <1>1 DEF PQ!AttemptsJournalled, PQ!Running
<1>6. PQ!OneTickJob'
  BY <1>1, <1>2 DEF PQ!OneTickJob, PQ!Running
<1>7. PQ!OneCadenceRow' /\ PQ!RowsKeptStep
  BY <1>0, <1>1, <1>3 DEF PQ!OneCadenceRow, PQ!RowsKeptStep
<1> QED BY <1>4, <1>5, <1>6, <1>7 DEF PQ!QueueInv

(* The queue keeps its invariant, and what the run asks of it follows.      *)
LEMMA QueueStep ==
  ASSUME PQ!QueueInv, PQ!QueueNext
  PROVE  PQ!QueueInv' /\ PQ!RowsKeptStep
BY SlotEventKeeps, ServerKeeps, JobStartsKeeps, DrainKeeps, DeliveryKeeps, RestartKeeps DEF PQ!QueueNext

LEMMA QueueOnce == PQ!QueueInv => PQ!OccurrenceOnce
<1> SUFFICES ASSUME PQ!QueueInv PROVE PQ!OccurrenceOnce
  OBVIOUS
<1>1. \A n \in PQ!Stamp : pasted[n] <= 1 /\ (queueMark[n] = "delivered" => pasted[n] = 1)
  BY DEF PQ!QueueInv, PQ!AttemptsJournalled
<1> QED BY <1>1 DEF PQ!QueueInv, PQ!OneCadenceRow, PQ!OccurrenceOnce

-----------------------------------------------------------------------------
(* The respawn of a slot's agent (RespawnIdle).                             *)

LEMMA RespawnInit == RI!RespawnInit => RI!RespawnInv
<1> SUFFICES ASSUME RI!RespawnInit PROVE RI!RespawnInv
  OBVIOUS
<1> USE RespawnAssumption
<1>1. \A r \in RI!Route : routes[r] = RI!NoRoute
  BY DEF RI!RespawnInit
<1>2. RI!NoRoute \in RI!Course /\ RI!NoRoute.pc = "off" /\ RI!NoRoute.pin.id = 0 /\ ~RI!NoRoute.marked
  BY DEF RI!NoRoute, RI!Course, RI!RoutePc
<1>3. routes \in [RI!Route -> RI!Course]
  BY <1>2 DEF RI!RespawnInit
<1>4. RI!RespawnShape
  <2>1. slot = [epoch |-> 0, session |-> 0, prompts |-> 0, open |-> FALSE]
    BY DEF RI!RespawnInit
  <2>2. slot \in [epoch : Nat, session : Nat, prompts : Nat, open : BOOLEAN]
    BY <2>1
  <2>3. /\ exits = [i \in 1 .. MaxRequests |-> 0] /\ quiet = [q \in RI!Route |-> FALSE]
        /\ request = NULL /\ respawnMark = FALSE /\ cooling = FALSE /\ forsaken = FALSE
        /\ asked = 0 /\ launches = 0
    BY DEF RI!RespawnInit
  <2>4. exits \in [1 .. MaxRequests -> Nat]
    BY <2>3
  <2>5. quiet \in [RI!Route -> BOOLEAN]
    BY <2>3
  <2>6. /\ request \in [id : Nat, epoch : Nat, session : Nat, resumed : BOOLEAN, attempted : BOOLEAN]
                       \cup {NULL}
        /\ asked \in 0 .. MaxRequests /\ launches \in Nat
    BY <2>3
  <2>7. respawnMark \in BOOLEAN /\ cooling \in BOOLEAN /\ forsaken \in BOOLEAN
    BY <2>3
  <2> QED BY <1>3, <2>2, <2>4, <2>5, <2>6, <2>7 DEF RI!RespawnShape
<1>5. RI!ExitsRecorded
  BY <1>1, <1>2 DEF RI!RespawnInit, RI!ExitsRecorded, RI!Same, RI!Route
<1>6. RI!QuietIsCounted /\ RI!MarkIsOwned /\ RI!BootsAreAwaited
  BY <1>1, <1>2 DEF RI!RespawnInit, RI!QuietIsCounted, RI!MarkIsOwned, RI!BootsAreAwaited,
     RI!AtWork, RI!Marked, RI!Unsent
<1> QED BY <1>4, <1>5, <1>6 DEF RI!RespawnInv

(* A caller of the route that takes a step, and the other one.              *)
LEMMA CourseSet ==
  ASSUME routes \in [RI!Route -> RI!Course], NEW r \in RI!Route, NEW c \in RI!Course,
         routes' = [routes EXCEPT ![r] = c]
  PROVE  /\ routes' \in [RI!Route -> RI!Course] /\ routes'[r] = c
         /\ \A q \in RI!Route : q # r => routes'[q] = routes[q]
OBVIOUS

LEMMA CourseGoes ==
  ASSUME routes \in [RI!Route -> RI!Course], NEW r \in RI!Route, NEW pc \in RI!RoutePc, RI!Go(r, pc)
  PROVE  /\ routes' \in [RI!Route -> RI!Course] /\ routes'[r].pc = pc
         /\ routes'[r].pin = routes[r].pin /\ routes'[r].prompts = routes[r].prompts
         /\ (routes'[r].marked <=> routes[r].marked)
         /\ \A q \in RI!Route : q # r => routes'[q] = routes[q]
<1>1. [routes[r] EXCEPT !.pc = pc] \in RI!Course
  BY DEF RI!Course
<1>2. routes' = [routes EXCEPT ![r] = [routes[r] EXCEPT !.pc = pc]]
  BY DEF RI!Go
<1>3. /\ routes' \in [RI!Route -> RI!Course] /\ routes'[r] = [routes[r] EXCEPT !.pc = pc]
      /\ \A q \in RI!Route : q # r => routes'[q] = routes[q]
  BY <1>1, <1>2, CourseSet
<1>4. routes[r] \in RI!Course
  OBVIOUS
<1>5. PICK c : c = routes'[r]
  OBVIOUS
<1>6. c = [routes[r] EXCEPT !.pc = pc]
  BY <1>3, <1>5
<1>7. c.pc = pc /\ c.pin = routes[r].pin /\ c.prompts = routes[r].prompts /\ (c.marked <=> routes[r].marked)
  BY <1>4, <1>6 DEF RI!Course
<1> QED BY <1>3, <1>5, <1>7

(* A route that ends leaves nothing of its own behind.                      *)
LEMMA OutcomeKeeps ==
  ASSUME RI!RespawnInv, NEW r \in RI!Route, NEW kind, RI!Outcome(r, kind),
         slot' = slot, pane' = pane, asked' = asked, launches' = launches, exits' = exits, health' = health,
         respawnMark' = (respawnMark /\ ~routes[r].marked),
         cooling' \in {cooling, TRUE}, forsaken' \in {forsaken, TRUE},
         routes[r].pc = "boot" => cooling' \/ forsaken'
  PROVE  RI!RespawnInv' /\ RI!RestartIsDueStep
<1> USE RespawnAssumption
<1>0. /\ RI!RespawnShape /\ RI!ExitsRecorded /\ RI!QuietIsCounted /\ RI!MarkIsOwned /\ RI!BootsAreAwaited
      /\ routes \in [RI!Route -> RI!Course]
  BY DEF RI!RespawnInv, RI!RespawnShape
<1>1. RI!NoRoute \in RI!Course /\ RI!NoRoute.pc = "off" /\ RI!NoRoute.pin.id = 0 /\ ~RI!NoRoute.marked
  BY DEF RI!NoRoute, RI!Course, RI!RoutePc
<1>2. /\ routes' \in [RI!Route -> RI!Course] /\ routes'[r] = RI!NoRoute
      /\ \A q \in RI!Route : q # r => routes'[q] = routes[q]
  BY <1>0, <1>1, CourseSet DEF RI!Outcome
<1>3. /\ quiet' = [quiet EXCEPT ![r] = FALSE]
      /\ sendLock' = (IF sendLock = r THEN NULL ELSE sendLock)
      /\ request' \in {request, NULL}
  BY DEF RI!Outcome
<1>4. RI!RespawnShape'
  BY <1>0, <1>2, <1>3 DEF RI!RespawnShape
<1>5. RI!ExitsRecorded'
  BY <1>0, <1>1, <1>2, <1>3 DEF RI!ExitsRecorded, RI!Same, RI!RespawnShape, RI!Route
<1>6. RI!QuietIsCounted'
  BY <1>0, <1>1, <1>2, <1>3 DEF RI!QuietIsCounted, RI!RespawnShape, RI!AtWork
<1>7. RI!MarkIsOwned'
  BY <1>0, <1>1, <1>2, <1>3 DEF RI!MarkIsOwned, RI!Marked, RI!Unsent, RI!Route
<1>8. RI!BootsAreAwaited'
  BY <1>0, <1>1, <1>2 DEF RI!BootsAreAwaited, RI!MarkIsOwned, RI!Marked, RI!Unsent
<1>9. RI!RestartIsDueStep
  BY <1>1, <1>2 DEF RI!RestartIsDueStep
<1> QED BY <1>4, <1>5, <1>6, <1>7, <1>8, <1>9 DEF RI!RespawnInv

(* A tick and a call up to the entry of the route.                          *)
LEMMA LooksKeep ==
  ASSUME RI!RespawnInv,
         RI!Tick \/ RI!TickLooked("look", "busy") \/ RI!TickLooked("busy", "entry") \/ RI!DirectCall
  PROVE  RI!RespawnInv' /\ RI!RestartIsDueStep
<1> USE RespawnAssumption
<1>0. /\ RI!RespawnShape /\ RI!ExitsRecorded /\ RI!QuietIsCounted /\ RI!MarkIsOwned /\ RI!BootsAreAwaited
      /\ routes \in [RI!Route -> RI!Course]
  BY DEF RI!RespawnInv, RI!RespawnShape
<1>1. RI!NoRoute \in RI!Course /\ RI!NoRoute.pc = "off" /\ RI!NoRoute.pin.id = 0 /\ ~RI!NoRoute.marked
  BY DEF RI!NoRoute, RI!Course, RI!RoutePc
<1>2. /\ slot' = slot /\ pane' = pane /\ launches' = launches /\ forsaken' = forsaken
      /\ sendLock' = sendLock /\ health' = health /\ respawnMark' = respawnMark /\ cooling' = cooling
      /\ asked' = asked /\ exits' = exits /\ quiet' = quiet /\ request' \in {request, NULL}
  BY DEF RI!Tick, RI!TickLooked, RI!DirectCall, RI!world, RI!counts
<1>3. ASSUME NEW r \in RI!Route, routes[r].pc \in {"off", "look", "busy"},
             routes' \in [RI!Route -> RI!Course],
             \A q \in RI!Route : q # r => routes'[q] = routes[q],
             routes'[r].pc \in {"off", "look", "busy", "entry"},
             routes'[r].marked => routes[r].marked,
             r = "tick" =>
               \/ routes'[r].pin = routes[r].pin /\ routes[r].pc # "off"
               \/ routes'[r].pin.id = 0 /\ routes'[r].pc = "off"
               \/ /\ request # NULL /\ routes'[r].pin.id = request.id
                  /\ routes'[r].pin.epoch = request.epoch
                  /\ routes'[r].pin.session = request.session
      PROVE  RI!RespawnInv' /\ RI!RestartIsDueStep
  <2>1. RI!RespawnShape'
    BY <1>0, <1>2, <1>3 DEF RI!RespawnShape
  <2>2. RI!ExitsRecorded'
    <3>1. "tick" \in RI!Route
      BY DEF RI!Route
    <3>2. /\ routes'["tick"].pin.id <= asked
          /\ (routes'["tick"].pc # "off" => routes'["tick"].pin.id > 0)
          /\ (RI!Same(routes'["tick"].pin) => /\ routes'["tick"].pin.epoch = request.epoch
                                            /\ routes'["tick"].pin.session = request.session)
      BY <1>0, <1>3, <3>1 DEF RI!ExitsRecorded, RI!Same, RI!RespawnShape
    <3> QED BY <1>0, <1>2, <3>2 DEF RI!ExitsRecorded, RI!Same
  <2>3. RI!QuietIsCounted'
    BY <1>0, <1>2, <1>3 DEF RI!QuietIsCounted, RI!AtWork
  <2>4. RI!MarkIsOwned'
    BY <1>0, <1>2, <1>3 DEF RI!MarkIsOwned, RI!Marked, RI!Unsent
  <2>5. RI!BootsAreAwaited'
    BY <1>0, <1>2, <1>3 DEF RI!BootsAreAwaited, RI!Marked
  <2>6. RI!RestartIsDueStep
    BY <1>2, <1>3 DEF RI!RestartIsDueStep
  <2> QED BY <2>1, <2>2, <2>3, <2>4, <2>5, <2>6 DEF RI!RespawnInv
<1>4. "tick" \in RI!Route /\ "direct" \in RI!Route /\ "tick" # "direct"
  BY DEF RI!Route
<1>5. CASE RI!Tick
  <2>1. PICK c : c = [RI!NoRoute EXCEPT !.pc = "look",
          !.pin = [id |-> request.id, epoch |-> request.epoch, session |-> request.session]]
    OBVIOUS
  <2>2. /\ c \in RI!Course /\ c.pc = "look" /\ c.pin.id = request.id /\ c.pin.epoch = request.epoch
        /\ c.pin.session = request.session /\ ~c.marked
    BY <1>0, <1>5, <2>1 DEF RI!Tick, RI!NoRoute, RI!Course, RI!RoutePc, RI!RespawnShape
  <2>3. routes' = [routes EXCEPT !["tick"] = c] /\ routes["tick"].pc = "off" /\ request # NULL
    BY <1>5, <2>1 DEF RI!Tick
  <2>4. /\ routes' \in [RI!Route -> RI!Course] /\ routes'["tick"] = c
        /\ \A q \in RI!Route : q # "tick" => routes'[q] = routes[q]
    BY <1>0, <1>4, <2>2, <2>3, CourseSet
  <2> QED BY <1>3, <1>4, <2>2, <2>3, <2>4
<1>6. CASE RI!DirectCall
  <2>1. "entry" \in RI!RoutePc /\ routes["direct"].pc = "off" /\ RI!Go("direct", "entry")
    BY <1>6 DEF RI!RoutePc, RI!DirectCall
  <2>2. /\ routes' \in [RI!Route -> RI!Course] /\ routes'["direct"].pc = "entry"
        /\ (routes'["direct"].marked <=> routes["direct"].marked)
        /\ \A q \in RI!Route : q # "direct" => routes'[q] = routes[q]
    BY <1>0, <1>4, <2>1, CourseGoes
  <2> QED BY <1>3, <1>4, <2>1, <2>2
<1>7. ASSUME NEW pc \in {"look", "busy"}, NEW next \in {"busy", "entry"}, RI!TickLooked(pc, next)
      PROVE  RI!RespawnInv' /\ RI!RestartIsDueStep
  <2>1. routes["tick"].pc = pc /\ next \in RI!RoutePc
    BY <1>7 DEF RI!RoutePc, RI!TickLooked
  <2>2. CASE RI!Go("tick", next)
    <3>1. PICK r \in RI!Route : r = "tick"
      BY <1>4
    <3>2. RI!Go(r, next) /\ routes[r].pc \in {"look", "busy"}
      BY <2>1, <2>2, <3>1
    <3>3. /\ routes' \in [RI!Route -> RI!Course] /\ routes'[r].pc = next
          /\ routes'[r].pin = routes[r].pin /\ (routes'[r].marked <=> routes[r].marked)
          /\ \A q \in RI!Route : q # r => routes'[q] = routes[q]
      BY <1>0, <2>1, <3>2, CourseGoes
    <3>4. /\ routes[r].pc \in {"off", "look", "busy"} /\ routes[r].pc # "off"
          /\ routes'[r].pc \in {"off", "look", "busy", "entry"}
      BY <3>2, <3>3
    <3>5. routes'[r].marked => routes[r].marked
      BY <3>3
    <3>6. routes'[r].pin = routes[r].pin
      BY <3>3
    <3> QED BY <1>3, <3>3, <3>4, <3>5, <3>6
  <2>3. CASE routes' = [routes EXCEPT !["tick"] = RI!NoRoute]
    <3>1. /\ routes' \in [RI!Route -> RI!Course] /\ routes'["tick"] = RI!NoRoute
          /\ \A q \in RI!Route : q # "tick" => routes'[q] = routes[q]
      BY <1>0, <1>1, <1>4, <2>3, CourseSet
    <3> QED BY <1>1, <1>3, <1>4, <2>1, <3>1
  <2> QED BY <1>7, <2>2, <2>3 DEF RI!TickLooked
<1> QED BY <1>5, <1>6, <1>7

LEMMA EnteredKeeps ==
  ASSUME RI!RespawnInv, NEW r \in RI!Route, RI!RouteEntered(r) \/ RI!PaneLooked(r)
  PROVE  RI!RespawnInv' /\ RI!RestartIsDueStep
<1> USE RespawnAssumption
<1>0. /\ RI!RespawnShape /\ RI!ExitsRecorded /\ RI!QuietIsCounted /\ RI!MarkIsOwned /\ RI!BootsAreAwaited
      /\ routes \in [RI!Route -> RI!Course]
  BY DEF RI!RespawnInv, RI!RespawnShape
<1>1. /\ slot' = slot /\ pane' = pane /\ launches' = launches /\ forsaken' = forsaken
      /\ health' = health /\ respawnMark' = respawnMark /\ cooling' = cooling
      /\ asked' = asked /\ exits' = exits /\ routes[r].pc \in {"entry", "deliver"} /\ ~routes[r].marked
  BY <1>0 DEF RI!RouteEntered, RI!PaneLooked, RI!world, RI!counts, RI!NoMark, RI!MarkIsOwned, RI!Marked
<1>2. ASSUME NEW kind, RI!Outcome(r, kind) PROVE RI!RespawnInv' /\ RI!RestartIsDueStep
  <2>1. respawnMark' = (respawnMark /\ ~routes[r].marked) /\ routes[r].pc # "boot"
    BY <1>0, <1>1 DEF RI!RespawnShape
  <2> QED BY <1>1, <1>2, <2>1, OutcomeKeeps
<1>3. CASE RI!RouteEntered(r) /\ quiet' = [quiet EXCEPT ![r] = TRUE] /\ request' = request
             /\ sendLock' = sendLock /\ routes[r].pc = "entry"
             /\ routes' = [routes EXCEPT ![r] = [pc |-> "deliver", prompts |-> slot.prompts, marked |-> FALSE,
                  pin |-> IF r = "tick" THEN routes[r].pin
                          ELSE [id |-> 0, epoch |-> slot.epoch, session |-> slot.session]]]
  <2>1. PICK p : p = IF r = "tick" THEN routes[r].pin ELSE [id |-> 0, epoch |-> slot.epoch, session |-> slot.session]
    OBVIOUS
  <2>2. p \in [id : Nat, epoch : Nat, session : Nat]
    BY <1>0, <2>1 DEF RI!RespawnShape, RI!Course
  <2>3. PICK c : c = [pc |-> "deliver", prompts |-> slot.prompts, marked |-> FALSE, pin |-> p]
    OBVIOUS
  <2>4. c \in RI!Course /\ c.pc = "deliver" /\ c.pin = p /\ c.prompts = slot.prompts /\ ~c.marked
    BY <1>0, <2>2, <2>3 DEF RI!RespawnShape, RI!Course, RI!RoutePc
  <2>5. routes' = [routes EXCEPT ![r] = c]
    BY <1>3, <2>1, <2>3
  <2>6. /\ routes' \in [RI!Route -> RI!Course] /\ routes'[r] = c
        /\ \A q \in RI!Route : q # r => routes'[q] = routes[q]
    BY <1>0, <2>4, <2>5, CourseSet
  <2>7. RI!RespawnShape'
    BY <1>0, <1>1, <1>3, <2>6 DEF RI!RespawnShape
  <2>8. RI!ExitsRecorded'
    BY <1>0, <1>1, <1>3, <2>1, <2>4, <2>6 DEF RI!ExitsRecorded, RI!Same, RI!Route
  <2>9. RI!QuietIsCounted'
    BY <1>0, <1>1, <1>3, <2>4, <2>6 DEF RI!QuietIsCounted, RI!AtWork, RI!RespawnShape
  <2>10. RI!MarkIsOwned'
    BY <1>0, <1>1, <1>3, <2>4, <2>6 DEF RI!MarkIsOwned, RI!Marked, RI!Unsent
  <2>11. RI!BootsAreAwaited'
    BY <1>0, <1>1, <1>3, <2>4, <2>6 DEF RI!BootsAreAwaited, RI!Marked
  <2>12. RI!RestartIsDueStep
    BY <1>1, <2>4, <2>6 DEF RI!RestartIsDueStep
  <2> QED BY <2>7, <2>8, <2>9, <2>10, <2>11, <2>12 DEF RI!RespawnInv
<1>4. CASE pane = "agent" /\ RI!Go(r, "attempt") /\ sendLock' = r /\ request' = request /\ quiet' = quiet
             /\ routes[r].pc = "deliver" /\ sendLock \in {NULL, r}
  <2>1. /\ routes' \in [RI!Route -> RI!Course] /\ routes'[r].pc = "attempt"
        /\ routes'[r].pin = routes[r].pin /\ routes'[r].prompts = routes[r].prompts
        /\ (routes'[r].marked <=> routes[r].marked)
        /\ \A q \in RI!Route : q # r => routes'[q] = routes[q]
    BY <1>0, <1>4, CourseGoes DEF RI!RoutePc
  <2>2. RI!RespawnShape'
    BY <1>0, <1>1, <1>4, <2>1 DEF RI!RespawnShape
  <2>3. RI!ExitsRecorded'
    BY <1>0, <1>1, <1>4, <2>1 DEF RI!ExitsRecorded, RI!Same, RI!Route
  <2>4. RI!QuietIsCounted'
    BY <1>0, <1>1, <1>4, <2>1 DEF RI!QuietIsCounted, RI!AtWork
  <2>5. RI!MarkIsOwned'
    BY <1>0, <1>1, <1>4, <2>1 DEF RI!MarkIsOwned, RI!Marked, RI!Unsent, RI!Route
  <2>6. RI!BootsAreAwaited'
    BY <1>0, <1>1, <1>4, <2>1 DEF RI!BootsAreAwaited, RI!Marked
  <2>7. RI!RestartIsDueStep
    BY <1>1, <1>4, <2>1 DEF RI!RestartIsDueStep
  <2> QED BY <2>2, <2>3, <2>4, <2>5, <2>6, <2>7 DEF RI!RespawnInv
<1>5. CASE RI!RouteEntered(r)
  BY <1>2, <1>3, <1>5 DEF RI!RouteEntered
<1>6. CASE RI!PaneLooked(r)
  BY <1>2, <1>4, <1>6 DEF RI!PaneLooked
<1> QED BY <1>5, <1>6

LEMMA AttemptKeeps ==
  ASSUME RI!RespawnInv, NEW r \in RI!Route, RI!Attempt(r)
  PROVE  RI!RespawnInv' /\ RI!RestartIsDueStep
<1> USE RespawnAssumption
<1>0. /\ RI!RespawnShape /\ RI!ExitsRecorded /\ RI!QuietIsCounted /\ RI!MarkIsOwned /\ RI!BootsAreAwaited
      /\ routes \in [RI!Route -> RI!Course]
  BY DEF RI!RespawnInv, RI!RespawnShape
<1>1. /\ slot' = slot /\ pane' = pane /\ launches' = launches /\ forsaken' = forsaken
      /\ health' = health /\ asked' = asked /\ routes[r].pc = "attempt" /\ ~routes[r].marked
  BY <1>0 DEF RI!Attempt, RI!world, RI!counts, RI!MarkIsOwned, RI!Marked
<1>2. ASSUME NEW kind, RI!Outcome(r, kind), RI!NoMark, exits' = exits
      PROVE  RI!RespawnInv' /\ RI!RestartIsDueStep
  <2>1. respawnMark' = (respawnMark /\ ~routes[r].marked) /\ cooling' = cooling
    BY <1>0, <1>1, <1>2 DEF RI!RespawnShape, RI!NoMark
  <2> QED BY <1>1, <1>2, <2>1, OutcomeKeeps
<1>3. CASE /\ RI!Fence(routes[r].pin, FALSE) /\ ~respawnMark /\ respawnMark' = TRUE
           /\ routes' = [routes EXCEPT ![r] =
                           [pc |-> "paste", pin |-> @.pin, prompts |-> @.prompts, marked |-> TRUE]]
           /\ IF r = "tick"
              THEN request' = RI!RecordedAttempt /\ exits' = [exits EXCEPT ![routes[r].pin.id] = @ + 1]
              ELSE request' = request /\ exits' = exits
           /\ cooling' = cooling /\ sendLock' = sendLock /\ quiet' = quiet
  <2>1. PICK c : c = [pc |-> "paste", pin |-> routes[r].pin, prompts |-> routes[r].prompts, marked |-> TRUE]
    OBVIOUS
  <2>2. /\ c \in RI!Course /\ c.pc = "paste" /\ c.pin = routes[r].pin
        /\ c.prompts = routes[r].prompts /\ c.marked
    BY <1>0, <2>1 DEF RI!Course, RI!RoutePc
  <2>3. routes' = [routes EXCEPT ![r] = c]
    BY <1>3, <2>1
  <2>4. /\ routes' \in [RI!Route -> RI!Course] /\ routes'[r] = c
        /\ \A q \in RI!Route : q # r => routes'[q] = routes[q]
    BY <1>0, <2>2, <2>3, CourseSet
  <2>5. /\ request' = request \/ (r = "tick" /\ request # NULL /\ request' = [request EXCEPT !.attempted = TRUE])
        /\ r # "tick" => request' = request /\ exits' = exits
    BY <1>3 DEF RI!RecordedAttempt
  <2>6. r = "tick" => /\ request # NULL /\ ~request.attempted /\ routes[r].pin.id = request.id
                      /\ request' = [request EXCEPT !.attempted = TRUE]
                      /\ exits' = [exits EXCEPT ![request.id] = @ + 1]
    BY <1>0, <1>1, <1>3 DEF RI!Fence, RI!Same, RI!ExitsRecorded, RI!RecordedAttempt, RI!RespawnShape, RI!Course
  <2>7. r = "tick" => /\ request.id = asked /\ asked \in 1 .. MaxRequests /\ exits[asked] = 0
                      /\ request' = [id |-> request.id, epoch |-> request.epoch, session |-> request.session,
                                    resumed |-> request.resumed, attempted |-> TRUE]
    BY <1>0, <2>6 DEF RI!ExitsRecorded, RI!RespawnShape
  <2>8. RI!RespawnShape'
    <3>1. exits' \in [1 .. MaxRequests -> Nat]
      BY <1>0, <2>5, <2>6, <2>7 DEF RI!RespawnShape
    <3>2. request' \in [id : Nat, epoch : Nat, session : Nat, resumed : BOOLEAN, attempted : BOOLEAN]
                      \cup {NULL}
      BY <1>0, <2>5, <2>6, <2>7 DEF RI!RespawnShape
    <3> QED BY <1>0, <1>1, <1>3, <2>4, <3>1, <3>2 DEF RI!RespawnShape
  <2>9. RI!ExitsRecorded'
    <3>1. CASE r = "tick"
      <4>1. request'.id = asked /\ request'.attempted /\ request'.epoch = request.epoch
              /\ request'.session = request.session
        BY <2>7, <3>1
      <4>2. \A i \in 1 .. MaxRequests : exits'[i] = IF i = asked THEN 1 ELSE exits[i]
        BY <1>0, <2>6, <2>7, <3>1 DEF RI!RespawnShape
      <4>3. routes'["tick"].pin = routes["tick"].pin /\ routes["tick"].pc # "off"
        BY <1>1, <2>2, <2>4, <3>1
      <4> QED BY <1>0, <1>1, <2>6, <2>7, <3>1, <4>1, <4>2, <4>3 DEF RI!ExitsRecorded, RI!Same, RI!RespawnShape
    <3>2. CASE r # "tick"
      BY <1>0, <1>1, <2>4, <2>5, <3>2 DEF RI!ExitsRecorded, RI!Same, RI!Route
    <3> QED BY <3>1, <3>2
  <2>10. RI!QuietIsCounted'
    BY <1>0, <1>1, <1>3, <2>2, <2>4 DEF RI!QuietIsCounted, RI!AtWork
  <2>11. RI!MarkIsOwned'
    BY <1>0, <1>1, <1>3, <2>2, <2>4 DEF RI!MarkIsOwned, RI!Marked, RI!Unsent
  <2>12. RI!BootsAreAwaited'
    BY <1>0, <1>1, <1>3, <2>2, <2>4 DEF RI!BootsAreAwaited, RI!Marked, RI!MarkIsOwned, RI!Unsent
  <2>13. RI!RestartIsDueStep
    BY <1>1, <2>2, <2>4 DEF RI!RestartIsDueStep
  <2> QED BY <2>8, <2>9, <2>10, <2>11, <2>12, <2>13 DEF RI!RespawnInv
<1> QED BY <1>2, <1>3 DEF RI!Attempt

LEMMA KeysKeep ==
  ASSUME RI!RespawnInv, NEW r \in RI!Route, RI!Paste(r) \/ RI!Enter(r) \/ RI!ExitWaited(r)
  PROVE  RI!RespawnInv' /\ RI!RestartIsDueStep
<1> USE RespawnAssumption
<1>0. /\ RI!RespawnShape /\ RI!ExitsRecorded /\ RI!QuietIsCounted /\ RI!MarkIsOwned /\ RI!BootsAreAwaited
      /\ routes \in [RI!Route -> RI!Course]
  BY DEF RI!RespawnInv, RI!RespawnShape
<1>1. /\ slot' = slot /\ launches' = launches /\ forsaken' = forsaken /\ exits' = exits
      /\ health' = health /\ asked' = asked /\ routes[r].pc \in {"paste", "enter", "exited"}
  BY DEF RI!Paste, RI!Enter, RI!ExitWaited, RI!world, RI!counts
<1>2. ASSUME RI!Outcome(r, "failed"), RI!Unmark(r), pane' = pane
      PROVE  RI!RespawnInv' /\ RI!RestartIsDueStep
  <2>1. respawnMark' = (respawnMark /\ ~routes[r].marked) /\ cooling' = cooling
    BY <1>2 DEF RI!Unmark
  <2> QED BY <1>1, <1>2, <2>1, OutcomeKeeps
<1>3. ASSUME NEW pc \in {"enter", "exited", "launch"}, RI!Go(r, pc), RI!NoMark,
             request' = request, quiet' = quiet, sendLock' = sendLock \/ (pc = "exited" /\ sendLock' = NULL),
             pane' = pane \/ (pc = "exited" /\ pane' = "exiting"),
             \/ routes[r].pc = "paste" /\ pc = "enter"
             \/ routes[r].pc = "exited" /\ pc = "launch"
             \/ /\ routes[r].pc = "enter" /\ pc = "exited" /\ RI!Fence(routes[r].pin, TRUE) /\ RI!SameWork(r)
      PROVE  RI!RespawnInv' /\ RI!RestartIsDueStep
  <2>1. /\ routes' \in [RI!Route -> RI!Course] /\ routes'[r].pc = pc
        /\ routes'[r].pin = routes[r].pin /\ routes'[r].prompts = routes[r].prompts
        /\ (routes'[r].marked <=> routes[r].marked)
        /\ \A q \in RI!Route : q # r => routes'[q] = routes[q]
    BY <1>0, <1>3, CourseGoes DEF RI!RoutePc
  <2>2. respawnMark' = respawnMark /\ cooling' = cooling
    BY <1>3 DEF RI!NoMark
  <2>3. RI!RespawnShape'
    BY <1>0, <1>1, <1>3, <2>1, <2>2 DEF RI!RespawnShape
  <2>4. RI!ExitsRecorded'
    BY <1>0, <1>1, <1>3, <2>1 DEF RI!ExitsRecorded, RI!Same, RI!Route
  <2>5. RI!QuietIsCounted'
    BY <1>0, <1>1, <1>3, <2>1 DEF RI!QuietIsCounted, RI!AtWork
  <2>6. RI!MarkIsOwned'
    BY <1>0, <1>1, <1>3, <2>1, <2>2 DEF RI!MarkIsOwned, RI!Marked, RI!Unsent, RI!Route
  <2>7. RI!BootsAreAwaited'
    BY <1>0, <1>1, <1>3, <2>1, <2>2 DEF RI!BootsAreAwaited, RI!Marked, RI!MarkIsOwned, RI!Unsent
  <2>8. RI!RestartIsDueStep
    <3>1. ASSUME NEW q \in RI!Route, routes[q].pc = "enter", routes'[q].pc = "exited"
          PROVE  /\ quiet[q]
                 /\ q = "tick" => /\ RI!Same(routes[q].pin) /\ ~request.resumed
                                  /\ slot.epoch = request.epoch /\ slot.session = request.session
      <4>1. q = r /\ RI!Fence(routes[r].pin, TRUE) /\ RI!SameWork(r)
        BY <1>3, <2>1, <3>1
      <4>2. quiet[r]
        BY <1>0, <3>1, <4>1 DEF RI!QuietIsCounted, RI!AtWork, RI!SameWork
      <4>3. r = "tick" => routes[r].pin.id # 0
        BY <1>0, <3>1, <4>1 DEF RI!ExitsRecorded
      <4> QED BY <1>0, <4>1, <4>2, <4>3 DEF RI!Fence, RI!ExitsRecorded
    <3> QED BY <1>1, <3>1 DEF RI!RestartIsDueStep
  <2> QED BY <2>3, <2>4, <2>5, <2>6, <2>7, <2>8 DEF RI!RespawnInv
<1>4. CASE RI!Paste(r)
  BY <1>2, <1>3, <1>4 DEF RI!Paste, RI!world
<1>5. CASE RI!Enter(r)
  <2>1. CASE RI!Outcome(r, "failed") /\ RI!Unmark(r) /\ pane' = pane
    BY <1>2, <2>1
  <2>2. CASE /\ RI!Fence(routes[r].pin, TRUE) /\ RI!SameWork(r) /\ RI!Go(r, "exited") /\ sendLock' = NULL
             /\ pane' = (IF pane = "agent" THEN "exiting" ELSE pane) /\ RI!NoMark
             /\ request' = request /\ quiet' = quiet
    <3>1. routes[r].pc = "enter" /\ (pane' = pane \/ pane' = "exiting")
      BY <1>5, <2>2 DEF RI!Enter
    <3> QED BY <1>3, <2>2, <3>1
  <2> QED BY <1>5, <2>1, <2>2 DEF RI!Enter
<1>6. CASE RI!ExitWaited(r)
  BY <1>2, <1>3, <1>6 DEF RI!ExitWaited, RI!world
<1> QED BY <1>4, <1>5, <1>6

LEMMA LaunchKeeps ==
  ASSUME RI!RespawnInv, NEW r \in RI!Route, RI!Launch(r) \/ RI!BootWaited(r)
  PROVE  RI!RespawnInv' /\ RI!RestartIsDueStep
<1> USE RespawnAssumption
<1>0. /\ RI!RespawnShape /\ RI!ExitsRecorded /\ RI!QuietIsCounted /\ RI!MarkIsOwned /\ RI!BootsAreAwaited
      /\ routes \in [RI!Route -> RI!Course]
  BY DEF RI!RespawnInv, RI!RespawnShape
<1>1. /\ slot' = slot /\ exits' = exits /\ health' = health /\ asked' = asked
      /\ routes[r].pc \in {"launch", "boot"} /\ routes[r].marked /\ respawnMark
  BY <1>0 DEF RI!Launch, RI!BootWaited, RI!world, RI!counts, RI!MarkIsOwned, RI!Marked
<1>2. CASE RI!Launch(r) /\ RI!Typed
  <2>1. /\ RI!Go(r, "boot") /\ respawnMark' = respawnMark /\ cooling' = cooling /\ sendLock' = sendLock
        /\ request' = request /\ quiet' = quiet /\ sendLock = NULL /\ RI!ReadsShell
        /\ routes[r].pc = "launch" /\ launches' = launches + 1
        /\ pane' = (IF pane = "shell" THEN "booting" ELSE pane) /\ forsaken' = FALSE
    <3>1. launches' # launches
      BY <1>0, <1>2 DEF RI!Typed, RI!RespawnShape
    <3> QED BY <1>2, <3>1 DEF RI!Launch, RI!NoMark, RI!Typed
  <2>2. /\ routes' \in [RI!Route -> RI!Course] /\ routes'[r].pc = "boot"
        /\ routes'[r].pin = routes[r].pin /\ routes'[r].prompts = routes[r].prompts
        /\ (routes'[r].marked <=> routes[r].marked)
        /\ \A q \in RI!Route : q # r => routes'[q] = routes[q]
    BY <1>0, <2>1, CourseGoes DEF RI!RoutePc
  <2>3. pane = "shell" /\ pane' = "booting"
    <3>1. pane \in {"shell", "booting"}
      BY <2>1 DEF RI!ReadsShell
    <3>2. routes[r].pc \in {"exited", "launch"}
      BY <2>1
    <3>3. pane # "booting"
      BY <1>0, <3>2 DEF RI!MarkIsOwned
    <3>4. pane = "shell"
      BY <3>1, <3>3
    <3>5. pane' = IF pane = "shell" THEN "booting" ELSE pane
      BY <2>1
    <3> QED BY <3>4, <3>5
  <2>4. RI!RespawnShape'
    <3>1. launches' \in Nat
      BY <1>0, <2>1 DEF RI!RespawnShape
    <3>2. respawnMark' \in BOOLEAN /\ cooling' \in BOOLEAN /\ forsaken' \in BOOLEAN
      BY <1>0, <2>1 DEF RI!RespawnShape
    <3> QED BY <1>0, <1>1, <2>1, <2>2, <3>1, <3>2 DEF RI!RespawnShape
  <2>5. RI!ExitsRecorded'
    BY <1>0, <1>1, <2>1, <2>2 DEF RI!ExitsRecorded, RI!Same, RI!Route
  <2>6. RI!QuietIsCounted'
    BY <1>0, <1>1, <2>1, <2>2 DEF RI!QuietIsCounted, RI!AtWork
  <2>7. RI!MarkIsOwned'
    BY <1>0, <1>1, <2>1, <2>2 DEF RI!MarkIsOwned, RI!Marked, RI!Unsent, RI!Route
  <2>8. RI!BootsAreAwaited'
    BY <1>0, <1>1, <2>1, <2>2 DEF RI!BootsAreAwaited
  <2>9. RI!RestartIsDueStep
    BY <2>1, <2>2, <2>3 DEF RI!RestartIsDueStep
  <2> QED BY <2>4, <2>5, <2>6, <2>7, <2>8, <2>9 DEF RI!RespawnInv
<1>3. CASE RI!Launch(r) /\ ~RI!Typed
  <2>1. PICK kind : RI!Outcome(r, kind) /\ RI!Unmark(r)
    BY <1>3 DEF RI!Launch
  <2>2. /\ launches' = launches /\ pane' = pane /\ forsaken' = forsaken /\ routes[r].pc # "boot"
        /\ respawnMark' = (respawnMark /\ ~routes[r].marked) /\ cooling' = cooling
    BY <1>3, <2>1 DEF RI!Launch, RI!Unmark
  <2> QED BY <1>1, <2>1, <2>2, OutcomeKeeps
<1>4. CASE RI!BootWaited(r)
  <2>1. /\ pane' = pane /\ launches' = launches
        /\ \/ RI!Outcome(r, "ok") /\ respawnMark' = FALSE /\ cooling' = TRUE /\ forsaken' = forsaken
           \/ RI!Outcome(r, "failed") /\ RI!Unmark(r) /\ forsaken' = TRUE
    BY <1>4 DEF RI!BootWaited, RI!CompletedRespawn
  <2>2. respawnMark' = (respawnMark /\ ~routes[r].marked) /\ cooling' \in {cooling, TRUE}
        /\ forsaken' \in {forsaken, TRUE} /\ (cooling' \/ forsaken')
    BY <1>1, <2>1 DEF RI!Unmark
  <2> QED BY <1>1, <2>1, <2>2, OutcomeKeeps
<1> QED BY <1>2, <1>3, <1>4

(* What the rest of the server, the agent and its slot do.                  *)
LEMMA SurroundingsKeep ==
  ASSUME RI!RespawnInv,
         \/ RI!HealthSees \/ RI!HealthLaunches \/ RI!HealthWaited \/ RI!CooldownEnds
         \/ RI!AgentExits \/ RI!AgentDies \/ RI!Stop \/ RI!SlotMoves
  PROVE  RI!RespawnInv' /\ RI!RestartIsDueStep
<1> USE RespawnAssumption
<1>0. /\ RI!RespawnShape /\ RI!ExitsRecorded /\ RI!QuietIsCounted /\ RI!MarkIsOwned /\ RI!BootsAreAwaited
  BY DEF RI!RespawnInv
<1>1. /\ request' = request /\ routes' = routes /\ sendLock' = sendLock /\ respawnMark' = respawnMark
      /\ exits' = exits /\ quiet' = quiet /\ asked' = asked
  BY DEF RI!HealthSees, RI!HealthLaunches, RI!HealthWaited, RI!CooldownEnds, RI!AgentExits,
     RI!AgentDies, RI!Stop, RI!SlotMoves, RI!counts
<1>2. /\ slot' \in [epoch : Nat, session : Nat, prompts : Nat, open : BOOLEAN]
      /\ slot'.prompts = slot.prompts
  <2>1. CASE RI!Stop
    BY <1>0, <2>1 DEF RI!Stop, RI!RespawnShape
  <2>2. CASE RI!SlotMoves
    <3>1. slot \in [epoch : Nat, session : Nat, prompts : Nat, open : BOOLEAN]
      BY <1>0 DEF RI!RespawnShape
    <3>2. CASE slot' = [slot EXCEPT !.epoch = @ + 1]
      BY <3>1, <3>2
    <3>3. CASE slot' = [slot EXCEPT !.session = @ + 1]
      BY <3>1, <3>3
    <3> QED BY <2>2, <3>2, <3>3 DEF RI!SlotMoves
  <2>3. CASE ~RI!Stop /\ ~RI!SlotMoves
    BY <1>0, <2>3 DEF RI!HealthSees, RI!HealthLaunches, RI!HealthWaited, RI!CooldownEnds, RI!AgentExits,
     RI!AgentDies, RI!world, RI!RespawnShape
  <2> QED BY <2>1, <2>2, <2>3
<1>3. /\ launches' \in Nat /\ cooling' \in BOOLEAN /\ forsaken' \in BOOLEAN
  <2>0. launches \in Nat /\ cooling \in BOOLEAN /\ forsaken \in BOOLEAN
    BY <1>0 DEF RI!RespawnShape
  <2>1. launches' = launches \/ launches' = launches + 1
    BY DEF RI!HealthSees, RI!HealthLaunches, RI!HealthWaited, RI!CooldownEnds, RI!AgentExits,
       RI!AgentDies, RI!Stop, RI!SlotMoves, RI!world, RI!Typed
  <2>2. cooling' = cooling \/ cooling' = TRUE \/ cooling' = FALSE
    BY DEF RI!HealthSees, RI!HealthLaunches, RI!HealthWaited, RI!CooldownEnds, RI!AgentExits,
       RI!AgentDies, RI!Stop, RI!SlotMoves
  <2>3. forsaken' = forsaken \/ forsaken' = TRUE \/ forsaken' = FALSE
    BY DEF RI!HealthSees, RI!HealthLaunches, RI!HealthWaited, RI!CooldownEnds, RI!AgentExits,
       RI!AgentDies, RI!Stop, RI!SlotMoves, RI!world, RI!Typed
  <2>4. launches' \in Nat
    BY <2>0, <2>1
  <2>5. cooling' \in BOOLEAN
    BY <2>0, <2>2, Zenon
  <2>6. forsaken' \in BOOLEAN
    BY <2>0, <2>3, Zenon
  <2> QED BY <2>4, <2>5, <2>6
<1>4. RI!RespawnShape'
  BY <1>0, <1>1, <1>2, <1>3 DEF RI!RespawnShape
<1>5. RI!ExitsRecorded'
  BY <1>0, <1>1 DEF RI!ExitsRecorded, RI!Same
<1>6. RI!QuietIsCounted'
  BY <1>0, <1>1, <1>2 DEF RI!QuietIsCounted
<1>7. pane' = pane \/ /\ sendLock = NULL /\ pane = "agent" /\ pane' = "shell"
                       /\ health' = health /\ cooling' = cooling /\ forsaken' = forsaken
                  \/ /\ pane = "exiting" /\ pane' \in {"shell", "agent"}
                     /\ health' = health /\ cooling' = cooling /\ forsaken' = forsaken
                  \/ /\ pane = "shell" /\ pane' = "booting" /\ ~respawnMark /\ health' = "boot"
  BY DEF RI!HealthSees, RI!HealthLaunches, RI!HealthWaited, RI!CooldownEnds, RI!AgentExits,
     RI!AgentDies, RI!Stop, RI!SlotMoves, RI!world, RI!Typed, RI!Suppressed
<1>8. RI!MarkIsOwned'
  BY <1>0, <1>1, <1>7 DEF RI!MarkIsOwned, RI!Marked, RI!Unsent, RI!Route
<1>9. RI!BootsAreAwaited' /\ (launches' # launches => pane = "shell" \/ forsaken)
  <2>1. CASE RI!HealthSees
    <3>1. /\ pane' = pane /\ health = "off" /\ health' = "seen" /\ cooling' = cooling
          /\ forsaken' = forsaken /\ ~respawnMark /\ ~cooling /\ pane \in {"shell", "booting"}
          /\ launches' = launches
      BY <2>1 DEF RI!HealthSees, RI!world, RI!Suppressed, RI!ReadsShell
    <3> QED BY <1>0, <1>1, <3>1 DEF RI!BootsAreAwaited, RI!MarkIsOwned
  <2>2. CASE RI!HealthLaunches
    <3>1. /\ health = "seen" /\ cooling' = cooling
          /\ \/ /\ respawnMark \/ cooling
                /\ health' = "off" /\ pane' = pane /\ forsaken' = forsaken /\ launches' = launches
             \/ /\ ~respawnMark /\ ~cooling /\ health' = "boot"
      BY <2>2 DEF RI!HealthLaunches, RI!world, RI!Suppressed
    <3> QED BY <1>0, <1>1, <3>1 DEF RI!BootsAreAwaited, RI!MarkIsOwned, RI!Marked
  <2>3. CASE RI!HealthWaited
    <3>1. /\ pane' = pane /\ health' = "off" /\ cooling' = TRUE /\ launches' = launches
      BY <2>3 DEF RI!HealthWaited
    <3> QED BY <1>0, <1>1, <3>1 DEF RI!BootsAreAwaited
  <2>4. CASE RI!CooldownEnds
    <3>1. /\ pane' = pane /\ health' = health /\ forsaken' = forsaken /\ launches' = launches
          /\ health # "seen" /\ (pane = "booting" => forsaken)
      BY <2>4 DEF RI!CooldownEnds, RI!world
    <3> QED BY <1>0, <1>1, <3>1 DEF RI!BootsAreAwaited
  <2>5. CASE RI!AgentExits \/ RI!AgentDies \/ RI!Stop \/ RI!SlotMoves
    <3>1. /\ health' = health /\ cooling' = cooling /\ forsaken' = forsaken /\ launches' = launches
          /\ (pane' = pane \/ (pane \in {"agent", "exiting"} /\ pane' \in {"shell", "agent"}))
      BY <2>5 DEF RI!AgentExits, RI!AgentDies, RI!Stop, RI!SlotMoves
    <3> QED BY <1>0, <1>1, <3>1 DEF RI!BootsAreAwaited
  <2> QED BY <2>1, <2>2, <2>3, <2>4, <2>5
<1>10. RI!RestartIsDueStep
  BY <1>1, <1>9 DEF RI!RestartIsDueStep
<1> QED BY <1>4, <1>5, <1>6, <1>8, <1>9, <1>10 DEF RI!RespawnInv

LEMMA RequestsKeep ==
  ASSUME RI!RespawnInv,
         RI!Schedule \/ RI!Cancel \/ RI!Boots \/ RI!Prompt \/ RI!Crash
  PROVE  RI!RespawnInv' /\ RI!RestartIsDueStep
<1> USE RespawnAssumption
<1>0. /\ RI!RespawnShape /\ RI!ExitsRecorded /\ RI!QuietIsCounted /\ RI!MarkIsOwned /\ RI!BootsAreAwaited
      /\ "tick" \in RI!Route
  BY DEF RI!RespawnInv, RI!Route
<1>1. CASE RI!Schedule \/ RI!Cancel
  <2>1. /\ slot' = slot /\ pane' = pane /\ launches' = launches /\ forsaken' = forsaken
        /\ routes' = routes /\ sendLock' = sendLock /\ health' = health /\ respawnMark' = respawnMark
        /\ cooling' = cooling /\ exits' = exits /\ quiet' = quiet
    BY <1>1 DEF RI!Schedule, RI!Cancel, RI!world
  <2>2. \/ request' = NULL /\ asked' = asked
        \/ /\ asked' = asked + 1 /\ asked' <= MaxRequests
           /\ request' = [id |-> asked', epoch |-> slot.epoch, session |-> slot.session,
                         resumed |-> FALSE, attempted |-> FALSE]
    <3>1. CASE RI!Schedule
      <4>1. asked < MaxRequests /\ asked \in Nat /\ MaxRequests \in Nat
        BY <1>0, <3>1 DEF RI!Schedule, RI!RespawnShape
      <4>2. asked' = asked + 1 /\ asked + 1 <= MaxRequests
        BY <3>1, <4>1 DEF RI!Schedule
      <4> QED BY <3>1, <4>2 DEF RI!Schedule
    <3>2. CASE RI!Cancel
      BY <3>2 DEF RI!Cancel, RI!counts
    <3> QED BY <1>1, <3>1, <3>2
  <2>3. RI!RespawnShape'
    <3>1. /\ request' \in [id : Nat, epoch : Nat, session : Nat, resumed : BOOLEAN, attempted : BOOLEAN]
                         \cup {NULL}
          /\ asked' \in 0 .. MaxRequests
      <4>1. asked \in 0 .. MaxRequests /\ slot \in [epoch : Nat, session : Nat, prompts : Nat, open : BOOLEAN]
        BY <1>0 DEF RI!RespawnShape
      <4>2. CASE request' = NULL /\ asked' = asked
        BY <4>1, <4>2
      <4>3. CASE /\ asked' = asked + 1 /\ asked' <= MaxRequests
                 /\ request' = [id |-> asked', epoch |-> slot.epoch, session |-> slot.session,
                               resumed |-> FALSE, attempted |-> FALSE]
        <5>1. PICK n \in Nat : n = asked' /\ n \in 0 .. MaxRequests
          BY <4>1, <4>3
        <5>2. [id |-> n, epoch |-> slot.epoch, session |-> slot.session, resumed |-> FALSE, attempted |-> FALSE]
                \in [id : Nat, epoch : Nat, session : Nat, resumed : BOOLEAN, attempted : BOOLEAN]
          BY <4>1
        <5> QED BY <4>3, <5>1, <5>2
      <4> QED BY <2>2, <4>2, <4>3
    <3> QED BY <1>0, <2>1, <3>1 DEF RI!RespawnShape
  <2>4. RI!ExitsRecorded'
    BY <1>0, <2>1, <2>2 DEF RI!ExitsRecorded, RI!Same, RI!RespawnShape, RI!Course
  <2>5. RI!QuietIsCounted' /\ RI!MarkIsOwned' /\ RI!BootsAreAwaited'
    BY <1>0, <2>1 DEF RI!QuietIsCounted, RI!MarkIsOwned, RI!BootsAreAwaited
  <2>6. RI!RestartIsDueStep
    BY <2>1 DEF RI!RestartIsDueStep
  <2> QED BY <2>3, <2>4, <2>5, <2>6 DEF RI!RespawnInv
<1>2. CASE RI!Boots
  <2>1. /\ slot' = slot /\ launches' = launches /\ forsaken' = forsaken
        /\ routes' = routes /\ sendLock' = sendLock /\ health' = health /\ respawnMark' = respawnMark
        /\ cooling' = cooling /\ exits' = exits /\ quiet' = quiet /\ asked' = asked
        /\ pane = "booting" /\ pane' = "agent"
        /\ request' = request \/ (request # NULL /\ request' = [request EXCEPT !.resumed = TRUE])
    BY <1>2 DEF RI!Boots, RI!counts
  <2>2. request # NULL => request \in [id : Nat, epoch : Nat, session : Nat, resumed : BOOLEAN, attempted : BOOLEAN]
    BY <1>0 DEF RI!RespawnShape
  <2>3. request' = request \/
          (request # NULL /\ request' = [id |-> request.id, epoch |-> request.epoch, session |-> request.session,
                                       resumed |-> TRUE, attempted |-> request.attempted])
    BY <2>1, <2>2
  <2>4. RI!RespawnShape'
    BY <1>0, <2>1, <2>3 DEF RI!RespawnShape
  <2>5. RI!ExitsRecorded'
    BY <1>0, <2>1, <2>3 DEF RI!ExitsRecorded, RI!Same
  <2>6. RI!QuietIsCounted' /\ RI!MarkIsOwned' /\ RI!BootsAreAwaited'
    BY <1>0, <2>1 DEF RI!QuietIsCounted, RI!MarkIsOwned, RI!BootsAreAwaited
  <2>7. RI!RestartIsDueStep
    BY <2>1 DEF RI!RestartIsDueStep
  <2> QED BY <2>4, <2>5, <2>6, <2>7 DEF RI!RespawnInv
<1>3. CASE RI!Prompt
  <2>1. /\ pane' = pane /\ launches' = launches /\ forsaken' = forsaken
        /\ routes' = routes /\ sendLock' = sendLock /\ health' = health /\ respawnMark' = respawnMark
        /\ cooling' = cooling /\ exits' = exits /\ asked' = asked /\ request' = request
        /\ quiet' = [r \in RI!Route |-> FALSE]
        /\ slot' = [epoch |-> slot.epoch, session |-> slot.session, prompts |-> slot.prompts + 1, open |-> TRUE]
    BY <1>3 DEF RI!Prompt, RI!counts
  <2>2. /\ slot' \in [epoch : Nat, session : Nat, prompts : Nat, open : BOOLEAN]
        /\ slot'.prompts = slot.prompts + 1
    <3>1. slot \in [epoch : Nat, session : Nat, prompts : Nat, open : BOOLEAN]
      BY <1>0 DEF RI!RespawnShape
    <3> QED BY <2>1, <3>1
  <2>3. RI!RespawnShape'
    BY <1>0, <2>1, <2>2 DEF RI!RespawnShape
  <2>4. RI!ExitsRecorded'
    BY <1>0, <2>1 DEF RI!ExitsRecorded, RI!Same
  <2>5. RI!QuietIsCounted'
    <3>1. \A r \in RI!Route : routes[r].prompts \in Nat
      BY <1>0 DEF RI!RespawnShape, RI!Course
    <3>2. slot.prompts \in Nat
      BY <1>0 DEF RI!RespawnShape
    <3> QED BY <1>0, <2>1, <2>2, <3>1, <3>2 DEF RI!QuietIsCounted
  <2>6. RI!MarkIsOwned' /\ RI!BootsAreAwaited'
    BY <1>0, <2>1 DEF RI!MarkIsOwned, RI!BootsAreAwaited
  <2>7. RI!RestartIsDueStep
    BY <2>1 DEF RI!RestartIsDueStep
  <2> QED BY <2>3, <2>4, <2>5, <2>6, <2>7 DEF RI!RespawnInv
<1>4. CASE RI!Crash
  <2>1. /\ slot' = slot /\ pane' = pane /\ launches' = launches /\ forsaken' = TRUE
        /\ routes' = [r \in RI!Route |-> RI!NoRoute] /\ health' = "off" /\ respawnMark' = FALSE
        /\ cooling' = FALSE /\ exits' = exits /\ asked' = asked /\ request' = request
        /\ quiet' = [r \in RI!Route |-> FALSE]
    BY <1>4 DEF RI!Crash
  <2>2. RI!NoRoute \in RI!Course /\ RI!NoRoute.pc = "off" /\ RI!NoRoute.pin.id = 0 /\ ~RI!NoRoute.marked
    BY DEF RI!NoRoute, RI!Course, RI!RoutePc
  <2>3. /\ routes' \in [RI!Route -> RI!Course]
        /\ \A r \in RI!Route : routes'[r] = RI!NoRoute
    BY <2>1, <2>2
  <2>4. RI!RespawnShape'
    BY <1>0, <2>1, <2>3 DEF RI!RespawnShape
  <2>5. RI!ExitsRecorded'
    BY <1>0, <2>1, <2>2, <2>3 DEF RI!ExitsRecorded, RI!Same, RI!RespawnShape
  <2>6. RI!QuietIsCounted' /\ RI!MarkIsOwned' /\ RI!BootsAreAwaited'
    BY <2>1, <2>2, <2>3 DEF RI!QuietIsCounted, RI!MarkIsOwned, RI!BootsAreAwaited, RI!AtWork, RI!Marked, RI!Unsent
  <2>7. RI!RestartIsDueStep
    BY <2>1, <2>2, <2>3 DEF RI!RestartIsDueStep
  <2> QED BY <2>4, <2>5, <2>6, <2>7 DEF RI!RespawnInv
<1> QED BY <1>1, <1>2, <1>3, <1>4

LEMMA RespawnStep ==
  ASSUME RI!RespawnInv, RI!RespawnNext
  PROVE  RI!RespawnInv' /\ RI!RestartIsDueStep
BY LooksKeep, EnteredKeeps, AttemptKeeps, KeysKeep, LaunchKeeps, SurroundingsKeep, RequestsKeep
   DEF RI!RespawnNext

LEMMA RespawnExits == RI!RespawnInv => RI!ExitOnce
BY DEF RI!RespawnInv, RI!ExitsRecorded, RI!ExitOnce

-----------------------------------------------------------------------------
(* The debt of each hour (HourlyDebt).                                      *)

LEMMA DebtInit == HD!DebtInit => HD!DebtInv
<1> SUFFICES ASSUME HD!DebtInit PROVE HD!DebtInv
  OBVIOUS
<1> USE DebtAssumption
<1>1. 1 \in HD!Bucket /\ HD!Off \in HD!CallerType /\ HD!Off.pc = "off" /\ HD!Off.writer = NULL
  BY DEF HD!Bucket, HD!Off, HD!Then, HD!CallerType
<1>2. /\ \A c \in HD!Caller : callers[c] = HD!Off
      /\ \A w \in HD!Writer : writers[w] = NULL
      /\ \A b \in HD!Bucket : ledger[b] = "absent" /\ reminders[b] = 0
      /\ record = NULL /\ prompts = {} /\ hour = 1
  BY DEF HD!DebtInit
<1>3. HD!DebtShape
  <2>1. callers \in [HD!Caller -> HD!CallerType]
    BY <1>1 DEF HD!DebtInit
  <2>2. writers \in [HD!Writer -> HD!ChildType \cup {NULL}]
    BY DEF HD!DebtInit
  <2>3. ledger \in [HD!Bucket -> {"absent", "open", "resolved"}] /\ reminders \in [HD!Bucket -> Nat]
    BY DEF HD!DebtInit
  <2> QED BY <1>1, <1>2, <2>1, <2>2, <2>3 DEF HD!DebtShape
<1>4. HD!DebtsAreRecorded
  BY <1>1, <1>2 DEF HD!DebtsAreRecorded
<1>5. HD!RemindersAreClaimed
  BY <1>2 DEF HD!RemindersAreClaimed
<1>6. HD!WritersAreAlone
  BY <1>1, <1>2 DEF HD!WritersAreAlone, HD!Running
<1> QED BY <1>3, <1>4, <1>5, <1>6 DEF HD!DebtInv

(* A new writer: nothing was written for its bucket, nobody writes it and   *)
(* nobody waits for one of it.                                              *)
LEMMA WriterStarts ==
  ASSUME HD!DebtInv, NEW c \in HD!Caller, NEW pc \in {"ensuring", "reconciling"}, NEW rec \in HD!RecordType,
         HD!StartWriter(c, pc, rec), rec.writer = "pending", rec.key <= hour, ledger[rec.key] = "absent",
         record # NULL => record.key <= rec.key,
         record # NULL /\ record.key = rec.key => record.writer = "failed" /\ (rec.escalated <=> record.escalated),
         hour' = hour, ledger' = ledger, prompts' = prompts, reminders' = reminders
  PROVE  HD!DebtInv'
<1> USE DebtAssumption
<1>0. /\ HD!DebtShape /\ HD!DebtsAreRecorded /\ HD!RemindersAreClaimed /\ HD!WritersAreAlone
      /\ callers \in [HD!Caller -> HD!CallerType] /\ writers \in [HD!Writer -> HD!ChildType \cup {NULL}]
  BY DEF HD!DebtInv, HD!DebtShape
<1>1. PICK w \in HD!Writer :
        /\ writers[w] = NULL /\ writers' = [writers EXCEPT ![w] = [key |-> rec.key, state |-> "running"]]
        /\ record' = rec /\ HD!Call(c, pc, rec.key, w)
  BY DEF HD!StartWriter
<1>2. rec.key \in HD!Bucket /\ rec.key \in Nat /\ rec # NULL /\ HD!Bucket \subseteq Nat
  BY DEF HD!RecordType, HD!Bucket
<1>3. PICK child : child = [key |-> rec.key, state |-> "running"]
  OBVIOUS
<1>4. child \in HD!ChildType /\ child # NULL /\ child.key = rec.key /\ child.state = "running"
  BY <1>2, <1>3 DEF HD!ChildType
<1>5. PICK call : call = [pc |-> pc, key |-> rec.key, writer |-> w]
  OBVIOUS
<1>6. call \in HD!CallerType /\ call.pc = pc /\ call.key = rec.key /\ call.writer = w
  BY <1>2, <1>5 DEF HD!CallerType
<1>7. /\ writers' \in [HD!Writer -> HD!ChildType \cup {NULL}] /\ writers'[w] = child
      /\ \A v \in HD!Writer : v # w => writers'[v] = writers[v]
  BY <1>0, <1>1, <1>3, <1>4
<1>8. /\ callers' \in [HD!Caller -> HD!CallerType] /\ callers'[c] = call
      /\ \A d \in HD!Caller : d # c => callers'[d] = callers[d]
  BY <1>0, <1>1, <1>5, <1>6 DEF HD!Call
<1>9. \A v \in HD!Writer : writers[v] # NULL => writers[v] \in HD!ChildType /\ writers[v].key \in Nat
  BY <1>0, <1>2 DEF HD!ChildType
<1>10. record # NULL => record \in HD!RecordType /\ record.key \in Nat
  BY <1>0, <1>2 DEF HD!DebtShape, HD!RecordType
<1>11. \A b \in Nat : HD!Owed(b) => b <= record'.key /\ record' # NULL
  BY <1>1, <1>2, <1>10 DEF HD!Owed
<1>12. HD!DebtShape'
  BY <1>0, <1>1, <1>7, <1>8 DEF HD!DebtShape
<1>13. HD!DebtsAreRecorded'
  <2>1. \A b \in HD!Bucket : b \in prompts \/ ledger[b] # "absent" \/ reminders[b] > 0 => b <= record'.key
    BY <1>0, <1>2, <1>11 DEF HD!DebtsAreRecorded
  <2>2. \A v \in HD!Writer : writers'[v] # NULL => writers'[v].key <= record'.key
    BY <1>0, <1>1, <1>2, <1>4, <1>7, <1>9, <1>11 DEF HD!DebtsAreRecorded
  <2>3. \A d \in HD!Caller : callers'[d].pc \in {"ensuring", "submitting"} => callers'[d].key <= record'.key
    <3>1. \A d \in HD!Caller : callers[d].key \in Nat
      BY <1>0, <1>2 DEF HD!CallerType
    <3> QED BY <1>0, <1>1, <1>2, <1>6, <1>8, <1>11, <3>1 DEF HD!DebtsAreRecorded
  <2> QED BY <1>1, <1>2, <2>1, <2>2, <2>3 DEF HD!DebtsAreRecorded, HD!Owed
<1>14. HD!RemindersAreClaimed'
  <2>1. ASSUME NEW b \in HD!Bucket, reminders[b] > 0, rec.key = b
        PROVE  rec.escalated
    <3>1. HD!Owed(b) /\ b \in Nat
      BY <1>0, <1>2, <2>1 DEF HD!DebtsAreRecorded
    <3>2. record # NULL /\ record.key = rec.key
      BY <1>2, <1>10, <2>1, <3>1 DEF HD!Owed
    <3> QED BY <1>0, <2>1, <3>2 DEF HD!RemindersAreClaimed
  <2> QED BY <1>0, <1>1, <2>1 DEF HD!RemindersAreClaimed
<1>15. \A v \in HD!Writer : HD!Running(v) => writers[v].key # rec.key
  <2> SUFFICES ASSUME NEW v \in HD!Writer, HD!Running(v), writers[v].key = rec.key PROVE FALSE
    OBVIOUS
  <2>1. record # NULL /\ rec.key <= record.key
    BY <1>0 DEF HD!Running, HD!DebtsAreRecorded, HD!Owed
  <2>2. record.key = rec.key /\ record.writer = "failed"
    BY <1>2, <1>10, <2>1
  <2> QED BY <1>0, <2>2 DEF HD!WritersAreAlone
<1>16. \A d \in HD!Caller : callers[d].writer # NULL => callers[d].key # rec.key
  <2> SUFFICES ASSUME NEW d \in HD!Caller, callers[d].writer # NULL, callers[d].key = rec.key PROVE FALSE
    OBVIOUS
  <2>0. callers[d].writer \in HD!Writer
    BY <1>0 DEF HD!CallerType
  <2>1. writers[callers[d].writer] # NULL /\ writers[callers[d].writer].key = rec.key
    BY <1>0 DEF HD!WritersAreAlone
  <2>2. record # NULL /\ rec.key <= record.key
    BY <1>0, <2>0, <2>1 DEF HD!DebtsAreRecorded, HD!Owed
  <2>3. record.key = rec.key /\ record.writer = "failed"
    BY <1>2, <1>10, <2>2
  <2> QED BY <1>0, <2>3 DEF HD!WritersAreAlone
<1>17. HD!WritersAreAlone'
  <2>1. \A v \in HD!Writer : HD!Running(v)' <=> v = w \/ HD!Running(v)
    BY <1>1, <1>4, <1>7 DEF HD!Running
  <2>2. ASSUME NEW v \in HD!Writer, HD!Running(v)'
        PROVE  /\ ledger'[writers'[v].key] = "absent"
               /\ \A u \in HD!Writer : HD!Running(u)' /\ writers'[u].key = writers'[v].key => u = v
               /\ writers'[v].key = record'.key => record'.writer # "failed"
    BY <1>0, <1>1, <1>4, <1>7, <1>15, <2>1, <2>2 DEF HD!WritersAreAlone
  <2>3. ASSUME NEW d \in HD!Caller, callers'[d].writer # NULL
        PROVE  /\ writers'[callers'[d].writer] # NULL /\ writers'[callers'[d].writer].key = callers'[d].key
               /\ callers'[d].key = record'.key =>
                    /\ record'.writer # "failed"
                    /\ \A e \in HD!Caller : callers'[e].writer # NULL /\ callers'[e].key = record'.key => e = d
                    /\ \A v \in HD!Writer : HD!Running(v)' /\ writers'[v].key = record'.key => v = callers'[d].writer
    <3>1. CASE d = c
      BY <1>1, <1>4, <1>6, <1>7, <1>8, <1>15, <1>16, <2>1, <3>1
    <3>2. CASE d # c
      <4>1. callers'[d] = callers[d] /\ callers[d].writer \in HD!Writer
        BY <1>0, <1>8, <2>3, <3>2 DEF HD!CallerType
      <4>2. writers[callers[d].writer] # NULL /\ writers[callers[d].writer].key = callers[d].key
        BY <1>0, <2>3, <4>1 DEF HD!WritersAreAlone
      <4> QED BY <1>1, <1>7, <1>16, <2>3, <4>1, <4>2
    <3> QED BY <3>1, <3>2
  <2> QED BY <2>2, <2>3 DEF HD!WritersAreAlone
<1> QED BY <1>12, <1>13, <1>14, <1>17 DEF HD!DebtInv

(* The record learns of the ledger, and a caller goes on without a writer.  *)
LEMMA CallersMove ==
  ASSUME HD!DebtInv, NEW c \in HD!Caller, NEW call \in HD!CallerType, call.writer = NULL,
         call.pc \in {"ensuring", "submitting"} => HD!Owed(call.key),
         callers' = [callers EXCEPT ![c] = call],
         \/ record' = record
         \/ /\ record # NULL /\ record' \in HD!RecordType /\ record'.key = record.key
            /\ (record'.escalated <=> record.escalated) /\ record'.writer \in {"created", "unknown"},
         prompts' \subseteq HD!Bucket, \A b \in prompts' : b \in prompts \/ HD!Owed(b),
         hour' = hour, writers' = writers, ledger' = ledger, reminders' = reminders
  PROVE  HD!DebtInv'
<1> USE DebtAssumption
<1>0. /\ HD!DebtShape /\ HD!DebtsAreRecorded /\ HD!RemindersAreClaimed /\ HD!WritersAreAlone
      /\ callers \in [HD!Caller -> HD!CallerType]
  BY DEF HD!DebtInv, HD!DebtShape
<1>1. /\ callers' \in [HD!Caller -> HD!CallerType] /\ callers'[c] = call
      /\ \A d \in HD!Caller : d # c => callers'[d] = callers[d]
  BY <1>0
<1>2. /\ record' = NULL <=> record = NULL
      /\ record'.key = record.key \/ record' = NULL
      /\ record'.writer = "failed" => record.writer = "failed"
      /\ (record'.escalated <=> record.escalated)
  OBVIOUS
<1>3. HD!DebtShape'
  BY <1>0, <1>1 DEF HD!DebtShape
<1>4. HD!DebtsAreRecorded'
  BY <1>0, <1>1, <1>2 DEF HD!DebtsAreRecorded, HD!Owed
<1>5. HD!RemindersAreClaimed'
  BY <1>0, <1>2 DEF HD!RemindersAreClaimed, HD!DebtsAreRecorded, HD!Owed
<1>6. HD!WritersAreAlone'
  BY <1>0, <1>1, <1>2 DEF HD!WritersAreAlone, HD!Running
<1> QED BY <1>3, <1>4, <1>5, <1>6 DEF HD!DebtInv

LEMMA ReconcileKeeps ==
  ASSUME HD!DebtInv, NEW c \in HD!Caller, NEW pc \in {"ensuring", "reconciling"}, NEW call \in HD!CallerType,
         HD!Reconcile(c, pc, call), call.writer = NULL,
         call.pc \in {"ensuring", "submitting"} => HD!Owed(call.key),
         hour' = hour, ledger' = ledger, prompts' = prompts, reminders' = reminders
  PROVE  HD!DebtInv'
<1> USE DebtAssumption
<1>0. HD!DebtShape /\ HD!DebtsAreRecorded
  BY DEF HD!DebtInv
<1>1. CASE /\ callers' = [callers EXCEPT ![c] = call] /\ writers' = writers
           /\ \/ record' = record
              \/ /\ record # NULL
                 /\ \/ record' = [record EXCEPT !.writer = "created"]
                    \/ record' = [record EXCEPT !.writer = "unknown"]
  <2>1. \/ record' = record
        \/ /\ record # NULL /\ record' \in HD!RecordType /\ record'.key = record.key
           /\ (record'.escalated <=> record.escalated) /\ record'.writer \in {"created", "unknown"}
    <3>1. record # NULL => record \in HD!RecordType
      BY <1>0 DEF HD!DebtShape
    <3>2. PICK r : r = record'
      OBVIOUS
    <3>3. r = record \/
            /\ record # NULL
            /\ r = [record EXCEPT !.writer = "created"] \/ r = [record EXCEPT !.writer = "unknown"]
      BY <1>1, <3>2
    <3>4. r = record \/
            /\ record # NULL /\ r \in HD!RecordType /\ r.key = record.key
            /\ (r.escalated <=> record.escalated) /\ r.writer \in {"created", "unknown"}
      BY <3>1, <3>3 DEF HD!RecordType
    <3> QED BY <3>2, <3>4
  <2>2. prompts' \subseteq HD!Bucket /\ \A b \in prompts' : b \in prompts \/ HD!Owed(b)
    BY <1>0 DEF HD!DebtShape
  <2> QED BY <1>1, <2>1, <2>2, CallersMove
<1>2. CASE /\ record # NULL /\ ledger[record.key] = "absent" /\ HD!Retried(record)
           /\ HD!StartWriter(c, pc, [key |-> record.key, writer |-> "pending",
                                     attempts |-> record.attempts + 1, escalated |-> record.escalated])
  <2>1. record \in HD!RecordType /\ record.key \in Nat /\ hour \in Nat
    BY <1>0, <1>2 DEF HD!DebtShape, HD!RecordType, HD!Bucket
  <2>2. PICK rec : rec = [key |-> record.key, writer |-> "pending",
                         attempts |-> record.attempts + 1, escalated |-> record.escalated]
    OBVIOUS
  <2>3. record.writer = "failed" /\ record.attempts < 2 /\ record.key = hour
    BY <1>2 DEF HD!Retried
  <2>4. /\ rec \in HD!RecordType /\ rec.key = record.key /\ rec.writer = "pending"
        /\ (rec.escalated <=> record.escalated)
    BY <2>1, <2>2, <2>3 DEF HD!RecordType
  <2>5. HD!StartWriter(c, pc, rec) /\ ledger[rec.key] = "absent"
    BY <1>2, <2>2, <2>4
  <2> QED BY <2>1, <2>3, <2>4, <2>5, WriterStarts
<1> QED BY <1>1, <1>2 DEF HD!Reconcile

LEMMA TriggersKeep ==
  ASSUME HD!DebtInv, NEW c \in HD!Caller,
         HD!Trigger(c) \/ HD!PromptSubmitted(c) \/ HD!TickReconciles
  PROVE  HD!DebtInv' /\ ledger' = ledger
<1> USE DebtAssumption
<1>0. HD!DebtShape /\ HD!DebtsAreRecorded /\ hour \in HD!Bucket /\ HD!Bucket \subseteq Nat /\ 1 \in HD!Bucket
  BY DEF HD!DebtInv, HD!DebtShape, HD!Bucket
<1>1. /\ hour' = hour /\ ledger' = ledger /\ reminders' = reminders
      /\ (~HD!PromptSubmitted(c) => prompts' = prompts)
  BY DEF HD!Trigger, HD!PromptSubmitted, HD!TickReconciles
<1>2. \A pc \in {"off", "ensuring", "submitting", "reconciling", "reminding"} :
        HD!Then(pc) \in HD!CallerType /\ HD!Then(pc).pc = pc /\ HD!Then(pc).writer = NULL
  BY <1>0 DEF HD!Then, HD!CallerType
<1>3. CASE HD!Trigger(c) /\ ~HD!PromptSubmitted(c)
  <2>1. CASE record # NULL /\ record.key = hour
    <3>1. HD!Reconcile(c, "ensuring", HD!Asks(hour))
      BY <1>3, <2>1 DEF HD!Trigger
    <3>2. HD!Asks(hour) \in HD!CallerType /\ HD!Asks(hour).writer = NULL /\ HD!Asks(hour).key = hour
      BY <1>0 DEF HD!Asks, HD!CallerType
    <3>3. HD!Owed(hour)
      BY <1>0, <2>1 DEF HD!Owed
    <3> QED BY <1>1, <1>3, <3>1, <3>2, <3>3, ReconcileKeeps
  <2>2. CASE ~(record # NULL /\ record.key = hour)
    <3>1. PICK rec : rec = [key |-> hour, writer |-> "pending", attempts |-> 1, escalated |-> FALSE]
      OBVIOUS
    <3>2. rec \in HD!RecordType /\ rec.key = hour /\ rec.writer = "pending"
      BY <1>0, <3>1 DEF HD!RecordType
    <3>3. HD!StartWriter(c, "ensuring", rec)
      BY <1>3, <2>2, <3>1 DEF HD!Trigger
    <3>4. record # NULL => record.key <= hour /\ record.key # hour /\ record.key \in Nat
      BY <1>0, <2>2 DEF HD!DebtsAreRecorded, HD!DebtShape, HD!RecordType
    <3>5. ledger[hour] = "absent"
      BY <1>0, <3>4 DEF HD!DebtsAreRecorded, HD!Owed
    <3> QED BY <1>0, <1>1, <1>3, <3>2, <3>3, <3>4, <3>5, WriterStarts
  <2> QED BY <1>1, <2>1, <2>2
<1>4. CASE HD!TickReconciles /\ ~HD!PromptSubmitted(c)
  <2>1. HD!Reconcile("tick", "reconciling", HD!Then("reminding")) /\ "tick" \in HD!Caller
    BY <1>4 DEF HD!TickReconciles, HD!Caller
  <2>2. HD!Then("reminding") \in HD!CallerType /\ HD!Then("reminding").pc = "reminding"
        /\ HD!Then("reminding").writer = NULL
    BY <1>2
  <2> QED BY <1>1, <1>4, <2>1, <2>2, ReconcileKeeps
<1>5. CASE HD!PromptSubmitted(c)
  <2>1. /\ callers[c].pc = "submitting" /\ prompts' = prompts \cup {callers[c].key}
        /\ record' = record /\ writers' = writers
        /\ callers' = [callers EXCEPT ![c] = IF c = "tick" THEN HD!Then("reconciling") ELSE HD!Then("off")]
    BY <1>5 DEF HD!PromptSubmitted, HD!Off
  <2>2. PICK call : call = IF c = "tick" THEN HD!Then("reconciling") ELSE HD!Then("off")
    OBVIOUS
  <2>3. call \in HD!CallerType /\ call.pc \notin {"ensuring", "submitting"} /\ call.writer = NULL
    BY <1>2, <2>2
  <2>4. callers[c].key \in HD!Bucket /\ HD!Owed(callers[c].key) /\ prompts \subseteq HD!Bucket
    BY <1>0, <2>1 DEF HD!DebtShape, HD!CallerType, HD!DebtsAreRecorded
  <2>5. prompts' \subseteq HD!Bucket /\ \A b \in prompts' : b \in prompts \/ HD!Owed(b)
    BY <2>1, <2>4
  <2>6. callers' = [callers EXCEPT ![c] = call]
    BY <2>1, <2>2
  <2> QED BY <1>1, <2>1, <2>3, <2>5, <2>6, CallersMove
<1> QED BY <1>3, <1>4, <1>5

(* A call that waited for its writer takes the outcome into the record of   *)
(* the same bucket only.                                                    *)
LEMMA SettlesKeep ==
  ASSUME HD!DebtInv, NEW c \in HD!Caller, HD!WriterSettles(c)
  PROVE  HD!DebtInv' /\ ledger' = ledger
<1> USE DebtAssumption
<1>0. /\ HD!DebtShape /\ HD!DebtsAreRecorded /\ HD!RemindersAreClaimed /\ HD!WritersAreAlone
      /\ callers \in [HD!Caller -> HD!CallerType] /\ writers \in [HD!Writer -> HD!ChildType \cup {NULL}]
  BY DEF HD!DebtInv, HD!DebtShape
<1>1. PICK heardOf \in {"created", "failed", "unknown"} :
        /\ heardOf = "failed" => writers[callers[c].writer].state = "died"
        /\ writers' = [writers EXCEPT ![callers[c].writer] =
             [key |-> writers[callers[c].writer].key,
              state |-> IF writers[callers[c].writer].state = "running" THEN "died"
                        ELSE writers[callers[c].writer].state]]
        /\ record' = IF record.key = callers[c].key THEN HD!SettledRecord(heardOf) ELSE record
  BY DEF HD!WriterSettles
<1>2. /\ callers[c].pc \in {"ensuring", "reconciling"} /\ callers[c].writer # NULL
      /\ hour' = hour /\ ledger' = ledger /\ prompts' = prompts /\ reminders' = reminders
      /\ HD!Call(c, IF callers[c].pc = "ensuring" THEN "submitting" ELSE "reminding", callers[c].key, NULL)
  BY DEF HD!WriterSettles
<1>3. PICK w \in HD!Writer : w = callers[c].writer
  BY <1>0, <1>2 DEF HD!CallerType
<1>4. /\ writers[w] # NULL /\ writers[w] \in HD!ChildType /\ writers[w].key = callers[c].key
      /\ HD!Owed(callers[c].key)
  BY <1>0, <1>2, <1>3 DEF HD!WritersAreAlone, HD!DebtsAreRecorded
<1>5. PICK child : child = [key |-> writers[w].key,
                           state |-> IF writers[w].state = "running" THEN "died" ELSE writers[w].state]
  OBVIOUS
<1>6. child \in HD!ChildType /\ child # NULL /\ child.key = writers[w].key /\ child.state # "running"
  BY <1>4, <1>5 DEF HD!ChildType
<1>7. /\ writers' \in [HD!Writer -> HD!ChildType \cup {NULL}] /\ writers'[w] = child
      /\ \A v \in HD!Writer : v # w => writers'[v] = writers[v]
  BY <1>0, <1>1, <1>3, <1>5, <1>6
<1>8. PICK call : call = [pc |-> IF callers[c].pc = "ensuring" THEN "submitting" ELSE "reminding",
                         key |-> callers[c].key, writer |-> NULL]
  OBVIOUS
<1>9. /\ call \in HD!CallerType /\ call.writer = NULL /\ call.key = callers[c].key
      /\ callers[c].key \in HD!Bucket
  <2>1. callers[c].key \in HD!Bucket
    BY <1>0 DEF HD!CallerType
  <2> QED BY <1>8, <2>1 DEF HD!CallerType
<1>10. /\ callers' \in [HD!Caller -> HD!CallerType] /\ callers'[c] = call
       /\ \A d \in HD!Caller : d # c => callers'[d] = callers[d]
  BY <1>0, <1>2, <1>8, <1>9 DEF HD!Call
<1>11. /\ record # NULL /\ record \in HD!RecordType /\ record' \in HD!RecordType /\ record' # NULL
       /\ record'.key = record.key /\ (record'.escalated <=> record.escalated)
       /\ record' = record \/ (record.key = callers[c].key /\ record'.writer = heardOf)
  <2>1. record # NULL /\ record \in HD!RecordType
    BY <1>0, <1>4 DEF HD!Owed, HD!DebtShape
  <2>2. PICK rec : rec = [record EXCEPT !.writer = heardOf]
    OBVIOUS
  <2>3. rec \in HD!RecordType /\ rec.key = record.key /\ rec.writer = heardOf /\ (rec.escalated <=> record.escalated)
    BY <2>1, <2>2 DEF HD!RecordType
  <2>4. record' = record \/ (record.key = callers[c].key /\ record' = rec)
    BY <1>1, <2>2 DEF HD!SettledRecord
  <2> QED BY <2>1, <2>3, <2>4
<1>12. \A v \in HD!Writer : HD!Running(v)' => HD!Running(v) /\ v # w
  BY <1>6, <1>7 DEF HD!Running
<1>13. HD!DebtShape'
  BY <1>0, <1>2, <1>7, <1>10, <1>11 DEF HD!DebtShape
<1>14. HD!DebtsAreRecorded'
  BY <1>0, <1>2, <1>4, <1>6, <1>7, <1>9, <1>10, <1>11 DEF HD!DebtsAreRecorded, HD!Owed
<1>15. HD!RemindersAreClaimed'
  BY <1>0, <1>2, <1>11 DEF HD!RemindersAreClaimed
<1>16. HD!WritersAreAlone'
  <2>1. record'.writer = "failed" =>
          /\ record.writer = "failed" \/ record.key = callers[c].key
          /\ \A v \in HD!Writer : HD!Running(v)' => writers[v].key # record.key
    BY <1>0, <1>2, <1>3, <1>11, <1>12 DEF HD!WritersAreAlone
  <2>2. ASSUME NEW v \in HD!Writer, HD!Running(v)'
        PROVE  /\ ledger'[writers'[v].key] = "absent"
               /\ \A u \in HD!Writer : HD!Running(u)' /\ writers'[u].key = writers'[v].key => u = v
               /\ writers'[v].key = record'.key => record'.writer # "failed"
    BY <1>0, <1>2, <1>7, <1>11, <1>12, <2>1, <2>2 DEF HD!WritersAreAlone
  <2>3. ASSUME NEW d \in HD!Caller, callers'[d].writer # NULL
        PROVE  /\ writers'[callers'[d].writer] # NULL /\ writers'[callers'[d].writer].key = callers'[d].key
               /\ callers'[d].key = record'.key =>
                    /\ record'.writer # "failed"
                    /\ \A e \in HD!Caller : callers'[e].writer # NULL /\ callers'[e].key = record'.key => e = d
                    /\ \A v \in HD!Writer : HD!Running(v)' /\ writers'[v].key = record'.key => v = callers'[d].writer
    <3>1. d # c /\ callers'[d] = callers[d] /\ callers[d].writer \in HD!Writer
      BY <1>0, <1>9, <1>10, <2>3 DEF HD!CallerType
    <3>2. writers[callers[d].writer] # NULL /\ writers[callers[d].writer].key = callers[d].key
      BY <1>0, <2>3, <3>1 DEF HD!WritersAreAlone
    <3>3. writers'[callers[d].writer] # NULL /\ writers'[callers[d].writer].key = callers[d].key
      BY <1>6, <1>7, <3>1, <3>2
    <3>4. callers[d].key = record.key => callers[c].key # record.key
      BY <1>0, <1>2, <2>3, <3>1 DEF HD!WritersAreAlone
    <3>5. ASSUME callers[d].key = record.key
          PROVE  /\ record'.writer # "failed"
                 /\ \A e \in HD!Caller : callers'[e].writer # NULL /\ callers'[e].key = record.key => e = d
                 /\ \A v \in HD!Writer : HD!Running(v)' /\ writers'[v].key = record.key => v = callers[d].writer
      <4>1. record' = record
        BY <1>11, <3>4, <3>5
      <4> QED BY <1>0, <1>7, <1>9, <1>10, <1>12, <2>3, <3>1, <3>5, <4>1 DEF HD!WritersAreAlone
    <3> QED BY <1>11, <3>1, <3>3, <3>5
  <2> QED BY <2>2, <2>3 DEF HD!WritersAreAlone
<1> QED BY <1>2, <1>13, <1>14, <1>15, <1>16 DEF HD!DebtInv

(* The reminder of the hour is claimed in its record.                       *)
LEMMA RemindsKeep ==
  ASSUME HD!DebtInv, HD!TickReminds
  PROVE  HD!DebtInv' /\ ledger' = ledger
<1> USE DebtAssumption
<1>0. /\ HD!DebtShape /\ HD!DebtsAreRecorded /\ HD!RemindersAreClaimed /\ HD!WritersAreAlone
      /\ callers \in [HD!Caller -> HD!CallerType] /\ "tick" \in HD!Caller
      /\ HD!Off \in HD!CallerType /\ HD!Off.writer = NULL /\ HD!Off.pc = "off"
  BY DEF HD!DebtInv, HD!DebtShape, HD!Caller, HD!Off, HD!Then, HD!CallerType, HD!Bucket
<1>1. /\ callers' = [callers EXCEPT !["tick"] = HD!Off]
      /\ hour' = hour /\ writers' = writers /\ ledger' = ledger /\ prompts' = prompts
  BY DEF HD!TickReminds
<1>2. CASE record' = record /\ reminders' = reminders
  <2>1. prompts' \subseteq HD!Bucket /\ \A b \in prompts' : b \in prompts \/ HD!Owed(b)
    BY <1>0, <1>1 DEF HD!DebtShape
  <2> QED BY <1>0, <1>1, <1>2, <2>1, CallersMove
<1>3. CASE /\ record # NULL /\ ~record.escalated /\ record.key = hour
           /\ record' = [record EXCEPT !.escalated = TRUE]
           /\ reminders' = [reminders EXCEPT ![hour] = @ + 1]
  <2>1. /\ callers' \in [HD!Caller -> HD!CallerType] /\ callers'["tick"] = HD!Off
        /\ \A d \in HD!Caller : d # "tick" => callers'[d] = callers[d]
    BY <1>0, <1>1
  <2>2. /\ record \in HD!RecordType /\ record' \in HD!RecordType /\ record' # NULL
        /\ record'.key = record.key /\ record'.escalated /\ record'.writer = record.writer
    <3>1. record \in HD!RecordType
      BY <1>0, <1>3 DEF HD!DebtShape
    <3>2. PICK rec : rec = [record EXCEPT !.escalated = TRUE]
      OBVIOUS
    <3>3. rec \in HD!RecordType /\ rec.key = record.key /\ rec.writer = record.writer /\ rec.escalated
      BY <3>1, <3>2 DEF HD!RecordType
    <3> QED BY <1>3, <3>1, <3>2, <3>3
  <2>3. hour \in HD!Bucket /\ reminders \in [HD!Bucket -> Nat]
    BY <1>0 DEF HD!DebtShape
  <2>4. reminders[hour] = 0
    BY <1>0, <1>3, <2>3 DEF HD!RemindersAreClaimed
  <2>5. /\ reminders' \in [HD!Bucket -> Nat] /\ reminders'[hour] = 1
        /\ \A b \in HD!Bucket : b # hour => reminders'[b] = reminders[b]
    BY <1>3, <2>3, <2>4
  <2>6. HD!DebtShape'
    BY <1>0, <1>1, <2>1, <2>2, <2>5 DEF HD!DebtShape
  <2>7. HD!DebtsAreRecorded'
    <3>1. HD!Owed(hour)
      BY <1>3, <2>3 DEF HD!Owed, HD!Bucket
    <3>2. \A b : HD!Owed(b) => HD!Owed(b)'
      BY <1>3, <2>2 DEF HD!Owed
    <3>3. \A b \in HD!Bucket : b \in prompts' \/ ledger'[b] # "absent" \/ reminders'[b] > 0 => HD!Owed(b)'
      BY <1>0, <1>1, <2>5, <3>1, <3>2 DEF HD!DebtsAreRecorded
    <3> QED BY <1>0, <1>1, <1>3, <2>1, <2>2, <3>3 DEF HD!DebtsAreRecorded, HD!Owed
  <2>8. HD!RemindersAreClaimed'
    BY <1>0, <1>3, <2>2, <2>5 DEF HD!RemindersAreClaimed
  <2>9. HD!WritersAreAlone'
    BY <1>0, <1>1, <2>1, <2>2 DEF HD!WritersAreAlone, HD!Running
  <2> QED BY <1>1, <2>6, <2>7, <2>8, <2>9 DEF HD!DebtInv
<1> QED BY <1>1, <1>2, <1>3 DEF HD!TickReminds

(* What the children, the agent, the clock and a restart do.                *)
LEMMA CommitsKeep ==
  ASSUME HD!DebtInv, NEW w \in HD!Writer, HD!WriterCommits(w)
  PROVE  HD!DebtInv' /\ HD!NotReopenedStep
<1> USE DebtAssumption
<1>0. /\ HD!DebtShape /\ HD!DebtsAreRecorded /\ HD!RemindersAreClaimed /\ HD!WritersAreAlone
      /\ callers \in [HD!Caller -> HD!CallerType] /\ writers \in [HD!Writer -> HD!ChildType \cup {NULL}]
  BY DEF HD!DebtInv, HD!DebtShape
<1>1. PICK state \in {"wrote", "died"} :
        /\ writers' = [writers EXCEPT ![w] = [key |-> writers[w].key, state |-> state]]
        /\ ledger' = IF state = "wrote" THEN [ledger EXCEPT ![writers[w].key] = "open"] ELSE ledger
  BY DEF HD!WriterCommits
<1>2. /\ writers[w] # NULL /\ writers[w].state = "running" /\ hour' = hour /\ record' = record
      /\ callers' = callers /\ prompts' = prompts /\ reminders' = reminders
  BY DEF HD!WriterCommits
<1>3. HD!Running(w) /\ writers[w] \in HD!ChildType /\ writers[w].key \in HD!Bucket
      /\ ledger[writers[w].key] = "absent" /\ HD!Owed(writers[w].key)
  BY <1>0, <1>2 DEF HD!Running, HD!ChildType, HD!WritersAreAlone, HD!DebtsAreRecorded
<1>4. PICK child : child = [key |-> writers[w].key, state |-> state]
  OBVIOUS
<1>5. child \in HD!ChildType /\ child # NULL /\ child.key = writers[w].key /\ child.state # "running"
  BY <1>3, <1>4 DEF HD!ChildType
<1>6. /\ writers' \in [HD!Writer -> HD!ChildType \cup {NULL}] /\ writers'[w] = child
      /\ \A v \in HD!Writer : v # w => writers'[v] = writers[v]
  BY <1>0, <1>1, <1>4, <1>5
<1>7. /\ ledger' \in [HD!Bucket -> {"absent", "open", "resolved"}]
      /\ \A b \in HD!Bucket : b # writers[w].key => ledger'[b] = ledger[b]
  <2>1. ledger \in [HD!Bucket -> {"absent", "open", "resolved"}]
    BY <1>0 DEF HD!DebtShape
  <2> QED BY <1>1, <1>3, <2>1
<1>8. \A v \in HD!Writer : HD!Running(v)' => HD!Running(v) /\ v # w
  BY <1>5, <1>6 DEF HD!Running
<1>9. HD!DebtShape'
  BY <1>0, <1>2, <1>6, <1>7 DEF HD!DebtShape
<1>10. HD!DebtsAreRecorded'
  BY <1>0, <1>2, <1>3, <1>5, <1>6, <1>7 DEF HD!DebtsAreRecorded, HD!Owed
<1>11. HD!RemindersAreClaimed'
  BY <1>0, <1>2 DEF HD!RemindersAreClaimed
<1>12. HD!WritersAreAlone'
  <2>1. ASSUME NEW v \in HD!Writer, HD!Running(v)'
        PROVE  /\ ledger'[writers'[v].key] = "absent"
               /\ \A u \in HD!Writer : HD!Running(u)' /\ writers'[u].key = writers'[v].key => u = v
               /\ writers'[v].key = record'.key => record'.writer # "failed"
    <3>1. HD!Running(v) /\ v # w /\ writers'[v] = writers[v] /\ writers[v] # NULL
      BY <1>6, <1>8, <2>1 DEF HD!Running
    <3>2. writers[v].key # writers[w].key /\ writers[v].key \in HD!Bucket /\ ledger[writers[v].key] = "absent"
      BY <1>0, <1>3, <3>1 DEF HD!WritersAreAlone, HD!ChildType
    <3> QED BY <1>0, <1>2, <1>6, <1>7, <1>8, <3>1, <3>2 DEF HD!WritersAreAlone
  <2>2. ASSUME NEW d \in HD!Caller, callers[d].writer # NULL
        PROVE  /\ writers'[callers[d].writer] # NULL /\ writers'[callers[d].writer].key = callers[d].key
               /\ \A v \in HD!Writer : /\ HD!Running(v)' /\ writers'[v].key = record.key
                                       /\ callers[d].key = record.key
                                      => v = callers[d].writer
    <3>1. callers[d].writer \in HD!Writer
      BY <1>0, <2>2 DEF HD!CallerType
    <3> QED BY <1>0, <1>5, <1>6, <1>8, <2>2, <3>1 DEF HD!WritersAreAlone
  <2> QED BY <1>0, <1>2, <2>1, <2>2 DEF HD!WritersAreAlone
<1>13. HD!NotReopenedStep
  BY <1>3, <1>7 DEF HD!NotReopenedStep
<1> QED BY <1>9, <1>10, <1>11, <1>12, <1>13 DEF HD!DebtInv

LEMMA HoursKeep ==
  ASSUME HD!DebtInv, (\E b \in HD!Bucket : HD!Posts(b)) \/ HD!HourPasses \/ HD!DebtCrash
  PROVE  HD!DebtInv' /\ HD!NotReopenedStep
<1> USE DebtAssumption
<1>0. /\ HD!DebtShape /\ HD!DebtsAreRecorded /\ HD!RemindersAreClaimed /\ HD!WritersAreAlone
      /\ HD!Off \in HD!CallerType /\ HD!Off.writer = NULL /\ HD!Off.pc = "off"
  BY DEF HD!DebtInv, HD!Off, HD!Then, HD!CallerType, HD!Bucket
<1>1. /\ record' = record /\ writers' = writers /\ prompts' = prompts /\ reminders' = reminders
      /\ hour' = hour \/ (hour < MaxBucket /\ hour' = hour + 1)
      /\ callers' = callers \/ callers' = [c \in HD!Caller |-> HD!Off]
      /\ ledger' = ledger \/ \E b \in HD!Bucket : ledger[b] = "open" /\ ledger' = [ledger EXCEPT ![b] = "resolved"]
  BY DEF HD!Posts, HD!HourPasses, HD!DebtCrash
<1>2. /\ ledger' \in [HD!Bucket -> {"absent", "open", "resolved"}]
      /\ \A b \in HD!Bucket : ledger'[b] = ledger[b] \/ (ledger[b] = "open" /\ ledger'[b] = "resolved")
  <2>1. ledger \in [HD!Bucket -> {"absent", "open", "resolved"}]
    BY <1>0 DEF HD!DebtShape
  <2> QED BY <1>1, <2>1
<1>3. callers' \in [HD!Caller -> HD!CallerType]
      /\ \A c \in HD!Caller : callers'[c] = callers[c] \/ callers'[c] = HD!Off
  BY <1>0, <1>1 DEF HD!DebtShape
<1>4. hour' \in HD!Bucket /\ hour <= hour'
  BY <1>0, <1>1 DEF HD!DebtShape, HD!Bucket
<1>5. HD!DebtShape'
  BY <1>0, <1>1, <1>2, <1>3, <1>4 DEF HD!DebtShape
<1>6. HD!DebtsAreRecorded'
  <2>1. record # NULL => record.key <= hour'
    BY <1>0, <1>4 DEF HD!DebtsAreRecorded, HD!DebtShape, HD!RecordType, HD!Bucket
  <2> QED BY <1>0, <1>1, <1>2, <1>3, <2>1 DEF HD!DebtsAreRecorded, HD!Owed
<1>7. HD!RemindersAreClaimed'
  BY <1>0, <1>1 DEF HD!RemindersAreClaimed
<1>8. HD!WritersAreAlone'
  <2>1. ASSUME NEW v \in HD!Writer, HD!Running(v)
        PROVE  /\ ledger'[writers[v].key] = "absent"
    <3>1. writers[v].key \in HD!Bucket /\ ledger[writers[v].key] = "absent"
      BY <1>0, <2>1 DEF HD!WritersAreAlone, HD!DebtShape, HD!ChildType, HD!Running
    <3> QED BY <1>2, <3>1
  <2> QED BY <1>0, <1>1, <1>3, <2>1 DEF HD!WritersAreAlone, HD!Running
<1>9. HD!NotReopenedStep
  BY <1>2 DEF HD!NotReopenedStep
<1> QED BY <1>5, <1>6, <1>7, <1>8, <1>9 DEF HD!DebtInv

LEMMA DebtStep ==
  ASSUME HD!DebtInv, HD!DebtNext
  PROVE  HD!DebtInv' /\ HD!NotReopenedStep
<1>1. ASSUME HD!DebtInv', ledger' = ledger PROVE HD!DebtInv' /\ HD!NotReopenedStep
  BY <1>1 DEF HD!NotReopenedStep
<1>2. ASSUME HD!TickReconciles PROVE HD!DebtInv' /\ HD!NotReopenedStep
  <2>1. "tick" \in HD!Caller
    BY DEF HD!Caller
  <2>2. \A c \in HD!Caller : HD!DebtInv' /\ ledger' = ledger
    BY <1>2, TriggersKeep
  <2> QED BY <1>1, <2>1, <2>2
<1>3. ASSUME NEW c \in HD!Caller, HD!Trigger(c) \/ HD!PromptSubmitted(c)
      PROVE  HD!DebtInv' /\ HD!NotReopenedStep
  BY <1>1, <1>3, TriggersKeep
<1>4. ASSUME NEW c \in HD!Caller, HD!WriterSettles(c) PROVE HD!DebtInv' /\ HD!NotReopenedStep
  BY <1>1, <1>4, SettlesKeep
<1>5. ASSUME HD!TickReminds PROVE HD!DebtInv' /\ HD!NotReopenedStep
  BY <1>1, <1>5, RemindsKeep
<1> QED BY <1>2, <1>3, <1>4, <1>5, CommitsKeep, HoursKeep DEF HD!DebtNext

LEMMA DebtReminds == HD!DebtInv => HD!RemindedOnce
<1> SUFFICES ASSUME HD!DebtInv PROVE HD!RemindedOnce
  OBVIOUS
<1> USE DebtAssumption
<1>1. HD!DebtShape /\ HD!DebtsAreRecorded /\ HD!RemindersAreClaimed
  BY DEF HD!DebtInv
<1>2. hour \in HD!Bucket /\ HD!Bucket \subseteq Nat /\ (record # NULL => record.key \in Nat)
  BY <1>1 DEF HD!DebtShape, HD!RecordType, HD!Bucket
<1>3. hour \in prompts => record # NULL /\ record.key = hour
  BY <1>1, <1>2 DEF HD!DebtsAreRecorded, HD!Owed
<1> QED BY <1>1, <1>3 DEF HD!RemindersAreClaimed, HD!RemindedOnce

-----------------------------------------------------------------------------
(* The reconciliation of green CI (CISuccess).                              *)

LEMMA ReconcileStarts == CU!ReconcileInit => CU!ReconcileInv
<1> SUFFICES ASSUME CU!ReconcileInit PROVE CU!ReconcileInv
  OBVIOUS
<1>1. CU!ReconcileShape
  <2>1. pushes = 0 /\ 0 \in CU!Head0
    BY ReconcileAssumption DEF CU!ReconcileInit, CU!Head0
  <2>2. pull \in [CU!PR -> [head : 0 .. pushes, label : CU!Labels, appears : BOOLEAN, green : BOOLEAN,
                        marker : BOOLEAN]]
    <3>1. pull \in [CU!PR -> [head : {0}, label : {"awaiting", "review"}, appears : {TRUE},
                              green : BOOLEAN, marker : BOOLEAN]]
      BY DEF CU!ReconcileInit
    <3>2. \A r \in [head : {0}, label : {"awaiting", "review"}, appears : {TRUE}, green : BOOLEAN,
                    marker : BOOLEAN] :
            r \in [head : 0 .. pushes, label : CU!Labels, appears : BOOLEAN, green : BOOLEAN,
                   marker : BOOLEAN]
      <4> TAKE r \in [head : {0}, label : {"awaiting", "review"}, appears : {TRUE},
                      green : BOOLEAN, marker : BOOLEAN]
      <4>1. /\ r = [head |-> r.head, label |-> r.label, appears |-> r.appears, green |-> r.green,
                    marker |-> r.marker]
            /\ r.head = 0 /\ r.label \in CU!Labels
        BY DEF CU!Labels
      <4>2. r.appears \in BOOLEAN /\ r.green \in BOOLEAN /\ r.marker \in BOOLEAN
        OBVIOUS
      <4>3. r.head \in 0 .. pushes
        BY <2>1, <4>1
      <4> QED BY <4>1, <4>2, <4>3
    <3> QED BY <3>1, <3>2
  <2>3. handoff \in [CU!PR -> [CU!Head0 -> {"none", "pending", "sent"}]]
    BY DEF CU!ReconcileInit
  <2>4. sentinel = [pr \in CU!PR |-> sentinel[pr]]
    BY DEF CU!ReconcileInit
  <2>5. \A p \in {dog, pm} : p = [pc |-> p.pc, pr |-> p.pr, head |-> p.head, label |-> p.label,
                                wants |-> p.wants]
    BY DEF CU!ReconcileInit, CU!Off
  <2> QED BY <2>1, <2>2, <2>3, <2>4, <2>5 DEF CU!ReconcileShape
<1>2. dog.pc = "off" /\ pm.pc = "off"
  BY DEF CU!ReconcileInit, CU!Off
<1>3. CU!HandedOffIsProven
  <2>1. \A pr \in CU!PR : \A h \in CU!Head0 : handoff[pr][h] = "none"
    BY DEF CU!ReconcileInit
  <2>2. \A pr \in CU!PR : sentinel[pr].status # "resolved"
    BY DEF CU!ReconcileInit, CU!NoEvent
  <2> QED BY <2>1, <2>2 DEF CU!HandedOffIsProven
<1>4. CU!HandoffsAreProven
  BY <1>2, <1>3 DEF CU!HandoffsAreProven
<1>5. CU!OneUnderTheLock
  BY <1>2 DEF CU!OneUnderTheLock, CU!Locked
<1> QED BY <1>1, <1>4, <1>5 DEF CU!ReconcileInv

LEMMA DogMoves ==
  ASSUME CU!ReconcileInv, UNCHANGED <<pull, sentinel, handoff, pm, pushes>>,
         proven \subseteq proven',
         dog' = [pc |-> dog'.pc, pr |-> dog'.pr, head |-> dog'.head, label |-> dog'.label,
                 wants |-> dog'.wants],
         dog'.pc \notin {"ledger", "alert", "promoted"},
         dog'.pc = "handoff" => <<dog'.pr, dog'.head>> \in proven',
         dog'.pc \in CU!Locked /\ pm.pc # "off" => dog'.pr # pm.pr,
         dog'.pc \in {"handoff", "pending"} /\ dog'.pr \in CU!PR =>
           ~(/\ sentinel[dog'.pr].head = dog'.head
             /\ sentinel[dog'.pr].status \in {"pending", "in_progress", "resolved"})
  PROVE  CU!ReconcileInv' /\ CU!SettledStaysStep
<1>1. CU!ReconcileShape'
  BY DEF CU!ReconcileInv, CU!ReconcileShape
<1>2. CU!HandedOffIsProven'
  BY DEF CU!ReconcileInv, CU!HandoffsAreProven, CU!HandedOffIsProven
<1>3. CU!HandoffsAreProven'
  BY <1>2 DEF CU!ReconcileInv, CU!HandoffsAreProven, CU!Sent
<1>4. CU!OneUnderTheLock'
  BY DEF CU!ReconcileInv, CU!OneUnderTheLock, CU!Handled, CU!Locked
<1>5. CU!SettledStaysStep
  BY DEF CU!SettledStaysStep
<1> QED BY <1>1, <1>3, <1>4, <1>5 DEF CU!ReconcileInv

LEMMA PmMoves ==
  ASSUME CU!ReconcileInv, UNCHANGED <<pull, sentinel, handoff, dog, pushes>>,
         proven \subseteq proven',
         pm' = [pc |-> pm'.pc, pr |-> pm'.pr, head |-> pm'.head, label |-> pm'.label,
                 wants |-> pm'.wants],
         pm'.pc \notin {"ledger", "alert"},
         pm'.pc = "handoff" => <<pm'.pr, pm'.head>> \in proven',
         pm'.pc \in {"close", "write"} /\ pm'.wants = "merge_ready" /\ pm'.pr \in CU!PR =>
           pm'.head \in CU!Head0 /\ handoff[pm'.pr][pm'.head] = "sent",
         dog.pc \in CU!Locked /\ pm'.pc # "off" => dog.pr # pm'.pr
  PROVE  CU!ReconcileInv' /\ CU!SettledStaysStep
<1>1. CU!ReconcileShape'
  BY DEF CU!ReconcileInv, CU!ReconcileShape
<1>2. CU!HandedOffIsProven'
  BY DEF CU!ReconcileInv, CU!HandoffsAreProven, CU!HandedOffIsProven
<1>3. CU!HandoffsAreProven'
  BY <1>2 DEF CU!ReconcileInv, CU!HandoffsAreProven, CU!Sent
<1>4. CU!OneUnderTheLock'
  BY DEF CU!ReconcileInv, CU!OneUnderTheLock, CU!Handled, CU!Locked
<1>5. CU!SettledStaysStep
  BY DEF CU!SettledStaysStep
<1> QED BY <1>1, <1>3, <1>4, <1>5 DEF CU!ReconcileInv

LEMMA TickMoves ==
  ASSUME CU!ReconcileInv,
         CU!Tick \/ CU!Row \/ CU!EndTick \/ CU!Guard \/ CU!TakeLock \/ CU!Decide \/ CU!Wake
  PROVE  CU!ReconcileInv' /\ CU!SettledStaysStep
<1>1. UNCHANGED <<pull, sentinel, handoff, pm, pushes>>
  BY DEF CU!Tick, CU!Row, CU!EndTick, CU!Guard, CU!TakeLock, CU!Decide, CU!Wake
<1>2. dog = [pc |-> dog.pc, pr |-> dog.pr, head |-> dog.head, label |-> dog.label,
             wants |-> dog.wants]
  BY DEF CU!ReconcileInv, CU!ReconcileShape
<1>3. CASE CU!Tick \/ CU!Row \/ CU!EndTick
  <2>1. /\ dog' = [pc |-> dog'.pc, pr |-> dog'.pr, head |-> dog'.head, label |-> dog'.label,
                   wants |-> dog'.wants]
        /\ dog'.pc \in {"row", "guard", "off"}
    BY <1>3 DEF CU!Tick, CU!Row, CU!EndTick, CU!NextRow, CU!Off
  <2>2. proven' = proven
    BY <1>3 DEF CU!Tick, CU!Row, CU!EndTick
  <2> QED BY <1>1, <2>1, <2>2, DogMoves DEF CU!Locked
<1>4. CASE CU!Guard \/ CU!Wake
  <2>1. /\ dog' = [pc |-> dog'.pc, pr |-> dog'.pr, head |-> dog'.head, label |-> dog'.label,
                   wants |-> dog'.wants]
        /\ dog'.pc \in {"row", "lock"}
    BY <1>2, <1>4 DEF CU!Guard, CU!Wake, CU!NextRow, CU!Off
  <2>2. proven' = proven
    BY <1>4 DEF CU!Guard, CU!Wake
  <2> QED BY <1>1, <2>1, <2>2, DogMoves DEF CU!Locked
<1>5. CASE CU!TakeLock
  <2>1. /\ dog' = [pc |-> "decide", pr |-> dog.pr, head |-> dog.head, label |-> dog.label,
                   wants |-> dog.wants]
        /\ proven' = proven /\ CU!LockFree(dog.pr)
    BY <1>2, <1>5 DEF CU!TakeLock
  <2>2. pm.pc # "off" => dog'.pr # pm.pr
    BY <2>1 DEF CU!LockFree
  <2> QED BY <1>1, <2>1, <2>2, DogMoves DEF CU!Locked
<1>6. CASE CU!Decide
  <2>1. dog.pc = "decide" /\ (pm.pc # "off" => dog.pr # pm.pr)
    BY <1>6 DEF CU!Decide, CU!ReconcileInv, CU!OneUnderTheLock, CU!Locked
  <2>2. CASE CU!Handled(dog.pr, dog.head)
    <3>1. /\ dog' = [pc |-> dog'.pc, pr |-> dog'.pr, head |-> dog'.head, label |-> dog'.label,
                     wants |-> dog'.wants]
          /\ dog'.pc = "row" /\ proven' = proven
      BY <1>6, <2>2 DEF CU!Decide, CU!NextRow, CU!Off
    <3> QED BY <1>1, <3>1, DogMoves DEF CU!Locked
  <2>3. CASE ~CU!Handled(dog.pr, dog.head)
    <3>1. \E c \in {"handoff", "pending"} :
             dog' = [pc |-> c, pr |-> dog.pr, head |-> dog.head, label |-> dog.label,
                     wants |-> dog.wants]
      BY <1>2, <1>6, <2>3 DEF CU!Decide
    <3>2. proven \subseteq proven' /\ (dog'.pc = "handoff" => <<dog.pr, dog.head>> \in proven')
      BY <1>2, <1>6, <2>3 DEF CU!Decide
    <3> QED BY <1>1, <2>1, <2>3, <3>1, <3>2, DogMoves DEF CU!Locked, CU!Handled
  <2> QED BY <2>2, <2>3
<1> QED BY <1>3, <1>4, <1>5, <1>6

(* The promotion, of the watchdog or of the PM: what it does to the handoff. *)
LEMMA HandoffKept ==
  ASSUME CU!ReconcileShape, NEW p \in {dog, pm}, NEW q, NEW isDog \in BOOLEAN,
         CU!PromoteStep(p, q, isDog),
         p.pc \in {"ledger", "alert"} => (p.pr \in CU!PR => p.head \in CU!Head0)
  PROVE  /\ q = [pc |-> q.pc, pr |-> q.pr, head |-> q.head, label |-> q.label, wants |-> q.wants]
         /\ p.pc \in {"handoff", "ledger", "alert"}
         /\ q.pc \in (IF isDog THEN {"pending", "ledger", "alert", "promoted"}
                               ELSE {"off", "ledger", "alert", "close"})
         /\ q.pc # "off" => q.pr = p.pr /\ q.head = p.head /\ q.wants = p.wants
         /\ q.pc \in {"ledger", "alert"} => (p.pr \in CU!PR => p.head \in CU!Head0)
         /\ handoff' \in [CU!PR -> [CU!Head0 -> {"none", "pending", "sent"}]]
         /\ \A pr \in CU!PR : \A h \in CU!Head0 :
              /\ pr # p.pr \/ h # p.head => handoff'[pr][h] = handoff[pr][h]
              /\ handoff[pr][h] = "sent" => handoff'[pr][h] = "sent"
         /\ q.pc \in {"promoted", "close"} /\ p.pr \in CU!PR =>
              p.head \in CU!Head0 /\ handoff'[p.pr][p.head] = "sent"
<1>1. p = [pc |-> p.pc, pr |-> p.pr, head |-> p.head, label |-> p.label, wants |-> p.wants]
  BY DEF CU!ReconcileShape
<1>2. handoff \in [CU!PR -> [CU!Head0 -> {"none", "pending", "sent"}]]
  BY DEF CU!ReconcileShape
<1>3. p.pc \in {"handoff", "ledger", "alert"}
  BY DEF CU!PromoteStep
<1>9. ASSUME NEW v \in {"none", "pending", "sent"}, p.pr \in CU!PR => p.head \in CU!Head0,
             handoff' = [handoff EXCEPT ![p.pr][p.head] = v]
      PROVE  /\ handoff' \in [CU!PR -> [CU!Head0 -> {"none", "pending", "sent"}]]
             /\ \A pr \in CU!PR : \A h \in CU!Head0 :
                  handoff'[pr][h] = IF pr = p.pr /\ h = p.head THEN v ELSE handoff[pr][h]
  <2> DEFINE a == p.pr
             b == p.head
  <2>1. CASE a \in CU!PR
    <3>1. [handoff[a] EXCEPT ![b] = v] \in [CU!Head0 -> {"none", "pending", "sent"}]
      BY <1>2, <1>9, <2>1
    <3>2. \A h \in CU!Head0 : [handoff[a] EXCEPT ![b] = v][h] = IF h = b THEN v ELSE handoff[a][h]
      BY <1>2, <1>9, <2>1
    <3> QED BY <1>2, <1>9, <2>1, <3>1, <3>2
  <2>2. CASE a \notin CU!PR
    <3>1. handoff' = handoff
      BY <1>2, <1>9, <2>2
    <3> QED BY <1>2, <2>2, <3>1
  <2> QED BY <2>1, <2>2
<1>4. CASE q = CU!Unpromoted(p, isDog) /\ UNCHANGED handoff
  <2>1. isDog => q = [pc |-> "pending", pr |-> p.pr, head |-> p.head, label |-> p.label, wants |-> p.wants]
    BY <1>1, <1>4 DEF CU!Unpromoted
  <2>2. ~isDog => /\ q = [pc |-> q.pc, pr |-> q.pr, head |-> q.head, label |-> q.label, wants |-> q.wants]
                  /\ q.pc = "off"
    BY <1>4 DEF CU!Unpromoted, CU!Off
  <2> QED BY <1>2, <1>3, <1>4, <2>1, <2>2
<1>5. CASE q = CU!Promoted(p, isDog) /\ p.pc = "handoff" /\ UNCHANGED handoff
           /\ pull[p.pr].head = p.head /\ handoff[p.pr][p.head] = "sent"
  <2>1. q = [pc |-> IF isDog THEN "promoted" ELSE "close", pr |-> p.pr, head |-> p.head, label |-> p.label,
             wants |-> p.wants]
    BY <1>1, <1>5 DEF CU!Promoted
  <2>2. p.pr \in CU!PR => p.head \in CU!Head0
    BY <1>5, ReconcileAssumption DEF CU!ReconcileShape, CU!Head0
  <2> QED BY <1>2, <1>3, <1>5, <2>1, <2>2
<1>6. CASE /\ p.pc = "handoff" /\ pull[p.pr].head = p.head /\ handoff[p.pr][p.head] # "sent"
           /\ handoff' = [handoff EXCEPT ![p.pr][p.head] = "pending"] /\ q = [p EXCEPT !.pc = "ledger"]
  <2>1. q = [pc |-> "ledger", pr |-> p.pr, head |-> p.head, label |-> p.label, wants |-> p.wants]
    BY <1>1, <1>6
  <2>2. p.pr \in CU!PR => p.head \in CU!Head0
    BY <1>6, ReconcileAssumption DEF CU!ReconcileShape, CU!Head0
  <2>3. /\ handoff' \in [CU!PR -> [CU!Head0 -> {"none", "pending", "sent"}]]
        /\ \A pr \in CU!PR : \A h \in CU!Head0 :
             handoff'[pr][h] = IF pr = p.pr /\ h = p.head THEN "pending" ELSE handoff[pr][h]
    <3>1. handoff' = [handoff EXCEPT ![p.pr][p.head] = "pending"] /\ "pending" \in {"none", "pending", "sent"}
      BY <1>6
    <3> QED BY <2>2, <3>1, <1>9
  <2> QED BY <1>3, <1>6, <2>1, <2>2, <2>3
<1>7. CASE p.pc = "ledger" /\ q = [p EXCEPT !.pc = "alert"] /\ UNCHANGED handoff
  <2>1. q = [pc |-> "alert", pr |-> p.pr, head |-> p.head, label |-> p.label, wants |-> p.wants]
    BY <1>1, <1>7
  <2> QED BY <1>2, <1>3, <1>7, <2>1
<1>8. CASE /\ p.pc = "alert" /\ q = CU!Promoted(p, isDog)
           /\ handoff' = [handoff EXCEPT ![p.pr][p.head] = "sent"]
  <2>1. q = [pc |-> IF isDog THEN "promoted" ELSE "close", pr |-> p.pr, head |-> p.head, label |-> p.label,
             wants |-> p.wants]
    BY <1>1, <1>8 DEF CU!Promoted
  <2>2. p.pr \in CU!PR => p.head \in CU!Head0
    BY <1>8
  <2>3. /\ handoff' \in [CU!PR -> [CU!Head0 -> {"none", "pending", "sent"}]]
        /\ \A pr \in CU!PR : \A h \in CU!Head0 :
             handoff'[pr][h] = IF pr = p.pr /\ h = p.head THEN "sent" ELSE handoff[pr][h]
    <3>1. handoff' = [handoff EXCEPT ![p.pr][p.head] = "sent"] /\ "sent" \in {"none", "pending", "sent"}
      BY <1>8
    <3> QED BY <2>2, <3>1, <1>9
  <2> QED BY <1>3, <1>8, <2>1, <2>2, <2>3
<1> QED BY <1>4, <1>5, <1>6, <1>7, <1>8 DEF CU!PromoteStep

LEMMA PromotesKeep ==
  ASSUME CU!ReconcileInv, CU!DogPromote \/ CU!PmPromote
  PROVE  CU!ReconcileInv' /\ CU!SettledStaysStep
<1>1. UNCHANGED <<pull, sentinel, pushes, proven>>
  BY DEF CU!DogPromote, CU!PmPromote
<1>2. CU!SettledStaysStep
  BY <1>1 DEF CU!SettledStaysStep
<1>3. /\ CU!ReconcileShape /\ CU!HandoffsAreProven /\ CU!OneUnderTheLock /\ CU!HandedOffIsProven
      /\ dog.pc \in {"handoff", "ledger", "alert"} => <<dog.pr, dog.head>> \in proven
      /\ pm.pc \in {"handoff", "ledger", "alert"} => <<pm.pr, pm.head>> \in proven
      /\ dog.pc \in {"ledger", "alert"} => (dog.pr \in CU!PR => dog.head \in CU!Head0)
      /\ pm.pc \in {"ledger", "alert"} => (pm.pr \in CU!PR => pm.head \in CU!Head0)
  BY DEF CU!ReconcileInv, CU!HandoffsAreProven
<1>4. ASSUME NEW p \in {dog, pm}, <<p.pr, p.head>> \in proven,
             handoff' \in [CU!PR -> [CU!Head0 -> {"none", "pending", "sent"}]],
             \A pr \in CU!PR : \A h \in CU!Head0 :
               /\ pr # p.pr \/ h # p.head => handoff'[pr][h] = handoff[pr][h]
               /\ handoff[pr][h] = "sent" => handoff'[pr][h] = "sent"
      PROVE  CU!HandedOffIsProven'
  BY <1>1, <1>3, <1>4 DEF CU!HandedOffIsProven
<1>5. CASE CU!DogPromote
  <2>1. pm' = pm /\ CU!PromoteStep(dog, dog', TRUE)
    BY <1>5 DEF CU!DogPromote
  <2> DEFINE q == dog'
  <2>2. /\ q = [pc |-> q.pc, pr |-> q.pr, head |-> q.head, label |-> q.label, wants |-> q.wants]
        /\ dog.pc \in {"handoff", "ledger", "alert"}
        /\ q.pc \in {"pending", "ledger", "alert", "promoted"}
        /\ q.pr = dog.pr /\ q.head = dog.head
        /\ q.pc \in {"ledger", "alert"} => (dog.pr \in CU!PR => dog.head \in CU!Head0)
        /\ handoff' \in [CU!PR -> [CU!Head0 -> {"none", "pending", "sent"}]]
        /\ \A pr \in CU!PR : \A h \in CU!Head0 :
             /\ pr # dog.pr \/ h # dog.head => handoff'[pr][h] = handoff[pr][h]
             /\ handoff[pr][h] = "sent" => handoff'[pr][h] = "sent"
        /\ q.pc = "promoted" /\ dog.pr \in CU!PR =>
             dog.head \in CU!Head0 /\ handoff'[dog.pr][dog.head] = "sent"
    <3> HIDE DEF q
    <3>1. CU!PromoteStep(dog, q, TRUE)
      BY <2>1 DEF q
    <3> QED BY <1>3, <3>1, HandoffKept, Zenon
  <2>3. CU!ReconcileShape'
    BY <1>1, <1>3, <2>1, <2>2 DEF CU!ReconcileShape
  <2>4. CU!HandedOffIsProven'
    BY <1>3, <1>4, <2>2
  <2>5. CU!HandoffsAreProven'
    BY <1>1, <1>3, <2>1, <2>2, <2>4 DEF CU!HandoffsAreProven, CU!Sent
  <2>6. CU!OneUnderTheLock'
    BY <1>1, <1>3, <2>1, <2>2 DEF CU!OneUnderTheLock, CU!Handled, CU!Locked
  <2> QED BY <1>2, <2>3, <2>5, <2>6 DEF CU!ReconcileInv
<1>6. CASE CU!PmPromote
  <2>1. dog' = dog /\ CU!PromoteStep(pm, pm', FALSE)
    BY <1>6 DEF CU!PmPromote
  <2> DEFINE q == pm'
  <2>2. /\ q = [pc |-> q.pc, pr |-> q.pr, head |-> q.head, label |-> q.label, wants |-> q.wants]
        /\ pm.pc \in {"handoff", "ledger", "alert"}
        /\ q.pc \in {"off", "ledger", "alert", "close"}
        /\ q.pc # "off" => q.pr = pm.pr /\ q.head = pm.head /\ q.wants = pm.wants
        /\ q.pc \in {"ledger", "alert"} => (pm.pr \in CU!PR => pm.head \in CU!Head0)
        /\ handoff' \in [CU!PR -> [CU!Head0 -> {"none", "pending", "sent"}]]
        /\ \A pr \in CU!PR : \A h \in CU!Head0 :
             /\ pr # pm.pr \/ h # pm.head => handoff'[pr][h] = handoff[pr][h]
             /\ handoff[pr][h] = "sent" => handoff'[pr][h] = "sent"
        /\ q.pc = "close" /\ pm.pr \in CU!PR =>
             pm.head \in CU!Head0 /\ handoff'[pm.pr][pm.head] = "sent"
    <3> HIDE DEF q
    <3>1. CU!PromoteStep(pm, q, FALSE)
      BY <2>1 DEF q
    <3> QED BY <1>3, <3>1, HandoffKept, Zenon
  <2>3. CU!ReconcileShape'
    BY <1>1, <1>3, <2>1, <2>2 DEF CU!ReconcileShape
  <2>4. CU!HandedOffIsProven'
    BY <1>3, <1>4, <2>2
  <2>5. CU!HandoffsAreProven'
    BY <1>1, <1>3, <2>1, <2>2, <2>4 DEF CU!HandoffsAreProven, CU!Sent
  <2>6. CU!OneUnderTheLock'
    BY <1>1, <1>3, <2>1, <2>2 DEF CU!OneUnderTheLock, CU!Handled, CU!Locked
  <2> QED BY <1>2, <2>3, <2>5, <2>6 DEF CU!ReconcileInv
<1> QED BY <1>5, <1>6

(* The event file: of the watchdog and of the PM, each under the lock.      *)
LEMMA EventsKeep ==
  ASSUME CU!ReconcileInv, CU!WritePending \/ CU!WritePromoted
  PROVE  CU!ReconcileInv' /\ CU!SettledStaysStep
<1>1. UNCHANGED <<pull, handoff, pm, pushes, proven>>
  BY DEF CU!WritePending, CU!WritePromoted
<1>2. /\ CU!ReconcileShape /\ CU!HandoffsAreProven /\ CU!OneUnderTheLock /\ CU!HandedOffIsProven
      /\ \A p \in {dog, pm} : p = [pc |-> p.pc, pr |-> p.pr, head |-> p.head, label |-> p.label,
                                   wants |-> p.wants]
  BY DEF CU!ReconcileInv, CU!HandoffsAreProven, CU!ReconcileShape
<1>3. /\ dog' = [pc |-> dog'.pc, pr |-> dog'.pr, head |-> dog'.head, label |-> dog'.label,
                 wants |-> dog'.wants]
      /\ dog'.pc \in {"wake", "row"} /\ (dog'.pc = "wake" => dog'.pr = dog.pr)
  BY <1>2 DEF CU!WritePending, CU!WritePromoted, CU!NextRow, CU!Off
<1>4. PICK e : /\ sentinel' = [sentinel EXCEPT ![dog.pr] = e]
               /\ e.status = "pending" => dog.pc = "pending" /\ e.head = dog.head
               /\ e.status = "resolved" => dog.pc = "promoted" /\ e.head = dog.head
  BY DEF CU!WritePending, CU!WritePromoted
<1>5. /\ sentinel' = [pr \in CU!PR |-> sentinel'[pr]]
      /\ \A pr \in CU!PR : sentinel'[pr] = IF pr = dog.pr THEN e ELSE sentinel[pr]
  BY <1>2, <1>4 DEF CU!ReconcileShape
<1>6. dog.pc \in {"pending", "promoted"} /\ dog.pc \in CU!Locked
  BY DEF CU!WritePending, CU!WritePromoted, CU!Locked
<1>7. CU!ReconcileShape'
  BY <1>1, <1>2, <1>3, <1>5 DEF CU!ReconcileShape
<1>8. CU!HandedOffIsProven'
  BY <1>1, <1>2, <1>4, <1>5 DEF CU!HandedOffIsProven, CU!HandoffsAreProven, CU!Sent
<1>9. CU!HandoffsAreProven'
  BY <1>1, <1>2, <1>3, <1>8 DEF CU!HandoffsAreProven, CU!Sent
<1>10. CU!OneUnderTheLock'
  BY <1>1, <1>2, <1>3, <1>6 DEF CU!OneUnderTheLock, CU!Locked
<1>11. CU!SettledStaysStep
  BY <1>2, <1>4, <1>5 DEF CU!SettledStaysStep, CU!OneUnderTheLock, CU!Handled
<1> QED BY <1>7, <1>9, <1>10, <1>11 DEF CU!ReconcileInv

LEMMA ClaimsKeep ==
  ASSUME CU!ReconcileInv, NEW t \in CU!PR, NEW e, dog.pc \in CU!Locked => dog.pr # t,
         sentinel' = [sentinel EXCEPT ![t] = e], e.status # "pending",
         e.status = "resolved" /\ e.resolution = "merge_ready" =>
           \E h \in CU!Head0 : handoff[t][h] = "sent",
         UNCHANGED <<pull, handoff, dog, pushes, proven>>, pm' = pm \/ pm' = CU!Off
  PROVE  CU!ReconcileInv' /\ CU!SettledStaysStep
<1>1. /\ CU!ReconcileShape /\ CU!HandoffsAreProven /\ CU!OneUnderTheLock /\ CU!HandedOffIsProven
  BY DEF CU!ReconcileInv, CU!HandoffsAreProven
<1>2. /\ sentinel' = [pr \in CU!PR |-> sentinel'[pr]]
      /\ \A pr \in CU!PR : sentinel'[pr] = IF pr = t THEN e ELSE sentinel[pr]
  BY <1>1 DEF CU!ReconcileShape
<1>3. pm' = [pc |-> pm'.pc, pr |-> pm'.pr, head |-> pm'.head, label |-> pm'.label, wants |-> pm'.wants]
  BY <1>1 DEF CU!ReconcileShape, CU!Off
<1>4. CU!ReconcileShape'
  BY <1>1, <1>2, <1>3 DEF CU!ReconcileShape
<1>5. CU!HandedOffIsProven'
  BY <1>1, <1>2 DEF CU!HandedOffIsProven
<1>6. pm' = pm \/ pm'.pc = "off"
  BY DEF CU!Off
<1>7. CU!HandoffsAreProven'
  BY <1>1, <1>5, <1>6 DEF CU!HandoffsAreProven, CU!Sent
<1>8. CU!OneUnderTheLock'
  BY <1>1, <1>2, <1>6 DEF CU!OneUnderTheLock, CU!Handled, CU!Locked
<1>9. CU!SettledStaysStep
  BY <1>2 DEF CU!SettledStaysStep
<1> QED BY <1>4, <1>7, <1>8, <1>9 DEF CU!ReconcileInv

LEMMA ManagerKeeps ==
  ASSUME CU!ReconcileInv, CU!PmNext PROVE CU!ReconcileInv' /\ CU!SettledStaysStep
<1>1. ASSUME NEW t \in CU!PR, CU!Claim(t) PROVE CU!ReconcileInv' /\ CU!SettledStaysStep
  <2>1. PICK e : /\ sentinel' = [sentinel EXCEPT ![t] = e]
                 /\ e.status \in {"superseded", "in_progress"}
    <3> DEFINE E(s, r) == [status |-> s, head |-> sentinel[t].head, resolution |-> r]
    <3>1. \/ sentinel' = [sentinel EXCEPT ![t] = E("superseded", "head_drift")]
          \/ sentinel' = [sentinel EXCEPT ![t] = E("in_progress", sentinel[t].resolution)]
      BY <1>1 DEF CU!Claim
    <3>2. \A s, r : E(s, r).status = s
      OBVIOUS
    <3> HIDE DEF E
    <3> QED BY <3>1, <3>2
  <2>2. /\ UNCHANGED <<pull, handoff, dog, pushes, proven>> /\ pm' = pm
        /\ dog.pc \in CU!Locked => dog.pr # t
    BY <1>1 DEF CU!Claim, CU!LockFree, CU!Locked
  <2> QED BY <2>1, <2>2, ClaimsKeep
<1>2. ASSUME NEW t \in CU!PR, NEW wants \in {"merge_ready", "blocked", "codex_followup", "superseded"},
             CU!Resolve(t, wants)
      PROVE  CU!ReconcileInv' /\ CU!SettledStaysStep
  <2>1. /\ UNCHANGED <<pull, sentinel, handoff, dog, pushes>> /\ proven \subseteq proven'
        /\ CU!LockFree(t)
    BY <1>2 DEF CU!Resolve
  <2>2. /\ pm' = [pc |-> pm'.pc, pr |-> t, head |-> pm'.head, label |-> pm'.label, wants |-> wants]
        /\ pm'.pc = IF wants = "merge_ready" THEN "handoff" ELSE "close"
        /\ wants = "merge_ready" => <<t, pm'.head>> \in proven'
    BY <1>2 DEF CU!Resolve
  <2>3. dog.pc \in CU!Locked => dog.pr # t
    BY <2>1 DEF CU!LockFree, CU!Locked
  <2> QED BY <2>1, <2>2, <2>3, PmMoves
<1>3. CASE CU!Close
  <2>1. /\ UNCHANGED <<pull, sentinel, handoff, dog, pushes, proven>> /\ pm.pc = "close"
        /\ pm' = [pm EXCEPT !.pc = "write"] \/ pm' = CU!Off
    BY <1>3 DEF CU!Close
  <2>2. pm = [pc |-> pm.pc, pr |-> pm.pr, head |-> pm.head, label |-> pm.label, wants |-> pm.wants]
    BY DEF CU!ReconcileInv, CU!ReconcileShape
  <2>3. /\ pm' = [pc |-> pm'.pc, pr |-> pm'.pr, head |-> pm'.head, label |-> pm'.label,
                  wants |-> pm'.wants]
        /\ pm'.pc \in {"write", "off"}
        /\ pm'.pc = "write" => pm'.pr = pm.pr /\ pm'.head = pm.head /\ pm'.wants = pm.wants
    BY <2>1, <2>2 DEF CU!Off
  <2>4. /\ pm.wants = "merge_ready" /\ pm.pr \in CU!PR =>
             pm.head \in CU!Head0 /\ handoff[pm.pr][pm.head] = "sent"
        /\ dog.pc \in CU!Locked => dog.pr # pm.pr
    BY <2>1 DEF CU!ReconcileInv, CU!HandoffsAreProven, CU!OneUnderTheLock, CU!Sent
  <2> QED BY <2>1, <2>3, <2>4, PmMoves
<1>4. CASE CU!WriteResolved
  <2>1. /\ pm.pc = "write" /\ pm' = CU!Off /\ UNCHANGED <<pull, handoff, dog, pushes, proven>>
        /\ sentinel' = [sentinel EXCEPT ![pm.pr] = CU!Settlement(pm.wants, sentinel[pm.pr].head)]
    BY <1>4 DEF CU!WriteResolved
  <2> DEFINE e == CU!Settlement(pm.wants, sentinel[pm.pr].head)
  <2>2. /\ sentinel' = [sentinel EXCEPT ![pm.pr] = e]
        /\ e.status # "pending"
        /\ e.status = "resolved" /\ e.resolution = "merge_ready" => pm.wants = "merge_ready"
    BY <2>1 DEF CU!Settlement
  <2> HIDE DEF e
  <2>3. CASE pm.pr \in CU!PR
    <3>1. e.status = "resolved" /\ e.resolution = "merge_ready" =>
            \E h \in CU!Head0 : handoff[pm.pr][h] = "sent"
      <4>1. pm.wants = "merge_ready" => pm.head \in CU!Head0 /\ handoff[pm.pr][pm.head] = "sent"
        BY <2>1, <2>3 DEF CU!ReconcileInv, CU!HandoffsAreProven, CU!Sent
      <4> QED BY <2>2, <4>1
    <3>2. dog.pc \in CU!Locked => dog.pr # pm.pr
      BY <2>1 DEF CU!ReconcileInv, CU!OneUnderTheLock
    <3> QED BY <2>1, <2>2, <2>3, <3>1, <3>2, ClaimsKeep
  <2>4. CASE pm.pr \notin CU!PR
    <3>1. sentinel' = sentinel
      BY <2>2, <2>4 DEF CU!ReconcileInv, CU!ReconcileShape
    <3>2. /\ pm' = [pc |-> pm'.pc, pr |-> pm'.pr, head |-> pm'.head, label |-> pm'.label,
                    wants |-> pm'.wants]
          /\ pm'.pc = "off"
      BY <2>1 DEF CU!Off
    <3> QED BY <2>1, <3>1, <3>2, PmMoves
  <2> QED BY <2>3, <2>4
<1>5. CASE CU!PmPromote
  BY <1>5, PromotesKeep
<1> QED BY <1>1, <1>2, <1>3, <1>4, <1>5 DEF CU!PmNext

(* A process dies, or somebody pushes.                                      *)
LEMMA OthersKeep ==
  ASSUME CU!ReconcileInv, CU!Dies \/ CU!PullMove PROVE CU!ReconcileInv' /\ CU!SettledStaysStep
<1>1. CASE CU!Dies
  <2>1. UNCHANGED <<pull, sentinel, handoff, pushes, proven>>
    BY <1>1 DEF CU!Dies
  <2>2. CASE dog' = CU!Off /\ pm' = pm
    <3>1. /\ dog' = [pc |-> dog'.pc, pr |-> dog'.pr, head |-> dog'.head, label |-> dog'.label,
                     wants |-> dog'.wants]
          /\ dog'.pc = "off"
      BY <2>2 DEF CU!Off
    <3> QED BY <2>1, <2>2, <3>1, DogMoves DEF CU!Locked
  <2>3. CASE pm' = CU!Off /\ dog' = dog
    <3>1. /\ pm' = [pc |-> pm'.pc, pr |-> pm'.pr, head |-> pm'.head, label |-> pm'.label,
                    wants |-> pm'.wants]
          /\ pm'.pc = "off"
      BY <2>3 DEF CU!Off
    <3> QED BY <2>1, <2>3, <3>1, PmMoves
  <2> QED BY <1>1, <2>2, <2>3 DEF CU!Dies
<1>2. CASE CU!PullMove
  <2>1. UNCHANGED <<sentinel, handoff, dog, pm, proven>> /\ pushes < MaxPushes /\ pushes' = pushes + 1
    BY <1>2 DEF CU!PullMove
  <2>2. /\ CU!ReconcileShape /\ pushes \in CU!Head0
        /\ pull \in [CU!PR -> [head : 0 .. pushes, label : CU!Labels, appears : BOOLEAN,
                               green : BOOLEAN, marker : BOOLEAN]]
    BY DEF CU!ReconcileInv, CU!ReconcileShape
  <2>3. pushes' \in CU!Head0 /\ \A n \in 0 .. pushes : n \in 0 .. pushes' /\ n + 1 \in 0 .. pushes'
    BY <2>1, <2>2, ReconcileAssumption DEF CU!Head0
  <2>4. PICK pr \in CU!PR, g \in BOOLEAN, m \in BOOLEAN :
          pull' = [pull EXCEPT ![pr] = [head |-> pull[pr].head + 1, label |-> pull[pr].label,
                                        appears |-> pull[pr].appears, green |-> g, marker |-> m]]
    BY <1>2 DEF CU!PullMove
  <2>5. pull' \in [CU!PR -> [head : 0 .. pushes', label : CU!Labels, appears : BOOLEAN,
                             green : BOOLEAN, marker : BOOLEAN]]
    <3>1. \A r \in [head : 0 .. pushes, label : CU!Labels, appears : BOOLEAN, green : BOOLEAN,
                    marker : BOOLEAN] :
            r \in [head : 0 .. pushes', label : CU!Labels, appears : BOOLEAN, green : BOOLEAN,
                   marker : BOOLEAN]
      BY <2>3
    <3>2. pull[pr].head + 1 \in 0 .. pushes' /\ pull[pr].label \in CU!Labels
            /\ pull[pr].appears \in BOOLEAN
      BY <2>2, <2>3
    <3>3. [head |-> pull[pr].head + 1, label |-> pull[pr].label, appears |-> pull[pr].appears,
           green |-> g, marker |-> m]
            \in [head : 0 .. pushes', label : CU!Labels, appears : BOOLEAN, green : BOOLEAN,
                 marker : BOOLEAN]
      BY <3>2
    <3> QED BY <2>2, <2>4, <3>1, <3>3
  <2>6. CU!ReconcileShape'
    BY <2>1, <2>2, <2>3, <2>5 DEF CU!ReconcileShape
  <2>7. CU!HandoffsAreProven' /\ CU!OneUnderTheLock' /\ CU!SettledStaysStep
    BY <2>1 DEF CU!ReconcileInv, CU!HandoffsAreProven, CU!HandedOffIsProven, CU!OneUnderTheLock,
       CU!Sent, CU!Handled, CU!SettledStaysStep
  <2> QED BY <2>6, <2>7 DEF CU!ReconcileInv
<1> QED BY <1>1, <1>2

LEMMA ReconcileStep ==
  ASSUME CU!ReconcileInv, CU!ReconcileNext PROVE CU!ReconcileInv' /\ CU!SettledStaysStep
BY TickMoves, EventsKeep, PromotesKeep, ManagerKeeps, OthersKeep DEF CU!ReconcileNext, CU!DogNext

-----------------------------------------------------------------------------
(* The publication of CI verdicts (CIVerdict).                              *)

(* Where a comment goes does not matter to what the comments say: every     *)
(* comment of the new sequence is the new one or an old one.                  *)
LEMMA CommentWritten ==
  ASSUME NEW S, NEW c \in Seq(S), NEW posted \in S, NEW at, NEW d,
         d = Append(c, posted) \/ d = [c EXCEPT ![at] = posted]
  PROVE  d \in Seq(S) /\ \A i \in DOMAIN d : d[i] = posted \/ (i \in DOMAIN c /\ d[i] = c[i])
<1>1. CASE d = Append(c, posted)
  BY <1>1
<1>2. CASE d = [c EXCEPT ![at] = posted]
  <2>1. c \in [1 .. Len(c) -> S] /\ Len(c) \in Nat /\ DOMAIN c = 1 .. Len(c)
    BY LenProperties
  <2>2. CASE at \in 1 .. Len(c)
    BY <1>2, <2>1, <2>2, ExceptSeq
  <2>3. CASE at \notin 1 .. Len(c)
    <3>1. d = c
      BY <1>2, <2>1, <2>3
    <3> QED BY <3>1
  <2> QED BY <2>2, <2>3
<1> QED BY <1>1, <1>2

LEMMA VerdictStarts == CV!VerdictInit => CV!VerdictInv
<1> SUFFICES ASSUME CV!VerdictInit PROVE CV!VerdictInv
  OBVIOUS
<1>1. /\ \A p \in Publisher : pubs[p] = CV!Quiet
      /\ \A pr \in CV!PRs : comments[pr] = <<>>
  BY DEF CV!VerdictInit
<1>2. CV!VerdictShape
  <2>1. ciRuns \in [Run -> [attempt : Nat, head : Nat]]
    BY DEF CV!VerdictInit
  <2>2. comments \in [CV!PRs -> Seq(CV!CommentType)]
    BY DEF CV!VerdictInit
  <2> DEFINE rec == CV!Quiet
  <2>3. /\ rec.listed = <<>> /\ rec.repeated \in BOOLEAN /\ rec.pc = "off" /\ rec.blocked = "unset"
        /\ rec.attempt \in Nat /\ rec.runHead \in Nat
    BY DEF CV!Quiet
  <2>4. <<>> \in Seq(CV!CommentType)
    BY EmptySeq
  <2>5. \A p \in Publisher : pubs[p] = rec
    BY <1>1
  <2> HIDE DEF rec
  <2> QED BY <2>1, <2>2, <2>3, <2>4, <2>5 DEF CV!VerdictShape
<1>3. CV!EvidenceIsRecorded
  BY <1>1 DEF CV!VerdictInit, CV!EvidenceIsRecorded, CV!Quiet
<1> QED BY <1>2, <1>3 DEF CV!VerdictInv

(* A publisher moves on with what it has read, as the runs are only added to. *)
LEMMA PublisherGoes ==
  ASSUME CV!VerdictInv, NEW p \in Publisher, NEW rec, pubs' = [pubs EXCEPT ![p] = rec],
         ciRuns' = ciRuns, recorded \subseteq recorded', flakes'.run \in recorded' \cup {NoRun},
         comments' \in [CV!PRs -> Seq(CV!CommentType)],
         \A pr \in CV!PRs : \A i \in DOMAIN comments'[pr] :
           /\ FileOf[comments'[pr][i].run].source # "capture" => comments'[pr][i].run \in recorded'
           /\ comments'[pr][i].blocked = "yes" => recorded' \ {comments'[pr][i].run} # {},
         rec.listed \in Seq(CV!CommentType), rec.repeated \in BOOLEAN,
         rec.pc \in {"off", "pull", "list", "quarantine", "post", "finish"},
         rec.blocked \in {"unset", "yes", "no"}, rec.attempt \in Nat, rec.runHead \in Nat,
         rec.pc # "off" => rec.run \in Run,
         \A i \in DOMAIN rec.listed :
           FileOf[rec.listed[i].run].source # "capture" => rec.listed[i].run \in recorded',
         rec.pc \in {"post", "finish"} =>
           (FileOf[rec.run].source # "capture" => rec.run \in recorded'),
         rec.blocked = "yes" => recorded' \ {rec.run} # {}
  PROVE  CV!VerdictInv'
<1>1. \A q \in Publisher : pubs'[q] = pubs[q] \/ pubs'[q] = rec
  OBVIOUS
<1>2. CV!VerdictShape'
  BY <1>1 DEF CV!VerdictInv, CV!VerdictShape
<1>3. \A q \in Publisher :
        /\ \A i \in DOMAIN pubs'[q].listed :
             FileOf[pubs'[q].listed[i].run].source # "capture" => pubs'[q].listed[i].run \in recorded'
        /\ pubs'[q].pc \in {"post", "finish"} =>
             (FileOf[pubs'[q].run].source # "capture" => pubs'[q].run \in recorded')
        /\ pubs'[q].blocked = "yes" => recorded' \ {pubs'[q].run} # {}
  <2> TAKE q \in Publisher
  <2>1. CASE pubs'[q] = rec
    BY <2>1
  <2>2. CASE pubs'[q] = pubs[q]
    BY <2>2 DEF CV!VerdictInv, CV!EvidenceIsRecorded, CV!Recorded, CV!HasPrior
  <2> QED BY <1>1, <2>1, <2>2
<1>4. CV!EvidenceIsRecorded'
  BY <1>3 DEF CV!EvidenceIsRecorded, CV!Recorded, CV!HasPrior
<1> QED BY <1>2, <1>4 DEF CV!VerdictInv

(* What the comments say stays true as runs are recorded.                   *)
LEMMA CommentsStay ==
  ASSUME CV!VerdictInv, recorded \subseteq recorded', comments' = comments
  PROVE  /\ comments' \in [CV!PRs -> Seq(CV!CommentType)]
         /\ \A pr \in CV!PRs : \A i \in DOMAIN comments'[pr] :
              /\ FileOf[comments'[pr][i].run].source # "capture" => comments'[pr][i].run \in recorded'
              /\ comments'[pr][i].blocked = "yes" => recorded' \ {comments'[pr][i].run} # {}
BY DEF CV!VerdictInv, CV!VerdictShape, CV!EvidenceIsRecorded, CV!Recorded, CV!HasPrior

LEMMA ReadsKeep ==
  ASSUME CV!VerdictInv, NEW p \in Publisher,
         CV!ReadRun(p) \/ CV!Materialize(p) \/ CV!ListComments(p) \/ CV!Fails(p)
  PROVE  CV!VerdictInv'
<1>1. /\ CV!VerdictShape /\ CV!EvidenceIsRecorded
      /\ UNCHANGED <<ciRuns, comments, flakes, recorded>>
  BY DEF CV!VerdictInv, CV!ReadRun, CV!Materialize, CV!ListComments, CV!Fails
<1>2. /\ comments' \in [CV!PRs -> Seq(CV!CommentType)]
      /\ \A pr \in CV!PRs : \A i \in DOMAIN comments'[pr] :
           /\ FileOf[comments'[pr][i].run].source # "capture" => comments'[pr][i].run \in recorded'
           /\ comments'[pr][i].blocked = "yes" => recorded' \ {comments'[pr][i].run} # {}
  BY <1>1, CommentsStay
<1>3. flakes'.run \in recorded' \cup {NoRun}
  BY <1>1 DEF CV!EvidenceIsRecorded
<1>4. CASE CV!Set(p, CV!Quiet)
  <2> DEFINE rec == CV!Quiet
  <2>1. /\ rec.pc = "off" /\ rec.listed = <<>> /\ rec.blocked = "unset" /\ rec.repeated \in BOOLEAN
        /\ rec.attempt \in Nat /\ rec.runHead \in Nat
    BY DEF CV!Quiet
  <2>2. pubs' = [pubs EXCEPT ![p] = rec]
    BY <1>4 DEF CV!Set
  <2> HIDE DEF rec
  <2>3. rec.listed \in Seq(CV!CommentType) /\ DOMAIN rec.listed = {}
    BY <2>1
  <2> QED BY <1>1, <1>2, <1>3, <2>1, <2>2, <2>3, PublisherGoes
<1>5. CASE CV!ReadRun(p)
  <2>1. PICK r \in Run :
          CV!Set(p, [pc |-> "pull", run |-> r, attempt |-> ciRuns[r].attempt, runHead |-> ciRuns[r].head,
                     listed |-> <<>>, blocked |-> "unset", repeated |-> FALSE, at |-> 0])
    BY <1>5 DEF CV!ReadRun
  <2> DEFINE rec == [pc |-> "pull", run |-> r, attempt |-> ciRuns[r].attempt, runHead |-> ciRuns[r].head,
                     listed |-> <<>>, blocked |-> "unset", repeated |-> FALSE, at |-> 0]
  <2>2. /\ rec.pc = "pull" /\ rec.listed = <<>> /\ rec.blocked = "unset" /\ rec.repeated \in BOOLEAN
        /\ rec.attempt \in Nat /\ rec.runHead \in Nat /\ rec.run \in Run
    BY <1>1 DEF CV!VerdictShape
  <2>3. pubs' = [pubs EXCEPT ![p] = rec]
    BY <2>1 DEF CV!Set
  <2> HIDE DEF rec
  <2>4. rec.listed \in Seq(CV!CommentType) /\ DOMAIN rec.listed = {}
    BY <2>2
  <2> QED BY <1>1, <1>2, <1>3, <2>2, <2>3, <2>4, PublisherGoes
<1>6. CASE CV!Materialize(p) /\ ~CV!Set(p, CV!Quiet)
  <2> DEFINE rec == [pubs[p] EXCEPT !.pc = "list"]
  <2>1. pubs[p].pc = "pull" /\ pubs' = [pubs EXCEPT ![p] = rec]
    BY <1>6 DEF CV!Materialize, CV!Set
  <2>2. /\ rec.pc = "list" \/ rec.pc = pubs[p].pc
        /\ rec.run = pubs[p].run /\ rec.attempt = pubs[p].attempt /\ rec.runHead = pubs[p].runHead
        /\ rec.listed = pubs[p].listed /\ rec.blocked = pubs[p].blocked
        /\ rec.repeated = pubs[p].repeated
    OBVIOUS
  <2> HIDE DEF rec
  <2>3. /\ rec.listed \in Seq(CV!CommentType) /\ rec.repeated \in BOOLEAN
        /\ rec.pc \in {"list", "pull"} /\ rec.blocked \in {"unset", "yes", "no"}
        /\ rec.attempt \in Nat /\ rec.runHead \in Nat /\ rec.run \in Run
    BY <1>1, <2>1, <2>2 DEF CV!VerdictShape
  <2>4. /\ \A i \in DOMAIN rec.listed :
             FileOf[rec.listed[i].run].source # "capture" => rec.listed[i].run \in recorded'
        /\ rec.blocked = "yes" => recorded' \ {rec.run} # {}
    BY <1>1, <2>2 DEF CV!EvidenceIsRecorded, CV!Recorded, CV!HasPrior
  <2> QED BY <1>1, <1>2, <1>3, <2>1, <2>3, <2>4, PublisherGoes
<1>7. CASE CV!ListComments(p)
  <2> DEFINE pr == PrOf[pubs[p].run]
             rec == [pc |-> "quarantine", run |-> pubs[p].run, attempt |-> pubs[p].attempt,
                     runHead |-> pubs[p].runHead, listed |-> comments[pr],
                     blocked |-> "unset", repeated |-> FALSE, at |-> 0]
  <2>1. pubs[p].pc = "list" /\ pubs' = [pubs EXCEPT ![p] = rec]
    BY <1>7 DEF CV!ListComments, CV!Set
  <2>2. pubs[p].run \in Run /\ pr \in CV!PRs
    BY <1>1, <2>1 DEF CV!VerdictShape, CV!PRs
  <2>3. /\ rec.pc = "quarantine" /\ rec.run = pubs[p].run /\ rec.attempt = pubs[p].attempt
        /\ rec.runHead = pubs[p].runHead /\ rec.listed = comments[pr] /\ rec.blocked = "unset"
        /\ rec.repeated \in BOOLEAN
    OBVIOUS
  <2> HIDE DEF pr, rec
  <2>4. /\ rec.listed \in Seq(CV!CommentType) /\ rec.attempt \in Nat /\ rec.runHead \in Nat
        /\ rec.run \in Run
    BY <1>1, <2>2, <2>3 DEF CV!VerdictShape
  <2>5. \A i \in DOMAIN rec.listed :
          FileOf[rec.listed[i].run].source # "capture" => rec.listed[i].run \in recorded'
    BY <1>1, <2>2, <2>3 DEF CV!EvidenceIsRecorded, CV!Recorded
  <2> QED BY <1>1, <1>2, <1>3, <2>1, <2>3, <2>4, <2>5, PublisherGoes
<1>8. CV!Fails(p) => CV!Set(p, CV!Quiet)
  BY DEF CV!Fails
<1> QED BY <1>4, <1>5, <1>6, <1>7, <1>8

(* The quarantine counts only what was recorded: the entry of the store is  *)
(* of another run, or a comment of one was listed.                          *)
LEMMA QuarantineKeeps ==
  ASSUME CV!VerdictInv, NEW p \in Publisher, CV!Quarantine(p) PROVE CV!VerdictInv'
<1> DEFINE me == pubs[p]
           rec == [pc |-> "post", run |-> me.run, attempt |-> me.attempt, runHead |-> me.runHead,
                   listed |-> me.listed,
                   blocked |-> IF ~(FileOf[me.run].source = "capture") /\ CV!IsBlocked(me.run, me.listed)
                               THEN "yes" ELSE "no",
                   repeated |-> recent \ {me.run} # {}, at |-> 0]
<1>1. /\ CV!VerdictShape /\ CV!EvidenceIsRecorded /\ me.pc = "quarantine"
      /\ pubs' = [pubs EXCEPT ![p] = rec] /\ ciRuns' = ciRuns /\ comments' = comments
  BY DEF CV!VerdictInv, CV!Quarantine, CV!Set
<1>2. /\ rec.pc = "post" /\ rec.run = me.run /\ rec.attempt = me.attempt /\ rec.runHead = me.runHead
      /\ rec.listed = me.listed /\ rec.blocked \in {"yes", "no"} /\ rec.repeated \in BOOLEAN
      /\ rec.blocked = "yes" => FileOf[me.run].source # "capture" /\ CV!IsBlocked(me.run, me.listed)
  OBVIOUS
<1>3. /\ recorded \subseteq recorded' /\ flakes'.run \in recorded' \cup {NoRun}
      /\ FileOf[me.run].source # "capture" => me.run \in recorded'
  BY <1>1 DEF CV!Quarantine, CV!EvidenceIsRecorded
<1> HIDE DEF rec
<1>4. /\ rec.listed \in Seq(CV!CommentType) /\ rec.attempt \in Nat /\ rec.runHead \in Nat
      /\ rec.run \in Run
  BY <1>1, <1>2 DEF CV!VerdictShape
<1>5. \A i \in DOMAIN rec.listed :
        FileOf[rec.listed[i].run].source # "capture" => rec.listed[i].run \in recorded'
  BY <1>1, <1>2, <1>3 DEF CV!EvidenceIsRecorded, CV!Recorded
<1>6. rec.blocked = "yes" => recorded' \ {rec.run} # {}
  <2> SUFFICES ASSUME rec.blocked = "yes" PROVE recorded' \ {me.run} # {}
    BY <1>2
  <2>1. CV!PriorOccurrences(me.run, me.listed) >= 1
    BY <1>2 DEF CV!IsBlocked
  <2>2. CASE CV!StoreOccurrences(me.run) # 0
    <3>1. flakes.run \notin {NoRun, me.run}
      BY <2>2 DEF CV!StoreOccurrences
    <3>2. flakes.run \in recorded
      BY <1>1, <3>1 DEF CV!EvidenceIsRecorded
    <3> QED BY <1>3, <3>1, <3>2
  <2>3. CASE CV!StoreOccurrences(me.run) = 0
    <3>1. CV!CommentOccurrences(me.run, me.listed) >= 1
      BY <2>1, <2>3 DEF CV!PriorOccurrences
    <3>3. PICK i \in DOMAIN me.listed :
            me.listed[i].run # me.run /\ FileOf[me.listed[i].run].source # "capture"
      BY <3>1 DEF CV!CommentOccurrences
    <3> QED BY <1>2, <1>5, <3>3
  <2> QED BY <2>2, <2>3
<1>7. /\ comments' \in [CV!PRs -> Seq(CV!CommentType)]
      /\ \A pr \in CV!PRs : \A i \in DOMAIN comments'[pr] :
           /\ FileOf[comments'[pr][i].run].source # "capture" => comments'[pr][i].run \in recorded'
           /\ comments'[pr][i].blocked = "yes" => recorded' \ {comments'[pr][i].run} # {}
  BY <1>1, <1>3, CommentsStay
<1> QED BY <1>1, <1>2, <1>3, <1>4, <1>5, <1>6, <1>7, PublisherGoes

(* A comment is posted and completed after its run was recorded.            *)
LEMMA CommentsKeep ==
  ASSUME CV!VerdictInv, NEW p \in Publisher, CV!Post(p) \/ CV!Finish(p) PROVE CV!VerdictInv'
<1> DEFINE me == pubs[p]
           pr == PrOf[me.run]
<1>1. /\ CV!VerdictShape /\ CV!EvidenceIsRecorded /\ me.pc \in {"post", "finish"}
      /\ UNCHANGED <<ciRuns, flakes, recorded>>
  BY DEF CV!VerdictInv, CV!Post, CV!Finish
<1>2. /\ me.run \in Run /\ pr \in CV!PRs /\ comments[pr] \in Seq(CV!CommentType)
      /\ CV!Recorded(me.run) /\ (me.blocked = "yes" => CV!HasPrior(me.run))
      /\ me.attempt \in Nat /\ me.runHead \in Nat /\ me.repeated \in BOOLEAN
      /\ me.listed \in Seq(CV!CommentType) /\ me.blocked \in {"unset", "yes", "no"}
      /\ flakes.run \in recorded \cup {NoRun}
      /\ \A i \in DOMAIN me.listed : CV!Recorded(me.listed[i].run)
  BY <1>1 DEF CV!VerdictShape, CV!PRs, CV!EvidenceIsRecorded
<1>3. PICK posted, at, d :
        /\ posted = CV!Comment(p, "unset") \/ posted = CV!Comment(p, me.blocked)
        /\ d = Append(comments[pr], posted) \/ d = [comments[pr] EXCEPT ![at] = posted]
        /\ comments' = [comments EXCEPT ![pr] = d]
  <2>1. CASE CV!Post(p)
    <3> DEFINE at == IF CV!Existing(p) = 0 THEN Len(comments[pr]) + 1 ELSE CV!Existing(p)
               posted == CV!Comment(p, "unset")
               d == IF at > Len(comments[pr]) THEN Append(comments[pr], posted)
                    ELSE [comments[pr] EXCEPT ![at] = posted]
    <3>1. comments' = [comments EXCEPT ![pr] = d]
      BY <2>1 DEF CV!Post
    <3>2. d = Append(comments[pr], posted) \/ d = [comments[pr] EXCEPT ![at] = posted]
      OBVIOUS
    <3> HIDE DEF at, posted, d
    <3>3. posted = CV!Comment(p, "unset")
      BY DEF posted
    <3> QED BY <3>1, <3>2, <3>3
  <2>2. CASE CV!Finish(p)
    <3> DEFINE posted == CV!Comment(p, me.blocked)
               d == [comments[pr] EXCEPT ![me.at] = posted]
    <3>1. comments' = [comments EXCEPT ![pr] = d]
      BY <1>1, <1>2, <2>2 DEF CV!Finish, CV!VerdictShape
    <3> QED BY <3>1
  <2> QED BY <2>1, <2>2
<1>4. /\ posted \in CV!CommentType /\ posted.run = me.run
      /\ posted.blocked = "unset" \/ posted.blocked = me.blocked
  BY <1>2, <1>3 DEF CV!Comment, CV!CommentType
<1>5. /\ d \in Seq(CV!CommentType)
      /\ \A i \in DOMAIN d : d[i] = posted \/ (i \in DOMAIN comments[pr] /\ d[i] = comments[pr][i])
  BY <1>2, <1>3, <1>4, CommentWritten
<1>6. /\ comments' \in [CV!PRs -> Seq(CV!CommentType)]
      /\ \A n \in CV!PRs : comments'[n] = IF n = pr THEN d ELSE comments[n]
  BY <1>1, <1>2, <1>3, <1>5 DEF CV!VerdictShape
<1>7. \A n \in CV!PRs : \A i \in DOMAIN comments'[n] :
        /\ FileOf[comments'[n][i].run].source # "capture" => comments'[n][i].run \in recorded'
        /\ comments'[n][i].blocked = "yes" => recorded' \ {comments'[n][i].run} # {}
  <2> TAKE n \in CV!PRs
  <2> TAKE i \in DOMAIN comments'[n]
  <2>1. comments'[n][i] = posted \/ (i \in DOMAIN comments[n] /\ comments'[n][i] = comments[n][i])
    BY <1>5, <1>6
  <2>2. CASE comments'[n][i] = posted
    BY <1>1, <1>2, <1>4, <2>2 DEF CV!Recorded, CV!HasPrior
  <2>3. CASE i \in DOMAIN comments[n] /\ comments'[n][i] = comments[n][i]
    BY <1>1, <2>3 DEF CV!EvidenceIsRecorded, CV!Recorded, CV!HasPrior
  <2> QED BY <2>1, <2>2, <2>3
<1>8. PICK rec : /\ pubs' = [pubs EXCEPT ![p] = rec]
                 /\ rec.pc \in {"off", "finish"} /\ rec.repeated \in BOOLEAN
                 /\ rec.pc # "off" => rec.run = me.run
                 /\ rec.attempt \in Nat /\ rec.runHead \in Nat
                 /\ rec.listed \in Seq(CV!CommentType)
                 /\ \A i \in DOMAIN rec.listed : CV!Recorded(rec.listed[i].run)
                 /\ rec.blocked \in {"unset", "yes", "no"}
                 /\ rec.blocked = "yes" => CV!HasPrior(rec.run)
  <2>1. CASE CV!Post(p)
    <3> DEFINE at2 == IF CV!Existing(p) = 0 THEN Len(comments[pr]) + 1 ELSE CV!Existing(p)
               rec == [pc |-> "finish", run |-> me.run, attempt |-> me.attempt, runHead |-> me.runHead,
                       listed |-> me.listed, blocked |-> me.blocked, repeated |-> me.repeated,
                       at |-> at2]
    <3>1. pubs' = [pubs EXCEPT ![p] = rec]
      BY <2>1 DEF CV!Post, CV!Set
    <3>2. /\ rec.pc = "finish" /\ rec.repeated = me.repeated /\ rec.run = me.run
          /\ rec.attempt = me.attempt /\ rec.runHead = me.runHead /\ rec.listed = me.listed
          /\ rec.blocked = me.blocked
      OBVIOUS
    <3> HIDE DEF rec
    <3> QED BY <1>2, <3>1, <3>2
  <2>2. CASE CV!Finish(p)
    <3> DEFINE rec == CV!Quiet
    <3>1. pubs' = [pubs EXCEPT ![p] = rec]
      BY <2>2 DEF CV!Finish, CV!Set
    <3>2. /\ rec.pc = "off" /\ rec.repeated \in BOOLEAN /\ rec.attempt \in Nat /\ rec.runHead \in Nat
          /\ rec.listed = <<>> /\ rec.blocked = "unset"
      BY DEF CV!Quiet
    <3> HIDE DEF rec
    <3>3. rec.listed \in Seq(CV!CommentType) /\ DOMAIN rec.listed = {}
      BY <3>2
    <3> QED BY <3>1, <3>2, <3>3
  <2> QED BY <2>1, <2>2
<1> QED BY <1>1, <1>2, <1>6, <1>7, <1>8, PublisherGoes DEF CV!Recorded, CV!HasPrior

LEMMA VerdictStep == CV!VerdictInv /\ CV!VerdictNext => CV!VerdictInv'
<1> SUFFICES ASSUME CV!VerdictInv, CV!VerdictNext PROVE CV!VerdictInv'
  OBVIOUS
<1>1. CASE CV!CIMove
  <2>1. /\ CV!VerdictShape /\ CV!EvidenceIsRecorded /\ UNCHANGED <<comments, pubs, recorded>>
        /\ flakes' = flakes \/ flakes' = [run |-> flakes.run, fresh |-> FALSE]
    BY <1>1 DEF CV!VerdictInv, CV!CIMove
  <2>2. ciRuns' \in [Run -> [attempt : Nat, head : Nat]]
    <3>1. CASE ciRuns' = ciRuns
      BY <2>1, <3>1 DEF CV!VerdictShape
    <3>2. ASSUME NEW r \in Run,
                 ciRuns' = [ciRuns EXCEPT ![r] = [attempt |-> @.attempt + 1, head |-> @.head]]
          PROVE  ciRuns' \in [Run -> [attempt : Nat, head : Nat]]
      BY <2>1, <3>2 DEF CV!VerdictShape
    <3> QED BY <1>1, <3>1, <3>2 DEF CV!CIMove
  <2>3. flakes'.run \in recorded' \cup {NoRun}
    <3>1. flakes'.run = flakes.run
      BY <2>1
    <3> QED BY <2>1, <3>1 DEF CV!EvidenceIsRecorded
  <2> QED BY <2>1, <2>2, <2>3 DEF CV!VerdictInv, CV!VerdictShape, CV!EvidenceIsRecorded, CV!Recorded,
          CV!HasPrior
<1>2. CASE \E p \in Publisher : \/ CV!ReadRun(p) \/ CV!Materialize(p) \/ CV!ListComments(p)
                                \/ CV!Quarantine(p) \/ CV!Post(p) \/ CV!Finish(p) \/ CV!Fails(p)
  BY <1>2, ReadsKeep, QuarantineKeeps, CommentsKeep
<1> QED BY <1>1, <1>2 DEF CV!VerdictNext

LEMMA VerdictBlocks == CV!VerdictInv => CV!BlockedHasPrior
BY DEF CV!VerdictInv, CV!EvidenceIsRecorded, CV!HasPrior, CV!BlockedHasPrior

-----------------------------------------------------------------------------
(* The merge script (MergePR).                                              *)

(* A run of the move or the start is of a truthful shape, whatever state.   *)
LEMMA RunIsTruthful ==
  ASSUME NEW s \in RunShapes, MP!Truthful(s), NEW st \in {"green", "red", "pending"}
  PROVE  MP!RunOf(s, st) \in MP!RunType /\ MP!Truthful(MP!RunOf(s, st))
<1>1. s \in MP!ShapeType
  BY MergeAssumption
<1>2. MP!RunOf(s, st) \in MP!RunType
  BY <1>1 DEF MP!RunOf, MP!RunType, MP!ShapeType
<1>3. MP!Truthful(MP!RunOf(s, st))
  BY DEF MP!RunOf, MP!Truthful
<1> QED BY <1>2, <1>3

LEMMA MergeInit == MP!MergeInit => MP!MergeInv
<1> SUFFICES ASSUME MP!MergeInit PROVE MP!MergeInv
  OBVIOUS
<1>1. PICK a \in RunShapes, b \in RunShapes, s \in {"green", "red"}, t \in {"green", "red"} :
        MP!Truthful(a) /\ MP!Truthful(b) /\ ghRuns = <<MP!RunOf(a, s), MP!RunOf(b, t)>>
  BY DEF MP!MergeInit
<1> DEFINE c == MP!RunOf(a, s)
           d == MP!RunOf(b, t)
<1>2. c \in MP!RunType /\ MP!Truthful(c) /\ d \in MP!RunType /\ MP!Truthful(d)
  BY <1>1, RunIsTruthful
<1>3. ghRuns = <<c, d>>
  BY <1>1
<1> HIDE DEF c, d
<1>4. ghRuns \in Seq(MP!RunType) /\ MP!RunsAreTruthful
  BY <1>2, <1>3 DEF MP!RunsAreTruthful
<1>5. MP!MergeShape
  BY <1>4, MergeAssumption DEF MP!MergeInit, MP!MergeShape
<1>6. mpc = "start" /\ ghPr.by = "nobody"
  BY DEF MP!MergeInit
<1>7. MP!ProofIsEarned /\ MP!MergedIsTested
  BY <1>6 DEF MP!ProofIsEarned, MP!MergedIsTested
<1> QED BY <1>4, <1>5, <1>6, <1>7 DEF MP!MergeInv

(* What the newest run of a workflow shows, as far as it is believed.       *)
LEMMA ProofsAreEarned ==
  ASSUME MP!MergeInv, NEW wf \in {"ci", "e2e"}, NEW p \in MP!WorkflowProof(wf), p[1] # MP!NoProof
  PROVE  \/ p[1] = "exempt" /\ needs = {}
         \/ p[1] = "fixed" /\ wf = "ci" /\ {"ts", "python_job"} \subseteq p[2]
         \/ p[1] = "fixed" /\ wf = "e2e" /\ "e2e" \in p[2]
         \/ p[1] = "set_e2e" /\ needs \ {"e2e"} \subseteq p[2] /\ wf = "ci"
         \/ p[1] = "set_no_e2e" /\ needs \subseteq p[2] /\ wf = "ci"
         \/ p[1] = "test_only" /\ needs \subseteq p[2] /\ wf = "ci"
<1>1. PICK r \in MP!Newest(wf, {"skipped"}) :
        p = <<MP!ProofOf(r), MP!Shown(r)>>
  BY DEF MP!WorkflowProof
<1>6. p[1] = MP!ProofOf(r) /\ (p[1] # "exempt" => r.ran \subseteq p[2] /\ (r.python => "python_job" \in p[2]))
  BY <1>1 DEF MP!Shown
<1>2. MP!Truthful(r) /\ r.wf = wf
  BY <1>1 DEF MP!Newest, MP!MergeInv, MP!RunsAreTruthful
<1>3. CASE MP!Exempts(r, "control")
  <2>1. needs = {}
    BY <1>2, <1>3 DEF MP!Truthful, MP!Exempts
  <2>2. p[1] = "exempt"
    <3>1. ~MP!HasRequiredSet(r)
      BY <1>3 DEF MP!Exempts, MP!HasRequiredSet
    <3> QED BY <1>3, <1>6, <3>1 DEF MP!ProofOf
  <2> QED BY <2>1, <2>2
<1>4. CASE ~MP!Exempts(r, "control") /\ MP!HasRequiredSet(r)
  <2>1. r.needs = needs /\ wf = "ci"
    BY <1>2, <1>4 DEF MP!Truthful, MP!HasRequiredSet
  <2>2. MP!RequiredJobsRan(r) /\ p[1] = IF "e2e" \in r.needs THEN "set_e2e" ELSE "set_no_e2e"
    BY <1>4, <1>6 DEF MP!ProofOf
  <2>3. r.ran \subseteq p[2]
    BY <1>6, <2>2
  <2> QED BY <2>1, <2>2, <2>3 DEF MP!RequiredJobsRan
<1>5. CASE ~MP!Exempts(r, "control") /\ ~MP!HasRequiredSet(r)
  <2>1. MP!FixedJobsRan(r) /\ p[1] = IF MP!IsTestOnly(r) THEN "test_only" ELSE "fixed"
    BY <1>5, <1>6 DEF MP!ProofOf
  <2>3. r.ran \subseteq p[2] /\ (r.python => "python_job" \in p[2])
    BY <1>6, <2>1
  <2>2. MP!IsTestOnly(r) => needs = {"ts"} /\ wf = "ci"
    BY <1>2 DEF MP!Truthful, MP!IsTestOnly
  <2> QED BY <1>2, <2>1, <2>2, <2>3 DEF MP!FixedJobsRan
<1> QED BY <1>3, <1>4, <1>5

LEMMA ScriptKeeps ==
  ASSUME MP!MergeInv, MP!Fixed,
         \/ MP!ReadPR \/ MP!ReadMain \/ MP!RecheckPR \/ MP!RecheckMain \/ MP!Confirm
         \/ MP!ReadExemption \/ MP!ReadCI \/ MP!ReadE2E
  PROVE  MP!MergeInv'
<1>1. UNCHANGED <<ghPr, ghRuns, needs>>
  BY DEF MP!Fixed
<1>2. MP!MergeShape' /\ MP!RunsAreTruthful'
  BY <1>1 DEF MP!MergeInv, MP!MergeShape, MP!RunsAreTruthful, MP!Truthful
<1>3. /\ mpc \notin {"confirm", "done"} => ghPr.by # "script"
      /\ MP!ProofIsEarned /\ MP!MergedIsTested /\ needs \in SUBSET {"ts", "py", "e2e"}
      /\ ghPr.by = "script" => ghPr.merged
  BY DEF MP!MergeInv, MP!MergeShape, MP!Family
<1>4. ASSUME mpc' = "done", tested' = tested, ciProof' = ciProof
      PROVE  /\ MP!ProofIsEarned' /\ MP!MergedIsTested'
             /\ ghPr'.by = "script" => ghPr'.merged /\ mpc' \in {"confirm", "done"}
  BY <1>1, <1>3, <1>4 DEF MP!ProofIsEarned, MP!MergedIsTested
<1>5. CASE MP!ReadPR \/ MP!ReadMain \/ MP!RecheckPR \/ MP!RecheckMain \/ MP!Confirm
  <2>1. tested' = tested /\ ciProof' = ciProof
    BY <1>5 DEF MP!ReadPR, MP!ReadMain, MP!RecheckPR, MP!RecheckMain, MP!Confirm, MP!Refuse
  <2>2. \/ mpc' = "done"
        \/ mpc = "start" /\ mpc' = "exempt"
        \/ mpc = "main" /\ mpc' = "recheck"
        \/ mpc = "recheck" /\ mpc' = "recheck_main"
        \/ mpc = "recheck_main" /\ mpc' = "merge"
    BY <1>5 DEF MP!ReadPR, MP!ReadMain, MP!RecheckPR, MP!RecheckMain, MP!Confirm, MP!Refuse
  <2>3. /\ MP!ProofIsEarned' /\ MP!MergedIsTested'
        /\ ghPr'.by = "script" => ghPr'.merged /\ mpc' \in {"confirm", "done"}
    BY <1>1, <1>3, <1>4, <2>1, <2>2 DEF MP!ProofIsEarned, MP!MergedIsTested
  <2> QED BY <1>2, <2>3 DEF MP!MergeInv
<1>6. CASE MP!ReadExemption
  <2>1. mpc = "exempt" /\ (mpc' = "main" \/ mpc' = "ci")
    BY <1>6 DEF MP!ReadExemption
  <2>2. mpc' = "main" => needs = {}
    <3>1. SUFFICES ASSUME MP!SharedExemption PROVE needs = {}
      BY <1>6, <2>1 DEF MP!ReadExemption
    <3>2. PICK i \in DOMAIN ghRuns : MP!Exempts(ghRuns[i], "site") \/ MP!Exempts(ghRuns[i], "control")
      BY <3>1 DEF MP!SharedExemption, MP!Newest
    <3> QED BY <3>2 DEF MP!MergeInv, MP!RunsAreTruthful, MP!Truthful, MP!Exempts
  <2>3. /\ MP!ProofIsEarned' /\ MP!MergedIsTested'
        /\ ghPr'.by = "script" => ghPr'.merged /\ mpc' \in {"confirm", "done"}
    BY <1>1, <1>3, <2>1, <2>2 DEF MP!ProofIsEarned, MP!MergedIsTested
  <2> QED BY <1>2, <2>3 DEF MP!MergeInv
<1>7. CASE MP!ReadCI
  <2>1. CASE MP!Refuse
    BY <1>2, <1>4, <2>1 DEF MP!MergeInv, MP!Refuse
  <2>2. CASE ~MP!Refuse
    <3>1. PICK p \in MP!WorkflowProof("ci") :
            p[1] # MP!NoProof /\ ciProof' = p[1] /\ tested' = p[2] /\ mpc' = "e2e" /\ mpc = "ci"
      BY <1>7, <2>2 DEF MP!ReadCI
    <3>2. /\ MP!ProofIsEarned' /\ MP!MergedIsTested'
          /\ ghPr'.by = "script" => ghPr'.merged /\ mpc' \in {"confirm", "done"}
      BY <1>1, <1>3, <3>1, ProofsAreEarned DEF MP!ProofIsEarned, MP!MergedIsTested
    <3> QED BY <1>2, <3>2 DEF MP!MergeInv
  <2> QED BY <2>1, <2>2
<1>8. CASE MP!ReadE2E
  <2>1. CASE MP!Refuse
    BY <1>2, <1>4, <2>1 DEF MP!MergeInv, MP!Refuse
  <2>2. CASE ~MP!Refuse
    <3>1. mpc = "e2e" /\ mpc' = "main"
      BY <1>8, <2>2 DEF MP!ReadE2E
    <3>2. /\ needs \ {"py"} \subseteq tested' /\ ciProof' = ciProof
          /\ "py" \in needs \ tested' => ciProof = "fixed" /\ "python_job" \in tested'
      <4>0. ciProof' = ciProof
        BY <1>8, <2>2 DEF MP!ReadE2E
      <4>1. CASE MP!NeedsE2ERun
        <5>1. PICK p \in MP!WorkflowProof("e2e") : p[1] # MP!NoProof /\ tested' = tested \cup p[2]
          BY <1>8, <2>2, <4>1 DEF MP!ReadE2E
        <5>2. needs = {} \/ "e2e" \in p[2]
          BY <5>1, ProofsAreEarned
        <5> QED BY <1>3, <3>1, <4>0, <4>1, <5>1, <5>2 DEF MP!ProofIsEarned, MP!NeedsE2ERun
      <4>2. CASE ~MP!NeedsE2ERun
        <5>1. tested' = tested
          BY <1>8, <2>2, <4>2 DEF MP!ReadE2E
        <5> QED BY <1>3, <3>1, <4>0, <4>2, <5>1 DEF MP!ProofIsEarned, MP!NeedsE2ERun
      <4> QED BY <4>1, <4>2
    <3>3. /\ MP!ProofIsEarned' /\ MP!MergedIsTested'
          /\ ghPr'.by = "script" => ghPr'.merged /\ mpc' \in {"confirm", "done"}
      BY <1>1, <1>3, <3>1, <3>2 DEF MP!ProofIsEarned, MP!MergedIsTested
    <3> QED BY <1>2, <3>3 DEF MP!MergeInv
  <2> QED BY <2>1, <2>2
<1> QED BY <1>5, <1>6, <1>7, <1>8

LEMMA MergeStep == MP!MergeInv /\ MP!MergeNext => MP!MergeInv'
<1> SUFFICES ASSUME MP!MergeInv, MP!MergeNext PROVE MP!MergeInv'
  OBVIOUS
<1>1. CASE \/ MP!ReadPR \/ MP!ReadMain \/ MP!RecheckPR \/ MP!RecheckMain \/ MP!Confirm
           \/ MP!ReadExemption \/ MP!ReadCI \/ MP!ReadE2E
  <2>1. MP!Fixed
    BY <1>1 DEF MP!ReadPR, MP!ReadMain, MP!RecheckPR, MP!RecheckMain, MP!Confirm, MP!ReadExemption,
       MP!ReadCI, MP!ReadE2E
  <2> QED BY <1>1, <2>1, ScriptKeeps
<1>2. CASE MP!Merge
  <2>1. /\ mpc = "merge" /\ UNCHANGED <<ghRuns, needs, tested, ciProof>> /\ mpc' \in {"confirm", "done"}
        /\ \/ ghPr' = ghPr
           \/ /\ ghPr' = [head |-> ghPr.head, merged |-> TRUE, onto |-> ghMain, by |-> "script"]
              /\ ghPr.head = MP!AskedHead
    BY <1>2 DEF MP!Merge, MP!Refuse
  <2>2. /\ needs \ {"py"} \subseteq tested
        /\ "py" \in needs \ tested => ciProof = "fixed" /\ "python_job" \in tested
    BY <2>1 DEF MP!MergeInv, MP!ProofIsEarned
  <2>3. MP!MergeShape' /\ MP!RunsAreTruthful'
    BY <2>1 DEF MP!MergeInv, MP!MergeShape, MP!RunsAreTruthful, MP!Truthful
  <2>4. /\ MP!ProofIsEarned' /\ MP!MergedIsTested'
        /\ ghPr'.by = "script" => ghPr'.merged /\ mpc' \in {"confirm", "done"}
    BY <2>1, <2>2 DEF MP!MergeInv, MP!ProofIsEarned, MP!MergedIsTested
  <2> QED BY <2>3, <2>4 DEF MP!MergeInv
<1>3. CASE MP!MergeMove
  <2>1. /\ UNCHANGED <<mpc, ciProof, tested, needs>>
        /\ \/ ghPr' = ghPr
           \/ ~ghPr.merged /\ ghPr' = [ghPr EXCEPT !.head = @ + 1]
    BY <1>3 DEF MP!MergeMove
  <2>2. ghRuns' \in Seq(MP!RunType) /\ MP!RunsAreTruthful'
    <3>1. ghRuns \in Seq(MP!RunType) /\ MP!RunsAreTruthful
      BY DEF MP!MergeInv, MP!MergeShape
    <3>2. CASE UNCHANGED ghRuns
      BY <2>1, <3>1, <3>2 DEF MP!RunsAreTruthful, MP!Truthful
    <3>3. ASSUME NEW r \in MP!RunType, MP!Truthful(r), ghRuns' = Append(ghRuns, r)
          PROVE  ghRuns' \in Seq(MP!RunType) /\ MP!RunsAreTruthful'
      BY <2>1, <3>1, <3>3 DEF MP!RunsAreTruthful, MP!Truthful
    <3>4. ASSUME NEW i \in DOMAIN ghRuns, NEW r \in MP!RunType, MP!Truthful(r),
                 ghRuns' = [ghRuns EXCEPT ![i] = r]
          PROVE  ghRuns' \in Seq(MP!RunType) /\ MP!RunsAreTruthful'
      BY <2>1, <3>1, <3>4 DEF MP!RunsAreTruthful, MP!Truthful
    <3>5. CASE \E s \in {x \in RunShapes : MP!Truthful(x)} :
                 ghRuns' = Append(ghRuns, MP!RunOf(s, "pending"))
      <4>1. PICK s \in RunShapes : MP!Truthful(s) /\ ghRuns' = Append(ghRuns, MP!RunOf(s, "pending"))
        BY <3>5
      <4>2. MP!RunOf(s, "pending") \in MP!RunType /\ MP!Truthful(MP!RunOf(s, "pending"))
        BY <4>1, RunIsTruthful
      <4> QED BY <3>3, <4>1, <4>2
    <3>6. CASE \E i \in DOMAIN ghRuns, st \in {"green", "red", "pending"} :
                 ghRuns' = [ghRuns EXCEPT ![i] = MP!RunOf(ghRuns[i], st)]
      <4>1. PICK i \in DOMAIN ghRuns, st \in {"green", "red", "pending"} :
                 ghRuns' = [ghRuns EXCEPT ![i] = MP!RunOf(ghRuns[i], st)]
        BY <3>6
      <4>2. ghRuns[i] \in MP!RunType /\ MP!Truthful(ghRuns[i])
        BY <3>1 DEF MP!RunsAreTruthful
      <4>3. MP!RunOf(ghRuns[i], st) \in MP!RunType /\ MP!Truthful(MP!RunOf(ghRuns[i], st))
        BY <4>2 DEF MP!RunOf, MP!RunType, MP!Truthful
      <4> QED BY <3>4, <4>1, <4>3
    <3> QED BY <1>3, <3>2, <3>5, <3>6 DEF MP!MergeMove
  <2>3. MP!MergeShape'
    BY <2>1, <2>2 DEF MP!MergeInv, MP!MergeShape
  <2>4. /\ MP!ProofIsEarned' /\ MP!MergedIsTested'
        /\ ghPr'.by = "script" => ghPr'.merged /\ mpc' \in {"confirm", "done"}
    BY <2>1 DEF MP!MergeInv, MP!MergeShape, MP!ProofIsEarned, MP!MergedIsTested
  <2> QED BY <2>2, <2>3, <2>4 DEF MP!MergeInv
<1> QED BY <1>1, <1>2, <1>3 DEF MP!MergeNext

-----------------------------------------------------------------------------
(* The selection from the ready pool (ReadyPick).                           *)

(* A set of numbers has a least one: induction as a fact about sets.        *)
LEMMA LeastNumber ==
  ASSUME NEW S, S \subseteq Nat, S # {}
  PROVE  \E x \in S : \A y \in S : x <= y
<1> DEFINE R == OpToRel(<, Nat)
<1>1. IsWellFoundedOn(R, Nat)
  BY NatLessThanWellFounded
<1>2. PICK x \in S : \A y \in S : ~(<<y, x>> \in R)
  <2> HIDE DEF R
  <2> QED BY <1>1, WFMin
<1>3. \A y \in S : ~(y < x)
  BY <1>2 DEF OpToRel
<1> HIDE DEF R
<1> QED BY <1>3

LEMMA PoolCounts == \A S : RP!Cardinality(S) = Cardinality(S)
BY DEF RP!Cardinality, Cardinality

LEMMA TierIsNat == \A s \in RP!ShapeType : RP!Tier(s) \in Nat /\ RP!ClassRank(s) \in {0, 1}
BY DEF RP!ShapeType, RP!Tier, RP!PriorityRank, RP!ClassRank, RP!Priority, RP!Unranked

(* The best of candidates is one of them and sorts before the others.       *)
LEMMA BestIsBest ==
  ASSUME NEW S, S \subseteq Issue, S # {}, \A i \in S : seen[i] \in RP!ShapeType
  PROVE  /\ RP!Best(S) \in S
         /\ \A j \in S \ {RP!Best(S)} :
              RP!SortsBefore(RP!Best(S), seen[RP!Best(S)], j, seen[j])
<1> USE PickAssumption
<1> DEFINE t(i) == RP!Tier(seen[i])
<1>1. \A i \in S : t(i) \in Nat
  BY TierIsNat
<1> HIDE DEF t
<1>2. PICK low \in {t(i) : i \in S} : \A y \in {t(i) : i \in S} : low <= y
  <2>1. {t(i) : i \in S} \subseteq Nat /\ {t(i) : i \in S} # {}
    BY <1>1
  <2> QED BY ONLY <2>1, LeastNumber
<1>3. PICK b \in {i \in S : t(i) = low} : \A y \in {i \in S : t(i) = low} : b <= y
  <2>1. {i \in S : t(i) = low} \subseteq Nat /\ {i \in S : t(i) = low} # {}
    BY <1>2
  <2> QED BY ONLY <2>1, LeastNumber
<1>4. b \in S /\ \A j \in S \ {b} : t(b) < t(j) \/ (t(b) = t(j) /\ b < j)
  BY <1>1, <1>2, <1>3
<1>5. b \in S /\ \A j \in S \ {b} : RP!SortsBefore(b, seen[b], j, seen[j])
  BY <1>4 DEF t, RP!SortsBefore
<1> QED BY <1>5 DEF RP!Best

(* What is evaluated next sorts before what is left for later.              *)
LEMMA ChunkIsAhead ==
  ASSUME queue \subseteq Issue, \A i \in queue : seen[i] \in RP!ShapeType,
         NEW i \in RP!NextChunk, NEW j \in queue \ RP!NextChunk
  PROVE  RP!SortsBefore(i, seen[i], j, seen[j])
<1> USE PickAssumption
<1> DEFINE t(k) == RP!Tier(seen[k])
           before(k) == {h \in queue : t(h) < t(k) \/ (t(h) = t(k) /\ h < k)}
<1>1. \A k \in queue : k \in Nat /\ t(k) \in Nat
  BY TierIsNat
<1>2. \A k \in queue : RP!Before(k) = before(k)
  BY DEF RP!Before, RP!SortsBefore
<1>3. i \in queue /\ Cardinality(before(i)) < Chunk /\ ~(Cardinality(before(j)) < Chunk)
  <2> HIDE DEF before
  <2> QED BY <1>2, PoolCounts DEF RP!NextChunk
<1> HIDE DEF t
<1>4. ASSUME ~(t(i) < t(j) \/ (t(i) = t(j) /\ i < j)) PROVE FALSE
  <2>1. i # j
    BY <1>3
  <2>2. t(j) < t(i) \/ (t(j) = t(i) /\ j < i)
    <3>1. i \in Nat /\ j \in Nat /\ t(i) \in Nat /\ t(j) \in Nat
      BY <1>1, <1>3
    <3> QED BY ONLY <1>4, <2>1, <3>1
  <2>3. before(j) \subseteq before(i)
    <3>1. i \in queue /\ j \in queue
      BY <1>3
    <3>2. \A h \in queue : t(h) < t(j) \/ (t(h) = t(j) /\ h < j) => t(h) < t(i) \/ (t(h) = t(i) /\ h < i)
      BY ONLY <1>1, <2>2, <3>1
    <3> QED BY <3>2
  <2>4. IsFiniteSet(before(i)) /\ before(i) \subseteq Issue
    BY FS_Subset
  <2> HIDE DEF before
  <2>5. /\ Cardinality(before(j)) <= Cardinality(before(i))
        /\ Cardinality(before(j)) \in Nat /\ Cardinality(before(i)) \in Nat
    BY <2>3, <2>4, FS_Subset, FS_CardinalityType
  <2> QED BY <1>3, <2>5
<1> QED BY <1>4 DEF t, RP!SortsBefore

(* What a read of the native blockers leaves.                               *)
LEMMA NativeIsRead ==
  ASSUME RP!PickTypeOK, RP!ReadsHold, NEW S, S \subseteq Issue, RP!ReadNative(S)
  PROVE  /\ native' \in [Issue -> {"yes", "no", "unread", "failed"}] /\ latch' \in BOOLEAN
         /\ \A i \in steady : native'[i] \in {"yes", "no"} => (native'[i] = "yes" <=> pool[i].native)
         /\ ~latch' => /\ ~latch /\ \A i \in Issue : native'[i] # "failed"
                       /\ \A i \in S : native'[i] \in {"yes", "no"}
<1> DEFINE ask == {i \in S : native[i] = "unread" /\ ~latch}
<1>1. PICK failed \in SUBSET ask :
        /\ native' = [i \in Issue |->
              IF i \in failed THEN "failed"
              ELSE IF i \in ask THEN (IF pool[i].native THEN "yes" ELSE "no")
              ELSE native[i]]
        /\ latch' = (latch \/ failed # {})
  BY DEF RP!ReadNative
<1>2. /\ native \in [Issue -> {"yes", "no", "unread", "failed"}] /\ latch \in BOOLEAN /\ steady \subseteq Issue
      /\ \A i \in steady : native[i] \in {"yes", "no"} => (native[i] = "yes" <=> pool[i].native)
      /\ ~latch => \A i \in Issue : native[i] # "failed"
  BY DEF RP!PickTypeOK, RP!ReadsHold
<1>3. /\ latch' \in BOOLEAN /\ native' \in [Issue -> {"yes", "no", "unread", "failed"}]
      /\ ~latch' => ~latch /\ failed = {}
      /\ \A i \in Issue : /\ i \in failed => native'[i] = "failed"
                          /\ i \in ask \ failed => native'[i] = (IF pool[i].native THEN "yes" ELSE "no")
                          /\ i \notin ask => native'[i] = native[i]
  BY <1>1, <1>2
<1>4. \A i \in steady : native'[i] \in {"yes", "no"} => (native'[i] = "yes" <=> pool[i].native)
  BY <1>1, <1>2, <1>3
<1>5. ASSUME ~latch' PROVE \A i \in Issue : native'[i] # "failed" /\ (i \in S => native'[i] \in {"yes", "no"})
  BY <1>2, <1>3, <1>5
<1> QED BY <1>3, <1>4, <1>5

(* Beside them the named dependencies are looked up, or some are not.       *)
LEMMA EvaluateIs ==
  ASSUME RP!PickTypeOK, NEW S, S \subseteq Issue, NEW f, RP!Evaluate(S, f)
  PROVE  RP!ReadNative(S) /\ blind \subseteq blind' /\ blind' \subseteq Issue
BY DEF RP!Evaluate, RP!PickTypeOK

(* So what could be taken is not thought gated, and when every request was  *)
(* answered, what is thought free can be taken.                             *)
LEMMA GatedAsRead ==
  ASSUME RP!PickTypeOK, RP!ReadsHold, NEW S, S \subseteq Issue, RP!ReadNative(S), NEW i \in steady
  PROVE  /\ RP!Takeable(pool[i]) /\ i \notin blind' => ~RP!IsGated(i, pool[i])
         /\ ~latch' /\ i \notin blind' /\ i \in S =>
              (RP!IsGated(i, pool[i]) <=> RP!Gated(pool[i], pool[i].met, pool[i].native))
<1>1. /\ native'[i] \in {"yes", "no"} => (native'[i] = "yes" <=> pool[i].native)
      /\ ~latch' /\ i \in S => native'[i] \in {"yes", "no"}
  BY NativeIsRead
<1>2. native'[i] = "yes" => pool[i].native
  BY <1>1
<1> QED BY <1>1, <1>2 DEF RP!Takeable, RP!IsGated, RP!Gated

(* A read that changes no issue keeps what was read before.                 *)
LEMMA ReadsKept ==
  ASSUME RP!PickInv, UNCHANGED <<pool, pickMode, steady>>,
         \A i \in steady : /\ light'[i] \in {NULL, pool[i]} /\ seen'[i] \in {NULL, pool[i]}
                           /\ light[i] # NULL => light'[i] # NULL
                           /\ seen[i] # NULL => seen'[i] # NULL
                           /\ native'[i] \in {"yes", "no"} => (native'[i] = "yes" <=> pool[i].native)
                           /\ pool[i].kind \in RP!Queried' \ RP!Queried =>
                                (IF pickMode = "fast" THEN light'[i] ELSE seen'[i]) # NULL,
         ~latch' => \A i \in Issue : native'[i] # "failed"
  PROVE  RP!ReadsHold'
<1>1. /\ pool' = pool /\ pickMode' = pickMode /\ steady' = steady
      /\ \A i \in steady : pool[i].kind \in RP!Queried =>
            (IF pickMode = "fast" THEN light[i] ELSE seen[i]) # NULL
  BY DEF RP!PickInv, RP!ReadsHold
<1>2. PICK Q, Q2 : Q = RP!Queried /\ Q2 = RP!Queried'
  OBVIOUS
<1>3. \A i \in steady : pool[i].kind \in Q2 => (IF pickMode = "fast" THEN light'[i] ELSE seen'[i]) # NULL
  BY <1>1, <1>2
<1> QED BY <1>1, <1>2, <1>3 DEF RP!ReadsHold

LEMMA PickStarts == RP!PickInit => RP!PickInv
<1> SUFFICES ASSUME RP!PickInit PROVE RP!PickInv
  OBVIOUS
<1> USE PickAssumption
<1>1. /\ pool \in [Issue -> RP!ShapeType] /\ pickMode \in {"fast", "full"} /\ capped \in BOOLEAN
      /\ ppc = IF pickMode = "fast" THEN "pick" ELSE "new"
      /\ light = [i \in Issue |-> NULL] /\ seen = [i \in Issue |-> NULL]
      /\ native = [i \in Issue |-> "unread"] /\ latch = FALSE /\ blind = {}
      /\ queue = {} /\ answer = NULL /\ taken = NULL /\ steady = Issue /\ poolMoves = 0
  BY DEF RP!PickInit
<1>2. RP!PickTypeOK
  <2>1. ppc \in {"pick", "new"} /\ poolMoves \in 0 .. MaxPoolMoves /\ answer \in RP!Answers
    BY <1>1 DEF RP!Answers
  <2>2. /\ light \in [Issue -> RP!ShapeType \cup {NULL}] /\ seen \in [Issue -> RP!ShapeType \cup {NULL}]
        /\ native \in [Issue -> {"yes", "no", "unread", "failed"}]
    BY <1>1
  <2> QED BY <1>1, <2>1, <2>2 DEF RP!PickTypeOK
<1>3. RP!ReadsHold
  BY <1>1 DEF RP!ReadsHold, RP!Queried
<1>4. RP!PickIsRead /\ RP!QueueIsAhead
  BY <1>1 DEF RP!PickIsRead, RP!QueueIsAhead
<1>5. RP!FastIsFull /\ RP!NoInversion
  BY <1>1 DEF RP!FastIsFull, RP!NoInversion
<1> QED BY <1>2, <1>3, <1>4, <1>5 DEF RP!PickInv

(* The verdict on the pick alone, and with those read beside it.            *)
LEMMA VerdictOfThePick ==
  ASSUME NEW s, NEW gated \in BOOLEAN
  PROVE  /\ RP!Decide(Asked, s, gated, {}) = "ok" <=>
              RP!Eligible(s) /\ ~gated /\ ~(capped /\ s.kind = "new")
         /\ RP!Decide(Asked, s, gated, {}) \in
              {"ok", "GATED", "DEPENDENCY_OPEN", "PR_CAP", "not_eligible"}
         /\ \A B : RP!Decide(Asked, s, gated, B) =
              IF RP!Decide(Asked, s, gated, {}) # "ok" THEN RP!Decide(Asked, s, gated, {})
              ELSE IF B # {} THEN "PRIORITY_INVERSION" ELSE "ok"
BY DEF RP!Decide, RP!Eligible

LEMMA FastPickKeeps ==
  ASSUME RP!PickInv, RP!FastPick PROVE RP!PickInv'
<1> USE PickAssumption
<1>1. /\ RP!PickTypeOK /\ RP!ReadsHold /\ RP!PickIsRead
  BY DEF RP!PickInv
<1>2. /\ pool \in [Issue -> RP!ShapeType] /\ pickMode \in {"fast", "full"} /\ capped \in BOOLEAN
      /\ light \in [Issue -> RP!ShapeType \cup {NULL}] /\ seen \in [Issue -> RP!ShapeType \cup {NULL}]
      /\ native \in [Issue -> {"yes", "no", "unread", "failed"}] /\ latch \in BOOLEAN
      /\ queue \subseteq Issue /\ answer \in RP!Answers /\ taken \in Issue \cup {NULL}
      /\ steady \subseteq Issue /\ poolMoves \in 0 .. MaxPoolMoves /\ blind \subseteq Issue
  BY <1>1 DEF RP!PickTypeOK
<1>3. /\ pool' = pool /\ pickMode' = pickMode /\ capped' = capped /\ light' = light /\ queue' = queue
      /\ steady' = steady /\ poolMoves' = poolMoves /\ taken' = taken /\ ppc = "pick"
  BY DEF RP!FastPick
<1>4. pickMode = "fast" /\ answer = NULL /\ ~latch /\ blind = {} /\ native[Asked] = "unread"
  BY <1>1, <1>2, <1>3 DEF RP!PickIsRead
<1>5. CASE answer' = "error" /\ ppc' = "done" /\ UNCHANGED <<seen, native, latch, blind, taken>>
  <2>1. RP!PickTypeOK'
    BY <1>2, <1>3, <1>5 DEF RP!PickTypeOK, RP!Answers
  <2>2. RP!ReadsHold'
    BY <1>1, <1>3, <1>5 DEF RP!ReadsHold, RP!Queried
  <2>3. RP!PickIsRead' /\ RP!QueueIsAhead' /\ RP!FastIsFull' /\ RP!NoInversion'
    BY <1>5 DEF RP!PickIsRead, RP!QueueIsAhead, RP!FastIsFull, RP!NoInversion
  <2> QED BY <2>1, <2>2, <2>3 DEF RP!PickInv
<1>6. CASE /\ seen' = [seen EXCEPT ![Asked] = pool[Asked]] /\ RP!Evaluate({Asked}, pool)
           /\ LET judged == RP!Decide(Asked, pool[Asked], RP!IsGated(Asked, pool[Asked]), {}) IN
                IF judged = "ok"
                THEN ppc' = "new" /\ UNCHANGED <<answer, taken>>
                ELSE ppc' = "done" /\ answer' = judged /\ UNCHANGED taken
  <2>0. RP!ReadNative({Asked}) /\ blind' \subseteq Issue
    BY <1>1, <1>6, EvaluateIs
  <2>1. PICK g \in BOOLEAN : g = RP!IsGated(Asked, pool[Asked])
    BY DEF RP!IsGated, RP!Gated
  <2>2. PICK v : v = RP!Decide(Asked, pool[Asked], g, {})
    OBVIOUS
  <2>3. /\ v = "ok" => ppc' = "new" /\ answer' = answer
        /\ v # "ok" => ppc' = "done" /\ answer' = v
        /\ v \in {"ok", "GATED", "DEPENDENCY_OPEN", "PR_CAP", "not_eligible"}
        /\ v = "ok" => RP!Eligible(pool[Asked]) /\ ~g /\ ~(capped /\ pool[Asked].kind = "new")
    BY <1>6, <2>1, <2>2, VerdictOfThePick
  <2>4. /\ native' \in [Issue -> {"yes", "no", "unread", "failed"}] /\ latch' \in BOOLEAN
        /\ \A i \in steady : native'[i] \in {"yes", "no"} => (native'[i] = "yes" <=> pool[i].native)
        /\ ~latch' => \A i \in Issue : native'[i] # "failed"
    BY <1>1, <2>0, NativeIsRead
  <2>5. /\ seen' \in [Issue -> RP!ShapeType \cup {NULL}] /\ seen'[Asked] = pool[Asked]
        /\ \A i \in Issue \ {Asked} : seen'[i] = seen[i]
    BY <1>2, <1>6
  <2>6. Asked \in steady /\ ~latch' /\ Asked \notin blind' =>
           (g <=> RP!Gated(pool[Asked], pool[Asked].met, pool[Asked].native))
    BY <1>1, <2>0, <2>1, GatedAsRead
  <2>7. RP!PickTypeOK'
    BY <1>2, <1>3, <1>4, <2>0, <2>3, <2>4, <2>5 DEF RP!PickTypeOK, RP!Answers
  <2>8. RP!ReadsHold'
    <3>1. RP!Queried' = {}
      BY <2>3 DEF RP!Queried
    <3>2. \A i \in steady : light'[i] \in {NULL, pool[i]} /\ seen'[i] \in {NULL, pool[i]}
      BY <1>1, <1>2, <1>3, <2>5 DEF RP!ReadsHold
    <3> QED BY <1>3, <2>4, <3>1, <3>2 DEF RP!ReadsHold
  <2>9. RP!PickIsRead'
    <3>1. ASSUME v = "ok", Asked \in steady, ~latch' PROVE RP!Takeable(pool[Asked])
      <4>1. ~RP!IsGated(Asked, pool[Asked]) /\ native'[Asked] \in {"yes", "no"}
        BY <1>1, <2>0, <2>1, <2>3, <3>1, NativeIsRead
      <4>2. native'[Asked] = "yes" <=> pool[Asked].native
        BY <2>4, <3>1, <4>1
      <4> QED BY <2>3, <3>1, <4>1, <4>2 DEF RP!Takeable, RP!IsGated, RP!Gated
    <3>2. RP!Takeable(pool[Asked])' = RP!Takeable(pool[Asked])
      BY <1>3 DEF RP!Takeable
    <3>3. seen'[Asked] # NULL
      BY <1>2, <2>5
    <3> QED BY <1>3, <1>4, <2>3, <3>1, <3>2, <3>3 DEF RP!PickIsRead
  <2>10. RP!QueueIsAhead' /\ RP!NoInversion'
    BY <1>4, <2>3 DEF RP!QueueIsAhead, RP!NoInversion
  <2>11. RP!FastIsFull'
    <3>1. ASSUME v # "ok", steady = Issue, ~latch', blind' = {} PROVE answer' = RP!Reference'
      <4>1. PICK B : B = {i \in Issue \ {Asked} : RP!Takeable(pool[i])
                                         /\ RP!Tier(pool[i]) < RP!Tier(pool[Asked])}
        OBVIOUS
      <4>2. {i \in Issue \ {Asked} : RP!Takeable(pool[i]) /\ RP!Tier(pool[i]) < RP!Tier(pool[Asked])}' = B
        BY <1>3, <4>1 DEF RP!Takeable
      <4>3. RP!Reference' = RP!Decide(Asked, pool[Asked], g, B)
        BY <1>3, <2>6, <3>1, <4>2 DEF RP!Reference, RP!Decide
      <4> QED BY <2>1, <2>2, <2>3, <3>1, <4>3, VerdictOfThePick
    <3> QED BY <1>3, <2>3, <3>1 DEF RP!FastIsFull
  <2> QED BY <2>7, <2>8, <2>9, <2>10, <2>11 DEF RP!PickInv
<1> QED BY <1>5, <1>6 DEF RP!FastPick

(* A run that cannot read ends without an answer.                           *)
LEMMA PickFails ==
  ASSUME RP!PickInv, answer' = "error", ppc' = "done",
         UNCHANGED <<pool, pickMode, capped, light, seen, native, latch, blind, taken, steady, poolMoves>>,
         queue' \subseteq Issue
  PROVE  RP!PickInv'
<1> USE PickAssumption
<1>1. /\ RP!PickTypeOK /\ RP!ReadsHold
  BY DEF RP!PickInv
<1>2. /\ pool' = pool /\ pickMode' = pickMode /\ capped' = capped /\ light' = light /\ seen' = seen
      /\ steady' = steady /\ poolMoves' = poolMoves /\ taken' = taken /\ native' = native /\ latch' = latch
      /\ blind' = blind
  OBVIOUS
<1>3. RP!PickTypeOK'
  BY <1>1, <1>2 DEF RP!PickTypeOK, RP!Answers
<1>4. RP!ReadsHold'
  BY <1>1, <1>2 DEF RP!ReadsHold, RP!Queried
<1>5. RP!PickIsRead' /\ RP!QueueIsAhead' /\ RP!FastIsFull' /\ RP!NoInversion'
  BY <1>2 DEF RP!PickIsRead, RP!QueueIsAhead, RP!FastIsFull, RP!NoInversion
<1> QED BY <1>3, <1>4, <1>5 DEF RP!PickInv

(* One query of the two: what it lists of the issues nobody touched is all  *)
(* that have its label.                                                     *)
LEMMA LoadKeeps ==
  ASSUME RP!PickInv, NEW label, NEW next, RP!Load(label, next),
         (label = "new" /\ next = "rework") \/ (label = "rework" /\ next = "details")
  PROVE  RP!PickInv'
<1> USE PickAssumption
<1>1. /\ RP!PickTypeOK /\ RP!ReadsHold /\ RP!PickIsRead
  BY DEF RP!PickInv
<1>2. /\ pool \in [Issue -> RP!ShapeType] /\ pickMode \in {"fast", "full"}
      /\ light \in [Issue -> RP!ShapeType \cup {NULL}] /\ seen \in [Issue -> RP!ShapeType \cup {NULL}]
      /\ queue \subseteq Issue /\ steady \subseteq Issue
  BY <1>1 DEF RP!PickTypeOK
<1>3. /\ pool' = pool /\ pickMode' = pickMode /\ capped' = capped /\ queue' = queue /\ native' = native
      /\ latch' = latch /\ blind' = blind /\ steady' = steady /\ poolMoves' = poolMoves /\ taken' = taken
      /\ ppc = label
  BY DEF RP!Load
<1>4. CASE /\ answer' = "error" /\ ppc' = "done" /\ UNCHANGED <<light, seen>>
  BY <1>2, <1>3, <1>4, PickFails
<1>5. CASE /\ ppc' = next /\ UNCHANGED answer
           /\ LET page == {i \in Issue : pool[i].kind = label}
                  merged(f) == [i \in Issue |-> IF i \in page THEN pool[i] ELSE f[i]] IN
              IF pickMode = "fast" THEN light' = merged(light) /\ UNCHANGED seen
                                   ELSE seen' = merged(seen) /\ UNCHANGED light
  <2> DEFINE merged(f) == [i \in Issue |-> IF pool[i].kind = label THEN pool[i] ELSE f[i]]
  <2>1. /\ pickMode = "fast" => light' = merged(light) /\ seen' = seen
        /\ pickMode # "fast" => seen' = merged(seen) /\ light' = light
        /\ answer' = answer /\ ppc' = next
    BY <1>5
  <2>2. /\ light' \in [Issue -> RP!ShapeType \cup {NULL}] /\ seen' \in [Issue -> RP!ShapeType \cup {NULL}]
        /\ \A i \in Issue : /\ light'[i] \in {light[i], pool[i]} /\ seen'[i] \in {seen[i], pool[i]}
                            /\ light[i] # NULL => light'[i] # NULL
                            /\ seen[i] # NULL => seen'[i] # NULL
                            /\ pool[i].kind = label =>
                                 (IF pickMode = "fast" THEN light'[i] ELSE seen'[i]) # NULL
    BY <1>2, <2>1
  <2>3. RP!Queried' \ RP!Queried = {label}
    BY <1>3, <2>1 DEF RP!Queried
  <2>4. RP!PickTypeOK'
    BY <1>1, <1>3, <2>1, <2>2 DEF RP!PickTypeOK
  <2>5. \A i \in steady : /\ light'[i] \in {NULL, pool[i]} /\ seen'[i] \in {NULL, pool[i]}
                          /\ native'[i] \in {"yes", "no"} => (native'[i] = "yes" <=> pool[i].native)
    BY <1>1, <1>2, <1>3, <2>2 DEF RP!ReadsHold
  <2>6. ~latch' => \A i \in Issue : native'[i] # "failed"
    BY <1>1, <1>3 DEF RP!ReadsHold
  <2>7. \A i \in steady : pool[i].kind \in RP!Queried' \ RP!Queried =>
           (IF pickMode = "fast" THEN light'[i] ELSE seen'[i]) # NULL
    BY <1>2, <2>2, <2>3
  <2>8. RP!ReadsHold'
    BY <1>2, <1>3, <2>2, <2>5, <2>6, <2>7, ReadsKept
  <2>9. RP!PickIsRead'
    <3>1. RP!Takeable(pool[Asked])' = RP!Takeable(pool[Asked])
      BY <1>3 DEF RP!Takeable
    <3> QED BY <1>1, <1>2, <1>3, <2>1, <2>2, <3>1 DEF RP!PickIsRead
  <2>10. RP!QueueIsAhead' /\ RP!FastIsFull' /\ RP!NoInversion'
    BY <1>1, <1>3, <2>1 DEF RP!PickIsRead, RP!QueueIsAhead, RP!FastIsFull, RP!NoInversion
  <2> QED BY <2>4, <2>8, <2>9, <2>10 DEF RP!PickInv
<1> QED BY <1>4, <1>5 DEF RP!Load

(* The details are read of all that may come before the pick.               *)
LEMMA DetailsKeep ==
  ASSUME RP!PickInv, RP!Details PROVE RP!PickInv'
<1> USE PickAssumption
<1>1. /\ RP!PickTypeOK /\ RP!ReadsHold /\ RP!PickIsRead
  BY DEF RP!PickInv
<1>2. /\ pool \in [Issue -> RP!ShapeType] /\ pickMode = "fast"
      /\ light \in [Issue -> RP!ShapeType \cup {NULL}] /\ seen \in [Issue -> RP!ShapeType \cup {NULL}]
      /\ queue \subseteq Issue /\ steady \subseteq Issue
  BY <1>1 DEF RP!PickTypeOK, RP!Details
<1>3. /\ pool' = pool /\ pickMode' = pickMode /\ capped' = capped /\ light' = light /\ native' = native
      /\ latch' = latch /\ blind' = blind /\ steady' = steady /\ poolMoves' = poolMoves /\ taken' = taken
      /\ ppc = "details"
  BY DEF RP!Details
<1>4. CASE answer' = "error" /\ ppc' = "done" /\ UNCHANGED <<seen, queue>>
  BY <1>2, <1>3, <1>4, PickFails
<1>5. CASE /\ seen' = [i \in Issue |-> IF RP!Possible(i) THEN pool[i] ELSE seen[i]]
           /\ queue' = {i \in Issue : RP!Possible(i) /\ RP!Classified(pool[i])
                                      /\ RP!Tier(pool[i]) < RP!Tier(seen[Asked])}
           /\ ppc' = "chunk" /\ UNCHANGED answer
  <2>1. /\ seen' \in [Issue -> RP!ShapeType \cup {NULL}] /\ queue' \subseteq Issue
        /\ \A i \in Issue : seen'[i] = IF RP!Possible(i) THEN pool[i] ELSE seen[i]
        /\ \A i \in queue' : /\ RP!Possible(i) /\ i \in Issue
                             /\ RP!Tier(pool[i]) < RP!Tier(seen[Asked])
    BY <1>2, <1>5
  <2>2. ~RP!Possible(Asked) /\ seen'[Asked] = seen[Asked]
    BY <2>1 DEF RP!Possible
  <2>3. RP!PickTypeOK'
    BY <1>1, <1>3, <1>5, <2>1 DEF RP!PickTypeOK
  <2>4. RP!ReadsHold'
    <3>1. RP!Queried' = RP!Queried
      BY <1>3, <1>5 DEF RP!Queried
    <3>2. \A i \in steady : /\ light'[i] \in {NULL, pool[i]} /\ seen'[i] \in {NULL, pool[i]}
                            /\ seen[i] # NULL => seen'[i] # NULL
                            /\ native'[i] \in {"yes", "no"} => (native'[i] = "yes" <=> pool[i].native)
      BY <1>1, <1>2, <1>3, <2>1 DEF RP!ReadsHold
    <3>3. ~latch' => \A i \in Issue : native'[i] # "failed"
      BY <1>1, <1>3 DEF RP!ReadsHold
    <3>4. \A i \in steady : pool[i].kind \notin RP!Queried' \ RP!Queried
      BY <3>1
    <3> QED BY <1>3, <3>2, <3>3, <3>4, ReadsKept
  <2>5. RP!PickIsRead'
    <3>1. RP!Takeable(pool[Asked])' = RP!Takeable(pool[Asked])
      BY <1>3 DEF RP!Takeable
    <3> QED BY <1>1, <1>2, <1>3, <1>5, <2>2, <3>1 DEF RP!PickIsRead
  <2>6. RP!QueueIsAhead'
    <3>1. \A i \in queue' : i # Asked /\ seen'[i] # NULL /\ RP!Tier(seen'[i]) < RP!Tier(seen'[Asked])
      BY <1>2, <2>1, <2>2 DEF RP!Possible
    <3>2. ASSUME NEW i \in steady \ {Asked}, RP!Takeable(pool[i]), RP!Tier(pool[i]) < RP!Tier(seen[Asked])
          PROVE  i \in queue'
      <4>1. i \in Issue /\ pool[i] \in RP!ShapeType
        BY <1>2, <3>2
      <4>2. /\ RP!Classified(pool[i]) /\ pool[i].kind \in {"new", "rework"}
            /\ ~(capped /\ pool[i].kind = "new")
        BY <3>2, <4>1 DEF RP!Takeable, RP!Eligible, RP!Candidate, RP!Classified, RP!ShapeType
      <4>3. light[i] = pool[i] /\ light[i] # NULL
        BY <1>1, <1>2, <1>3, <3>2, <4>1, <4>2 DEF RP!ReadsHold, RP!Queried
      <4>4. RP!Possible(i)
        BY <3>2, <4>1, <4>2, <4>3 DEF RP!Possible, RP!Tier, RP!PriorityRank
      <4> QED BY <1>5, <3>2, <4>1, <4>2, <4>4
    <3>3. \A i \in Issue : RP!Takeable(pool[i])' = RP!Takeable(pool[i])
      BY <1>3 DEF RP!Takeable
    <3>4. \A i \in steady' \ (blind' \cup {Asked}) :
              RP!Takeable(pool[i])' /\ RP!Tier(pool[i])' < RP!Tier(seen[Asked])' => i \in queue'
      <4>1. \A i \in Issue : RP!Tier(pool[i])' = RP!Tier(pool[i])
        BY <1>3
      <4>2. RP!Tier(seen[Asked])' = RP!Tier(seen[Asked])
        BY <2>2
      <4> QED BY <1>2, <1>3, <3>2, <3>3, <4>1, <4>2
    <3> QED BY <3>1, <3>4 DEF RP!QueueIsAhead
  <2>7. RP!FastIsFull' /\ RP!NoInversion'
    BY <1>1, <1>3, <1>5 DEF RP!PickIsRead, RP!FastIsFull, RP!NoInversion
  <2> QED BY <2>3, <2>4, <2>5, <2>6, <2>7 DEF RP!PickInv
<1> QED BY <1>4, <1>5 DEF RP!Details

(* A move takes an issue out of those nobody touched.                       *)
LEMMA PoolMovesKeep ==
  ASSUME RP!PickInv, NEW i \in Issue, RP!PoolMoves(i) PROVE RP!PickInv'
<1> USE PickAssumption
<1>1. /\ RP!PickTypeOK /\ RP!ReadsHold /\ RP!PickIsRead /\ RP!QueueIsAhead
  BY DEF RP!PickInv
<1>2. /\ pool \in [Issue -> RP!ShapeType] /\ steady \subseteq Issue /\ poolMoves \in 0 .. MaxPoolMoves
  BY <1>1 DEF RP!PickTypeOK
<1>3. /\ pickMode' = pickMode /\ capped' = capped /\ light' = light /\ native' = native /\ ppc' = ppc
      /\ latch' = latch /\ blind' = blind /\ seen' = seen /\ queue' = queue /\ answer' = answer /\ taken' = taken
      /\ poolMoves < MaxPoolMoves /\ poolMoves' = poolMoves + 1 /\ ppc # "done"
      /\ steady' = steady \ {i}
  BY DEF RP!PoolMoves
<1>4. /\ pool' \in [Issue -> RP!ShapeType] /\ \A j \in steady' : pool'[j] = pool[j] /\ j \in steady
  <2>1. PICK s \in Shapes : pool' = [pool EXCEPT ![i] = s]
    BY DEF RP!PoolMoves
  <2> QED BY <1>2, <1>3, <2>1
<1>5. poolMoves' \in 0 .. MaxPoolMoves
  BY <1>2, <1>3
<1>6. RP!PickTypeOK'
  BY <1>1, <1>3, <1>4, <1>5 DEF RP!PickTypeOK
<1>7. RP!ReadsHold'
  <2>1. RP!Queried' = RP!Queried
    BY <1>3 DEF RP!Queried
  <2> QED BY <1>1, <1>3, <1>4, <2>1 DEF RP!ReadsHold
<1>8. \A j \in steady' : RP!Takeable(pool[j])' = RP!Takeable(pool[j]) /\ RP!Tier(pool[j])' = RP!Tier(pool[j])
  BY <1>3, <1>4 DEF RP!Takeable
<1>9. RP!PickIsRead'
  <2>1. Asked \in steady' => RP!Takeable(pool[Asked])' = RP!Takeable(pool[Asked])
    BY <1>8
  <2> QED BY <1>1, <1>3, <1>4, <2>1 DEF RP!PickIsRead
<1>10. RP!QueueIsAhead'
  <2>1. \A j \in Issue : RP!Tier(seen[j])' = RP!Tier(seen[j])
    BY <1>3
  <2>2. queue \subseteq Issue
    BY <1>1 DEF RP!PickTypeOK
  <2> QED BY <1>1, <1>3, <1>4, <1>8, <2>1, <2>2 DEF RP!QueueIsAhead
<1>11. RP!FastIsFull' /\ RP!NoInversion'
  BY <1>1, <1>3 DEF RP!PickIsRead, RP!FastIsFull, RP!NoInversion
<1> QED BY <1>6, <1>7, <1>9, <1>10, <1>11 DEF RP!PickInv

(* Of the candidates that are evaluated together, what could be taken all   *)
(* along and was looked up is found free, and when every request was        *)
(* answered what is found free and nobody touched can be taken.             *)
LEMMA FreeAsRead ==
  ASSUME RP!PickTypeOK, RP!ReadsHold, NEW S, S \subseteq Issue, \A i \in S : seen[i] # NULL,
         NEW T, T \subseteq Issue, {i \in S : RP!Candidate(seen[i])} \subseteq T, RP!ReadNative(T),
         NEW free, free = RP!Free(S)
  PROVE  /\ \A i \in S \cap steady : RP!Takeable(pool[i]) /\ i \notin blind' => i \in free
         /\ ~latch' /\ blind' = {} => \A i \in free \cap steady : RP!Takeable(pool[i])
<1>0. free = {i \in S : RP!Eligible(seen[i]) /\ ~RP!IsGated(i, seen[i]) /\ ~(capped /\ seen[i].kind = "new")}
  BY DEF RP!Free
<1>1. \A i \in S \cap steady : seen[i] = pool[i]
  BY DEF RP!ReadsHold
<1>2. ASSUME NEW i \in S \cap steady, RP!Takeable(pool[i]), i \notin blind' PROVE i \in free
  <2>1. RP!Eligible(pool[i]) /\ ~(capped /\ pool[i].kind = "new")
    BY <1>2 DEF RP!Takeable
  <2>2. ~RP!IsGated(i, pool[i])
    BY <1>2, GatedAsRead
  <2>3. seen[i] = pool[i]
    BY <1>1
  <2> QED BY <1>0, <2>1, <2>2, <2>3
<1>3. ASSUME ~latch', blind' = {}, NEW i \in free \cap steady PROVE RP!Takeable(pool[i])
  <2>1. seen[i] = pool[i] /\ RP!Eligible(pool[i]) /\ ~(capped /\ pool[i].kind = "new")
    BY <1>0, <1>1, <1>3
  <2>2. ~RP!IsGated(i, pool[i])
    BY <1>0, <2>1, <1>3
  <2>3. i \in T
    BY <1>0, <2>1, <1>3 DEF RP!Eligible
  <2>4. ~RP!Gated(pool[i], pool[i].met, pool[i].native)
    BY <1>3, <2>2, <2>3, GatedAsRead
  <2> QED BY <2>1, <2>4 DEF RP!Takeable
<1> QED BY <1>2, <1>3

(* The selection ranks all that was listed.                                 *)
LEMMA SelectKeeps ==
  ASSUME RP!PickInv, RP!Select PROVE RP!PickInv'
<1> USE PickAssumption
<1>1. /\ RP!PickTypeOK /\ RP!ReadsHold /\ RP!PickIsRead
  BY DEF RP!PickInv
<1>2. /\ pool \in [Issue -> RP!ShapeType] /\ pickMode = "full"
      /\ seen \in [Issue -> RP!ShapeType \cup {NULL}]
      /\ queue \subseteq Issue /\ steady \subseteq Issue /\ taken \in Issue \cup {NULL}
  BY <1>1 DEF RP!PickTypeOK, RP!Select
<1>3. /\ pool' = pool /\ pickMode' = pickMode /\ capped' = capped /\ light' = light /\ seen' = seen
      /\ queue' = queue /\ steady' = steady /\ poolMoves' = poolMoves /\ ppc = "details" /\ ppc' = "done"
  BY DEF RP!Select
<1>0. SUFFICES ASSUME ~RP!NoAnswer PROVE RP!PickInv'
  BY <1>2, <1>3, PickFails DEF RP!NoAnswer
<1> DEFINE S == {i \in Issue : seen[i] # NULL}
           C == {i \in S : RP!Candidate(seen[i])}
           rows == RP!Free(S)
<1>4. /\ RP!Evaluate(C, seen)
      /\ rows = {} => answer' = "nothing" /\ taken' = taken
      /\ rows # {} => answer' = "pick" /\ taken' = RP!Best(rows)
  BY <1>0 DEF RP!Select
<1>5. C \subseteq Issue /\ rows \subseteq S
  BY DEF RP!Free
<1>14. RP!ReadNative(C) /\ blind' \subseteq Issue
  <2> HIDE DEF S, rows, C
  <2> QED BY <1>1, <1>4, <1>5, EvaluateIs
<1>6. /\ native' \in [Issue -> {"yes", "no", "unread", "failed"}] /\ latch' \in BOOLEAN
      /\ \A i \in steady : native'[i] \in {"yes", "no"} => (native'[i] = "yes" <=> pool[i].native)
      /\ ~latch' => \A i \in Issue : native'[i] # "failed"
  <2> HIDE DEF S, rows, C
  <2> QED BY <1>1, <1>5, <1>14, NativeIsRead
<1>7. \A i \in S \cap steady : RP!Takeable(pool[i]) /\ i \notin blind' => i \in rows
  <2>1. S \subseteq Issue /\ \A i \in S : seen[i] # NULL
    OBVIOUS
  <2>2. PICK X, F, T : X = S /\ F = rows /\ T = C
    OBVIOUS
  <2>3. F = RP!Free(X) /\ {i \in X : RP!Candidate(seen[i])} \subseteq T /\ T \subseteq Issue /\ RP!ReadNative(T)
    BY <1>5, <1>14, <2>2
  <2>4. X \subseteq Issue /\ \A i \in X : seen[i] # NULL
    BY <2>1, <2>2
  <2> HIDE DEF S, rows, C
  <2>5. \A i \in X \cap steady : RP!Takeable(pool[i]) /\ i \notin blind' => i \in F
    BY <1>1, <2>3, <2>4, FreeAsRead
  <2> QED BY <2>2, <2>5
<1>8. \A i \in steady : RP!Takeable(pool[i]) => i \in S
  <2>1. ASSUME NEW i \in steady, RP!Takeable(pool[i]) PROVE pool[i].kind \in RP!Queried
    BY <1>2, <1>3, <2>1
       DEF RP!Takeable, RP!Eligible, RP!Candidate, RP!Classified, RP!ShapeType, RP!Queried
  <2> QED BY <1>1, <1>2, <2>1 DEF RP!ReadsHold
<1>9. rows # {} => /\ taken' \in rows
                     /\ \A j \in rows \ {taken'} : RP!Tier(seen[taken']) <= RP!Tier(seen[j])
  <2>1. rows \subseteq Issue /\ \A i \in rows : seen[i] \in RP!ShapeType
    BY <1>2, <1>5
  <2> HIDE DEF rows, S
  <2>2. ASSUME rows # {}
        PROVE  /\ RP!Best(rows) \in rows
               /\ \A j \in rows \ {RP!Best(rows)} :
                    RP!SortsBefore(RP!Best(rows), seen[RP!Best(rows)], j, seen[j])
    BY <2>1, <2>2, BestIsBest
  <2>3. \A i \in rows : RP!Tier(seen[i]) \in Nat
    BY <2>1, TierIsNat
  <2> QED BY <1>4, <2>2, <2>3 DEF RP!SortsBefore
<1>10. RP!PickTypeOK'
  <2>1. rows \subseteq Issue
    BY <1>5
  <2> HIDE DEF rows, S
  <2> QED BY <1>1, <1>2, <1>3, <1>4, <1>6, <1>9, <1>14, <2>1 DEF RP!PickTypeOK, RP!Answers
<1>11. RP!ReadsHold'
  <2>1. RP!Queried' = {}
    BY <1>3 DEF RP!Queried
  <2> HIDE DEF rows, S
  <2> QED BY <1>1, <1>2, <1>3, <1>6, <2>1 DEF RP!ReadsHold
<1>12. RP!PickIsRead' /\ RP!QueueIsAhead' /\ RP!FastIsFull'
  BY <1>2, <1>3 DEF RP!PickIsRead, RP!QueueIsAhead, RP!FastIsFull
<1>13. RP!NoInversion'
  <2>1. \A i \in Issue : RP!Takeable(pool[i])' = RP!Takeable(pool[i])
    BY <1>3 DEF RP!Takeable
  <2>2. ASSUME answer' \in {"ok", "pick"}, NEW i \in steady \ (blind' \cup {taken'}), RP!Takeable(pool[i])
        PROVE  RP!Tier(seen'[taken']) <= RP!Tier(pool[i])
    <3>1. i \in S \cap steady /\ i \in rows
      BY <1>7, <1>8, <2>2
    <3>2. seen[i] = pool[i]
      BY <1>1, <3>1 DEF RP!ReadsHold
    <3> HIDE DEF rows, S
    <3> QED BY <1>3, <1>9, <2>2, <3>1, <3>2
  <2> QED BY <1>2, <1>3, <2>1, <2>2 DEF RP!NoInversion
<1> QED BY <1>10, <1>11, <1>12, <1>13 DEF RP!PickInv

(* The candidates that sort before the pick, the best of them first.        *)
LEMMA ChunkKeeps ==
  ASSUME RP!PickInv, RP!EvaluateChunk PROVE RP!PickInv'
<1> USE PickAssumption
<1>1. /\ RP!PickTypeOK /\ RP!ReadsHold /\ RP!PickIsRead /\ RP!QueueIsAhead
  BY DEF RP!PickInv
<1>2. /\ pool \in [Issue -> RP!ShapeType] /\ pickMode = "fast" /\ answer = NULL
      /\ seen \in [Issue -> RP!ShapeType \cup {NULL}] /\ seen[Asked] \in RP!ShapeType
      /\ queue \subseteq Issue /\ steady \subseteq Issue /\ taken \in Issue \cup {NULL}
  BY <1>1 DEF RP!PickTypeOK, RP!EvaluateChunk, RP!PickIsRead
<1>3. /\ pool' = pool /\ pickMode' = pickMode /\ capped' = capped /\ light' = light /\ seen' = seen
      /\ steady' = steady /\ poolMoves' = poolMoves /\ ppc = "chunk"
  BY DEF RP!EvaluateChunk
<1>0. SUFFICES ASSUME ~RP!NoAnswer PROVE RP!PickInv'
  BY <1>2, <1>3, PickFails DEF RP!NoAnswer
<1>4. PICK S, free, T : /\ S = RP!NextChunk /\ free = RP!Free(S)
                        /\ T = {Asked} \cup {i \in S : RP!Candidate(seen[i])}
  OBVIOUS
<1>20. PICK g \in BOOLEAN : g = RP!IsGated(Asked, seen[Asked])
  BY DEF RP!IsGated, RP!Gated
<1>21. PICK v : v = RP!Decide(Asked, seen[Asked], g, free)
  OBVIOUS
<1>22. \/ queue = {} /\ answer' = "ok" /\ taken' = Asked /\ ppc' = "done"
          /\ UNCHANGED <<native, latch, blind, queue>>
       \/ /\ queue # {} /\ RP!Evaluate(T, seen)
          /\ v = "ok" => queue' = queue \ S /\ UNCHANGED <<ppc, answer>>
          /\ v # "ok" => answer' = v /\ ppc' = "done" /\ UNCHANGED queue
          /\ taken' = IF v = "PRIORITY_INVERSION" THEN RP!Best(free) ELSE taken
  BY <1>0, <1>4, <1>20, <1>21 DEF RP!EvaluateChunk
<1>23. /\ v \in {"ok", "PRIORITY_INVERSION"} => RP!Decide(Asked, seen[Asked], g, {}) = "ok"
       /\ v = "ok" => free = {}
       /\ v = "PRIORITY_INVERSION" => free # {}
       /\ v \in {"ok", "PRIORITY_INVERSION", "GATED", "DEPENDENCY_OPEN", "PR_CAP", "not_eligible"}
       /\ v \notin {"ok", "PRIORITY_INVERSION"} => RP!Decide(Asked, seen[Asked], g, {}) # "ok"
  BY <1>21, VerdictOfThePick
<1>5. \/ queue = {} /\ answer' = "ok" /\ taken' = Asked /\ ppc' = "done" /\ UNCHANGED queue
      \/ queue # {} /\ free = {} /\ queue' = queue \ S /\ UNCHANGED <<ppc, answer, taken>>
      \/ /\ queue # {} /\ free # {} /\ answer' = "PRIORITY_INVERSION" /\ taken' = RP!Best(free)
         /\ ppc' = "done" /\ UNCHANGED queue
      \/ /\ queue # {} /\ RP!Decide(Asked, seen[Asked], g, {}) # "ok" /\ ppc' = "done"
         /\ answer' \in {"GATED", "DEPENDENCY_OPEN", "PR_CAP", "not_eligible"} /\ UNCHANGED <<queue, taken>>
  BY <1>22, <1>23
<1>6. /\ S \subseteq queue /\ S \subseteq Issue /\ T \subseteq Issue /\ Asked \in T
      /\ \A i \in queue : /\ i \in Issue \ {Asked} /\ seen[i] \in RP!ShapeType
                          /\ RP!Tier(seen[i]) < RP!Tier(seen[Asked])
  BY <1>1, <1>2, <1>3, <1>4 DEF RP!NextChunk, RP!QueueIsAhead
<1>24. queue # {} => RP!ReadNative(T) /\ blind \subseteq blind' /\ blind' \subseteq Issue
  BY <1>1, <1>6, <1>22, EvaluateIs
<1>25. blind \subseteq blind' /\ blind' \subseteq Issue
  BY <1>1, <1>22, <1>24 DEF RP!PickTypeOK
<1>7. /\ native' \in [Issue -> {"yes", "no", "unread", "failed"}] /\ latch' \in BOOLEAN
      /\ \A i \in steady : native'[i] \in {"yes", "no"} => (native'[i] = "yes" <=> pool[i].native)
      /\ ~latch' => ~latch /\ \A i \in Issue : native'[i] # "failed"
  <2>1. CASE queue # {}
    BY <1>1, <1>6, <1>24, <2>1, NativeIsRead
  <2>2. CASE queue = {}
    <3>1. UNCHANGED <<native, latch>>
      BY <1>22, <2>2
    <3> QED BY <1>1, <3>1 DEF RP!PickTypeOK, RP!ReadsHold
  <2> QED BY <2>1, <2>2
<1>26. free \subseteq S
  BY <1>4 DEF RP!Free
<1>8. /\ \A i \in S \cap steady : RP!Takeable(pool[i]) /\ i \notin blind' => i \in free
      /\ ~latch' /\ blind' = {} => \A i \in free \cap steady : RP!Takeable(pool[i])
  <2>1. \A i \in S : seen[i] # NULL
    BY <1>6
  <2>2. {i \in S : RP!Candidate(seen[i])} \subseteq T
    BY <1>4
  <2>3. CASE queue # {}
    BY ONLY <1>1, <1>4, <1>6, <1>24, <2>1, <2>2, <2>3, FreeAsRead
  <2>4. CASE queue = {}
    BY <1>6, <1>26, <2>4
  <2> QED BY <2>3, <2>4
<1>9. /\ free \subseteq S /\ free \subseteq Issue
      /\ \A i \in Issue : RP!Takeable(pool[i])' = RP!Takeable(pool[i])
      /\ \A i \in steady \cap queue : seen[i] = pool[i]
      /\ \A i \in Issue : RP!Tier(pool[i]) \in Nat
      /\ RP!Tier(seen[Asked]) \in Nat /\ \A i \in queue : RP!Tier(seen[i]) \in Nat
  <2>1. \A i \in Issue : RP!Takeable(pool[i])' = RP!Takeable(pool[i])
    BY <1>3 DEF RP!Takeable
  <2>2. \A i \in steady \cap queue : seen[i] = pool[i]
    BY <1>1, <1>6 DEF RP!ReadsHold
  <2>3. /\ \A i \in Issue : RP!Tier(pool[i]) \in Nat
        /\ RP!Tier(seen[Asked]) \in Nat /\ \A i \in queue : RP!Tier(seen[i]) \in Nat
    BY <1>2, <1>6, TierIsNat
  <2> QED BY <1>6, <1>26, <2>1, <2>2, <2>3
<1>10. \A i \in steady \ (blind' \cup {Asked}) :
          RP!Takeable(pool[i]) /\ RP!Tier(pool[i]) < RP!Tier(seen[Asked]) => i \in queue
  BY <1>1, <1>3, <1>25 DEF RP!QueueIsAhead
<1>11. RP!Queried' \subseteq RP!Queried => RP!ReadsHold'
  <2>1. ASSUME RP!Queried' \subseteq RP!Queried PROVE RP!ReadsHold'
    <3>1. \A i \in steady : pool[i].kind \notin RP!Queried' \ RP!Queried
      BY <2>1
    <3>2. \A i \in steady : /\ light'[i] \in {NULL, pool[i]} /\ seen'[i] \in {NULL, pool[i]}
                            /\ light[i] # NULL => light'[i] # NULL
                            /\ seen[i] # NULL => seen'[i] # NULL
      BY <1>1, <1>3 DEF RP!ReadsHold
    <3> QED BY <1>3, <1>7, <3>1, <3>2, ReadsKept
  <2> QED BY <2>1
<1>12. CASE queue # {} /\ free = {} /\ queue' = queue \ S /\ UNCHANGED <<ppc, answer, taken>>
  <2>1. RP!PickTypeOK'
    BY <1>1, <1>2, <1>3, <1>7, <1>12, <1>25 DEF RP!PickTypeOK
  <2>2. RP!ReadsHold'
    <3>1. RP!Queried' = RP!Queried
      BY <1>12 DEF RP!Queried
    <3> QED BY <1>11, <3>1
  <2>3. RP!PickIsRead'
    <3>1. RP!Takeable(pool[Asked])' = RP!Takeable(pool[Asked])
      BY <1>9
    <3> QED BY <1>1, <1>2, <1>3, <1>7, <1>12, <3>1 DEF RP!PickIsRead
  <2>4. RP!QueueIsAhead'
    <3>1. \A i \in queue' : i # Asked /\ seen'[i] # NULL /\ RP!Tier(seen[i])' < RP!Tier(seen[Asked])'
      <4>1. RP!Tier(seen[Asked])' = RP!Tier(seen[Asked]) /\ \A i \in Issue : RP!Tier(seen[i])' = RP!Tier(seen[i])
        BY <1>3
      <4> QED BY <1>3, <1>6, <1>12, <4>1
    <3>2. ASSUME NEW i \in steady \ (blind' \cup {Asked}), RP!Takeable(pool[i]), RP!Tier(pool[i]) < RP!Tier(seen[Asked])
          PROVE  i \in queue'
      <4>1. i \in queue
        BY <1>10, <3>2
      <4>2. i \notin S
        BY <1>8, <1>12, <3>2
      <4> QED BY <1>12, <4>1, <4>2
    <3>3. \A i \in steady' \ (blind' \cup {Asked}) :
             RP!Takeable(pool[i])' /\ RP!Tier(pool[i])' < RP!Tier(seen[Asked])' => i \in queue'
      <4>1. RP!Tier(seen[Asked])' = RP!Tier(seen[Asked]) /\ \A i \in Issue : RP!Tier(pool[i])' = RP!Tier(pool[i])
        BY <1>3
      <4> QED BY <1>2, <1>3, <1>9, <3>2, <4>1
    <3> QED BY <3>1, <3>3 DEF RP!QueueIsAhead
  <2>5. RP!FastIsFull' /\ RP!NoInversion'
    BY <1>2, <1>3, <1>12 DEF RP!FastIsFull, RP!NoInversion
  <2> QED BY <2>1, <2>2, <2>3, <2>4, <2>5 DEF RP!PickInv
<1>13. ASSUME ppc' = "done" PROVE RP!ReadsHold' /\ RP!PickIsRead' /\ RP!QueueIsAhead'
  <2>1. RP!Queried' = {}
    BY <1>13 DEF RP!Queried
  <2>2. RP!PickIsRead' /\ RP!QueueIsAhead'
    BY <1>13 DEF RP!PickIsRead, RP!QueueIsAhead
  <2> QED BY <1>11, <2>1, <2>2
<1>14. PICK B : B = {i \in Issue \ {Asked} : RP!Takeable(pool[i]) /\ RP!Tier(pool[i]) < RP!Tier(pool[Asked])}
  OBVIOUS
<1>15. ASSUME steady = Issue, ~latch', blind' = {}
       PROVE  RP!Reference' = IF B # {} THEN "PRIORITY_INVERSION" ELSE "ok"
  <2>1. B = {i \in Issue \ {Asked} : RP!Takeable(pool[i]) /\ RP!Tier(pool[i]) < RP!Tier(pool[Asked])}'
    BY <1>3, <1>9, <1>14
  <2>2. PICK h \in BOOLEAN : h = RP!Gated(pool[Asked], pool[Asked].met, pool[Asked].native)
    BY DEF RP!Gated
  <2>3. RP!Reference' = RP!Decide(Asked, pool[Asked], h, B)
    BY <1>3, <2>1, <2>2 DEF RP!Reference, RP!Decide
  <2>4. RP!Takeable(pool[Asked])
    BY <1>1, <1>2, <1>3, <1>7, <1>15 DEF RP!PickIsRead
  <2>5. RP!Decide(Asked, pool[Asked], h, {}) = "ok"
    BY <2>2, <2>4, VerdictOfThePick DEF RP!Takeable
  <2> QED BY <2>3, <2>5, VerdictOfThePick
<1>16. steady = Issue => seen[Asked] = pool[Asked]
  BY <1>1, <1>2 DEF RP!ReadsHold
<1>17. CASE queue = {} /\ answer' = "ok" /\ taken' = Asked /\ ppc' = "done" /\ UNCHANGED queue
  <2>1. RP!PickTypeOK'
    BY <1>1, <1>2, <1>3, <1>7, <1>17, <1>25 DEF RP!PickTypeOK, RP!Answers
  <2>2. \A i \in steady \ (blind' \cup {Asked}) : RP!Takeable(pool[i]) => RP!Tier(seen[Asked]) <= RP!Tier(pool[i])
    BY <1>2, <1>9, <1>10, <1>17
  <2>3. RP!NoInversion'
    <3>1. RP!Tier(seen[taken])' = RP!Tier(seen[Asked]) /\ \A i \in Issue : RP!Tier(pool[i])' = RP!Tier(pool[i])
      BY <1>3, <1>17
    <3> QED BY <1>2, <1>3, <1>9, <1>17, <2>2, <3>1 DEF RP!NoInversion
  <2>4. RP!FastIsFull'
    <3>1. ASSUME steady = Issue, ~latch', blind' = {} PROVE B = {}
      <4>1. ASSUME NEW i \in B PROVE FALSE
        <5>1. /\ i \in steady \ (blind' \cup {Asked}) /\ RP!Takeable(pool[i]) /\ i \in Issue
              /\ RP!Tier(pool[i]) < RP!Tier(seen[Asked])
          BY <1>14, <1>16, <3>1, <4>1
        <5>2. RP!Tier(seen[Asked]) <= RP!Tier(pool[i])
          BY <2>2, <5>1
        <5> QED BY ONLY <1>9, <5>1, <5>2
      <4> QED BY <4>1
    <3> QED BY <1>3, <1>15, <1>17, <3>1 DEF RP!FastIsFull
  <2> QED BY <1>13, <1>17, <2>1, <2>3, <2>4 DEF RP!PickInv
<1>18. CASE /\ queue # {} /\ free # {} /\ answer' = "PRIORITY_INVERSION" /\ taken' = RP!Best(free)
            /\ ppc' = "done" /\ UNCHANGED queue
  <2>1. /\ taken' \in free
        /\ \A j \in free \ {taken'} : RP!SortsBefore(taken', seen[taken'], j, seen[j])
    <3>1. \A i \in free : seen[i] \in RP!ShapeType
      BY <1>6, <1>9
    <3> QED BY <1>9, <1>18, <3>1, BestIsBest
  <2>2. RP!PickTypeOK'
    BY <1>1, <1>2, <1>3, <1>7, <1>9, <1>18, <1>25, <2>1 DEF RP!PickTypeOK, RP!Answers
  <2>3. RP!NoInversion'
    BY <1>18 DEF RP!NoInversion
  <2>4. ASSUME steady = Issue, ~latch', blind' = {} PROVE B # {}
    <3>1. taken' \in Issue \ {Asked} /\ taken' \in queue /\ RP!Takeable(pool[taken'])
      BY <1>6, <1>8, <1>9, <2>1, <2>4
    <3>2. RP!Tier(pool[taken']) < RP!Tier(pool[Asked])
      BY <1>6, <1>9, <1>16, <2>4, <3>1
    <3> QED BY <1>14, <3>1, <3>2
  <2>5. ASSUME steady = Issue, ~latch', blind' = {}, NEW i \in Issue \ {Asked, taken'}, RP!Takeable(pool[i])
        PROVE  RP!SortsBefore(taken', pool[taken'], i, pool[i])
    <3>1. /\ taken' \in queue /\ taken' \in S /\ seen[taken'] = pool[taken']
          /\ RP!Tier(pool[taken']) < RP!Tier(pool[Asked])
      BY <1>6, <1>9, <1>16, <2>1, <2>5
    <3>2. CASE i \in S
      <4>1. i \in free /\ seen[i] = pool[i]
        BY <1>6, <1>8, <1>9, <2>5, <3>2
      <4> QED BY <2>1, <2>5, <3>1, <4>1
    <3>3. CASE i \in queue \ S
      <4>1. seen[i] = pool[i]
        BY <1>9, <2>5, <3>3
      <4>2. \A k \in queue : seen[k] \in RP!ShapeType
        BY <1>6
      <4>3. RP!SortsBefore(taken', seen[taken'], i, seen[i])
        BY <1>2, <1>4, <3>1, <3>3, <4>2, ChunkIsAhead
      <4> QED BY <3>1, <4>1, <4>3
    <3>4. CASE i \notin queue
      <4>1. ~(RP!Tier(pool[i]) < RP!Tier(pool[Asked]))
        BY <1>10, <1>16, <2>5, <3>4
      <4>2. taken' \in Issue
        BY <1>9, <2>1
      <4> QED BY <1>9, <3>1, <4>1, <4>2 DEF RP!SortsBefore
    <3> QED BY <1>6, <3>2, <3>3, <3>4
  <2>6. RP!FastIsFull'
    <3>1. ASSUME steady = Issue, ~latch', blind' = {}
          PROVE \A i \in Issue \ {Asked, taken'} :
                  RP!Takeable(pool[i])' => RP!SortsBefore(taken, pool[taken], i, pool[i])'
      <4>1. \A i \in Issue : RP!SortsBefore(taken, pool[taken], i, pool[i])'
                               <=> RP!SortsBefore(taken', pool[taken'], i, pool[i])
        BY <1>3 DEF RP!SortsBefore
      <4> QED BY <1>9, <2>5, <3>1, <4>1
    <3> QED BY <1>3, <1>15, <1>18, <2>4, <3>1 DEF RP!FastIsFull
  <2> QED BY <1>13, <1>18, <2>2, <2>3, <2>6 DEF RP!PickInv
<1>19. CASE /\ queue # {} /\ RP!Decide(Asked, seen[Asked], g, {}) # "ok" /\ ppc' = "done"
            /\ answer' \in {"GATED", "DEPENDENCY_OPEN", "PR_CAP", "not_eligible"} /\ UNCHANGED <<queue, taken>>
  <2>1. RP!PickTypeOK'
    BY <1>1, <1>2, <1>3, <1>7, <1>19, <1>25 DEF RP!PickTypeOK, RP!Answers
  <2>2. RP!NoInversion'
    BY <1>19 DEF RP!NoInversion
  <2>3. ~(steady = Issue /\ ~latch' /\ blind' = {})
    <3> SUFFICES ASSUME steady = Issue, ~latch', blind' = {} PROVE FALSE
      OBVIOUS
    <3>1. RP!Takeable(pool[Asked]) /\ seen[Asked] = pool[Asked] /\ Asked \in steady
      BY <1>1, <1>2, <1>3, <1>7, <1>16 DEF RP!PickIsRead
    <3>2. ~g
      BY <1>1, <1>6, <1>19, <1>20, <1>24, <3>1, GatedAsRead
    <3>3. RP!Eligible(seen[Asked]) /\ ~(capped /\ seen[Asked].kind = "new")
      BY <3>1 DEF RP!Takeable
    <3> QED BY <1>19, <3>2, <3>3, VerdictOfThePick
  <2>4. RP!FastIsFull'
    BY <1>3, <2>3 DEF RP!FastIsFull
  <2> QED BY <1>13, <1>19, <2>1, <2>2, <2>4 DEF RP!PickInv
<1> QED BY <1>5, <1>12, <1>17, <1>18, <1>19

LEMMA PickRests == RP!PickInv /\ UNCHANGED pickVars => RP!PickInv'
<1> SUFFICES ASSUME RP!PickInv, UNCHANGED pickVars PROVE RP!PickInv'
  OBVIOUS
<1>1. /\ pool' = pool /\ pickMode' = pickMode /\ capped' = capped /\ light' = light /\ seen' = seen
      /\ steady' = steady /\ poolMoves' = poolMoves /\ taken' = taken /\ native' = native /\ latch' = latch
      /\ ppc' = ppc /\ queue' = queue /\ answer' = answer /\ blind' = blind
  BY DEF pickVars
<1>2. /\ RP!PickTypeOK' /\ RP!ReadsHold'
  BY <1>1 DEF RP!PickInv, RP!PickTypeOK, RP!ReadsHold, RP!Queried
<1>3. /\ RP!PickIsRead' /\ RP!QueueIsAhead'
  BY <1>1 DEF RP!PickInv, RP!PickIsRead, RP!QueueIsAhead, RP!Takeable
<1>4. RP!FastIsFull' /\ RP!NoInversion'
  BY <1>1 DEF RP!PickInv, RP!FastIsFull, RP!NoInversion, RP!Takeable, RP!Reference, RP!Decide
<1> QED BY <1>2, <1>3, <1>4 DEF RP!PickInv

LEMMA PickGoes == RP!PickInv /\ (RP!PickNext \/ UNCHANGED pickVars) => RP!PickInv'
<1>1. RP!PickInv /\ RP!PickNext => RP!PickInv'
  <2>1. ASSUME RP!PickInv, RP!LoadNew PROVE RP!PickInv'
    BY <2>1, LoadKeeps DEF RP!LoadNew
  <2>2. ASSUME RP!PickInv, RP!LoadRework PROVE RP!PickInv'
    BY <2>2, LoadKeeps DEF RP!LoadRework
  <2> QED BY <2>1, <2>2, FastPickKeeps, DetailsKeep, ChunkKeeps, SelectKeeps, PoolMovesKeep
             DEF RP!PickNext
<1> QED BY <1>1, PickRests

-----------------------------------------------------------------------------
(* The types of the two whose invariants above say more than types.         *)

(* RespawnIdle: epochs and sessions are counted by the moves, and a route   *)
(* holds what the slot or the request had.                                  *)
RouteTyped(route) == route.pin \in RI!Pins /\ route.prompts \in 0 .. MaxPrompts
RoutesOK == \A r \in RI!Route : RouteTyped(routes[r])
RequestOK == request # NULL => request.epoch \in 0 .. MaxMoves /\ request.session \in 0 .. MaxMoves
SlotOK ==
    /\ slot \in RI!Slots /\ moves \in 0 .. MaxMoves /\ slot.epoch <= moves /\ slot.session <= moves
    /\ launches \in 0 .. MaxLaunches /\ crashes \in 0 .. MaxRespawnCrash
PaneOK ==
    /\ pane \in {"agent", "exiting", "shell", "booting"} /\ sendLock \in RI!Route \cup {NULL}
    /\ health \in {"off", "seen", "boot"}

LEMMA RespawnParts == RI!RespawnInv => (RI!RespawnTypeOK <=> RoutesOK /\ RequestOK /\ SlotOK /\ PaneOK)
<1> SUFFICES ASSUME RI!RespawnInv PROVE RI!RespawnTypeOK <=> RoutesOK /\ RequestOK /\ SlotOK /\ PaneOK
  OBVIOUS
<1> USE RespawnAssumption
<1>1. RI!RespawnShape /\ RI!ExitsRecorded
  BY DEF RI!RespawnInv
<1>2. \A r \in RI!Route : routes[r].pc \in RI!RoutePc /\ routes[r].marked \in BOOLEAN
  BY <1>1 DEF RI!RespawnShape, RI!Course
<1>3. ASSUME request # NULL
      PROVE  /\ request \in [id : Nat, epoch : Nat, session : Nat, resumed : BOOLEAN, attempted : BOOLEAN]
             /\ request.id \in 1 .. MaxRequests
  BY <1>1, <1>3 DEF RI!RespawnShape, RI!ExitsRecorded
<1>4. request \in RI!Pending \cup {NULL} <=> RequestOK
  <2>1. CASE request = NULL
    BY <2>1 DEF RequestOK
  <2>2. CASE request # NULL
    BY <1>3, <2>2 DEF RequestOK, RI!Pending
  <2> QED BY <2>1, <2>2
<1> QED BY <1>1, <1>2, <1>4 DEF RI!RespawnShape, RI!RespawnTypeOK, RoutesOK, RouteTyped, SlotOK, PaneOK

LEMMA RespawnTypesStart == RI!RespawnInit => RI!RespawnTypeOK
<1> SUFFICES ASSUME RI!RespawnInit PROVE RI!RespawnTypeOK
  OBVIOUS
<1> USE RespawnAssumption
<1>1. RI!RespawnInv
  BY RespawnInit
<1>2. RoutesOK
  <2>1. \A r \in RI!Route : routes[r] = RI!NoRoute
    BY DEF RI!RespawnInit
  <2>2. RI!NoRoute.pin \in RI!Pins /\ RI!NoRoute.prompts = 0
    BY DEF RI!NoRoute, RI!Pins
  <2> QED BY <2>1, <2>2 DEF RoutesOK, RouteTyped
<1>3. RequestOK /\ SlotOK /\ PaneOK
  BY DEF RI!RespawnInit, RequestOK, SlotOK, PaneOK, RI!Slots
<1> QED BY <1>1, <1>2, <1>3, RespawnParts

LEMMA RequestTyped ==
  ASSUME RI!RespawnInv, RoutesOK, RequestOK, SlotOK, RI!RespawnNext \/ UNCHANGED respawnVars PROVE RequestOK'
<1> USE RespawnAssumption
<1>1. request # NULL => request = [id |-> request.id, epoch |-> request.epoch, session |-> request.session,
                                   resumed |-> request.resumed, attempted |-> request.attempted]
  BY DEF RI!RespawnInv, RI!RespawnShape
<1>2. ASSUME \/ request' \in {request, NULL}
             \/ /\ request # NULL
                /\ request' \in {[request EXCEPT !.resumed = TRUE], [request EXCEPT !.attempted = TRUE]}
      PROVE  RequestOK'
  BY <1>1, <1>2 DEF RequestOK
<1>3. CASE RI!Schedule
  <2>1. request'.epoch = slot.epoch /\ request'.session = slot.session
    BY <1>3 DEF RI!Schedule
  <2> QED BY <2>1 DEF SlotOK, RI!Slots, RequestOK
<1>4. ASSUME NEW r \in RI!Route, RI!RouteEntered(r) \/ RI!PaneLooked(r) \/ RI!Paste(r) \/ RI!Enter(r)
                                 \/ RI!ExitWaited(r) \/ RI!Launch(r) \/ RI!BootWaited(r)
      PROVE  RequestOK'
  <2>1. request' \in {request, NULL}
    BY <1>4 DEF RI!RouteEntered, RI!PaneLooked, RI!Paste, RI!Enter, RI!ExitWaited, RI!Launch, RI!BootWaited,
       RI!Outcome
  <2> QED BY <1>2, <2>1
<1>5. ASSUME NEW r \in RI!Route, RI!Attempt(r) PROVE RequestOK'
  <2>1. request' \in {request, NULL} \/ request' = RI!RecordedAttempt
    BY <1>5 DEF RI!Attempt, RI!Outcome
  <2> QED BY <1>2, <2>1 DEF RI!RecordedAttempt
<1>6. CASE RI!Cancel \/ RI!Tick \/ RI!TickLooked("look", "busy") \/ RI!TickLooked("busy", "entry")
           \/ RI!DirectCall \/ RI!Boots
  <2>1. \/ request' \in {request, NULL}
        \/ request # NULL /\ request' = [request EXCEPT !.resumed = TRUE]
    BY <1>6 DEF RI!Cancel, RI!Tick, RI!TickLooked, RI!DirectCall, RI!Boots
  <2> QED BY <1>2, <2>1
<1>7. CASE \/ RI!HealthSees \/ RI!HealthLaunches \/ RI!HealthWaited \/ RI!CooldownEnds \/ RI!AgentExits
           \/ RI!AgentDies \/ RI!Prompt \/ RI!Stop \/ RI!SlotMoves \/ RI!Crash \/ UNCHANGED respawnVars
  <2>1. request' = request
    BY <1>7 DEF RI!HealthSees, RI!HealthLaunches, RI!HealthWaited, RI!CooldownEnds, RI!AgentExits,
       RI!AgentDies, RI!Prompt, RI!Stop, RI!SlotMoves, RI!Crash, respawnVars
  <2> QED BY <1>2, <2>1
<1> QED BY <1>3, <1>4, <1>5, <1>6, <1>7 DEF RI!RespawnNext

LEMMA RoutesTyped ==
  ASSUME RI!RespawnInv, RoutesOK, RequestOK, SlotOK, RI!RespawnNext \/ UNCHANGED respawnVars PROVE RoutesOK'
<1> USE RespawnAssumption
<1>0. routes \in [RI!Route -> RI!Course] /\ "tick" \in RI!Route /\ "direct" \in RI!Route
  BY DEF RI!RespawnInv, RI!RespawnShape, RI!Route
<1>1. RouteTyped(RI!NoRoute)
  BY DEF RI!NoRoute, RI!Pins, RouteTyped
<1>2. ASSUME NEW r \in RI!Route, NEW rec, RouteTyped(rec), routes' = [routes EXCEPT ![r] = rec] PROVE RoutesOK'
  <2>1. \A q \in RI!Route : routes'[q] \in {rec, routes[q]}
    BY <1>0, <1>2
  <2> QED BY <1>2, <2>1 DEF RoutesOK
<1>3. ASSUME NEW r \in RI!Route, NEW pc, RI!Go(r, pc) PROVE RoutesOK'
  <2>1. \A q \in RI!Route : routes'[q].pin = routes[q].pin /\ routes'[q].prompts = routes[q].prompts
    BY <1>0, <1>3 DEF RI!Go, RI!Course
  <2> QED BY <2>1 DEF RoutesOK, RouteTyped
<1>4. ASSUME NEW r \in RI!Route, routes' = [routes EXCEPT ![r] = RI!NoRoute] PROVE RoutesOK'
  BY <1>1, <1>2, <1>4
<1>5. ASSUME NEW r \in RI!Route, NEW kind, RI!Outcome(r, kind) PROVE RoutesOK'
  BY <1>4, <1>5 DEF RI!Outcome
<1>6. CASE UNCHANGED routes
  BY <1>6 DEF RoutesOK
<1>7. CASE RI!Tick
  <2> DEFINE rec == [RI!NoRoute EXCEPT !.pc = "look",
                       !.pin = [id |-> request.id, epoch |-> request.epoch, session |-> request.session]]
  <2>1. request.id \in 0 .. MaxRequests /\ request.epoch \in 0 .. MaxMoves /\ request.session \in 0 .. MaxMoves
    BY <1>7 DEF RI!Tick, RequestOK, RI!RespawnInv, RI!ExitsRecorded, RI!RespawnShape
  <2>2. rec.pin = [id |-> request.id, epoch |-> request.epoch, session |-> request.session] /\ rec.prompts = 0
    BY DEF RI!NoRoute
  <2>3. routes' = [routes EXCEPT !["tick"] = rec]
    BY <1>7 DEF RI!Tick
  <2> HIDE DEF rec
  <2>4. RouteTyped(rec)
    BY <2>1, <2>2 DEF RouteTyped, RI!Pins
  <2> QED BY <1>0, <1>2, <2>3, <2>4
<1>8. ASSUME NEW pc, NEW next, RI!TickLooked(pc, next) PROVE RoutesOK'
  <2>1. RI!Go("tick", next) \/ routes' = [routes EXCEPT !["tick"] = RI!NoRoute]
    BY <1>8 DEF RI!TickLooked
  <2> QED BY <1>0, <1>3, <1>4, <2>1
<1>9. ASSUME NEW r \in RI!Route, RI!RouteEntered(r) PROVE RoutesOK'
  <2> DEFINE rec == [pc |-> "deliver", prompts |-> slot.prompts, marked |-> FALSE,
                     pin |-> IF r = "tick" THEN routes[r].pin
                             ELSE [id |-> 0, epoch |-> slot.epoch, session |-> slot.session]]
  <2>1. RI!Outcome(r, "retry") \/ routes' = [routes EXCEPT ![r] = rec]
    BY <1>9 DEF RI!RouteEntered
  <2>2. RouteTyped(rec)
    BY DEF RouteTyped, RoutesOK, SlotOK, RI!Slots, RI!Pins
  <2> HIDE DEF rec
  <2> QED BY <1>2, <1>5, <2>1, <2>2
<1>10. ASSUME NEW r \in RI!Route, RI!Attempt(r) PROVE RoutesOK'
  <2> DEFINE rec == [pc |-> "paste", pin |-> routes[r].pin, prompts |-> routes[r].prompts, marked |-> TRUE]
  <2>1. RI!Outcome(r, "retry") \/ RI!Outcome(r, "ok") \/ routes' = [routes EXCEPT ![r] = rec]
    BY <1>0, <1>10 DEF RI!Attempt
  <2>2. RouteTyped(rec)
    BY DEF RouteTyped, RoutesOK
  <2> HIDE DEF rec
  <2> QED BY <1>2, <1>5, <2>1, <2>2
<1>11. ASSUME NEW r \in RI!Route, RI!PaneLooked(r) \/ RI!Paste(r) \/ RI!Enter(r) \/ RI!ExitWaited(r)
                                  \/ RI!Launch(r) \/ RI!BootWaited(r)
       PROVE  RoutesOK'
  <2>1. (\E pc : RI!Go(r, pc)) \/ (\E kind : RI!Outcome(r, kind))
    BY <1>11 DEF RI!PaneLooked, RI!Paste, RI!Enter, RI!ExitWaited, RI!Launch, RI!BootWaited
  <2> QED BY <1>3, <1>5, <2>1
<1>12. CASE RI!Crash
  <2>1. \A r \in RI!Route : routes'[r] = RI!NoRoute
    BY <1>12 DEF RI!Crash
  <2> QED BY <1>1, <2>1 DEF RoutesOK
<1>13. CASE RI!DirectCall
  <2>1. RI!Go("direct", "entry")
    BY <1>13 DEF RI!DirectCall
  <2> QED BY <1>0, <1>3, <2>1
<1> QED BY <1>6, <1>7, <1>8, <1>9, <1>10, <1>11, <1>12, <1>13
        DEF RI!RespawnNext, RI!Schedule, RI!Cancel, RI!HealthSees, RI!HealthLaunches, RI!HealthWaited,
            RI!CooldownEnds, RI!AgentExits, RI!Boots, RI!AgentDies, RI!Prompt, RI!Stop, RI!SlotMoves, respawnVars

LEMMA SlotTyped ==
  ASSUME RI!RespawnInv, SlotOK, PaneOK, RI!RespawnNext \/ UNCHANGED respawnVars PROVE SlotOK' /\ PaneOK'
<1> USE RespawnAssumption
<1>0. /\ slot \in RI!Slots /\ moves \in 0 .. MaxMoves /\ slot.epoch <= moves /\ slot.session <= moves
      /\ launches \in 0 .. MaxLaunches /\ crashes \in 0 .. MaxRespawnCrash
      /\ pane \in {"agent", "exiting", "shell", "booting"} /\ sendLock \in RI!Route \cup {NULL}
      /\ health \in {"off", "seen", "boot"}
  BY DEF SlotOK, PaneOK
<1>1. ASSUME UNCHANGED <<slot, moves, crashes>>, launches' \in 0 .. MaxLaunches PROVE SlotOK'
  BY <1>0, <1>1 DEF SlotOK
<1>2. CASE RI!Schedule \/ RI!Cancel \/ RI!Tick \/ RI!TickLooked("look", "busy") \/ RI!TickLooked("busy", "entry")
           \/ RI!DirectCall \/ RI!HealthSees \/ RI!CooldownEnds \/ RI!AgentExits \/ RI!Boots \/ UNCHANGED respawnVars
  <2>1. /\ UNCHANGED <<slot, moves, launches, crashes, sendLock>>
        /\ pane' \in {pane, "shell", "agent"} /\ health' \in {health, "seen"}
    BY <1>2 DEF RI!Schedule, RI!Cancel, RI!Tick, RI!TickLooked, RI!DirectCall, RI!HealthSees, RI!CooldownEnds,
       RI!AgentExits, RI!Boots, RI!world, RI!counts, respawnVars
  <2> QED BY <1>0, <1>1, <2>1 DEF PaneOK
<1>3. ASSUME NEW r \in RI!Route, RI!RouteEntered(r) \/ RI!PaneLooked(r) \/ RI!Attempt(r) \/ RI!Paste(r)
                                 \/ RI!Enter(r) \/ RI!ExitWaited(r) \/ RI!Launch(r) \/ RI!BootWaited(r)
      PROVE  SlotOK' /\ PaneOK'
  <2>1. UNCHANGED <<slot, moves, crashes, health>>
    BY <1>3 DEF RI!RouteEntered, RI!PaneLooked, RI!Attempt, RI!Paste, RI!Enter, RI!ExitWaited, RI!Launch,
       RI!BootWaited, RI!world, RI!counts
  <2>2. launches' = launches \/ (launches < MaxLaunches /\ launches' = launches + 1)
    BY <1>3 DEF RI!RouteEntered, RI!PaneLooked, RI!Attempt, RI!Paste, RI!Enter, RI!ExitWaited, RI!Launch,
       RI!BootWaited, RI!Typed, RI!world
  <2>3. pane' \in {pane, "exiting", "booting"}
    BY <1>3 DEF RI!RouteEntered, RI!PaneLooked, RI!Attempt, RI!Paste, RI!Enter, RI!ExitWaited, RI!Launch,
       RI!BootWaited, RI!Typed, RI!world
  <2>4. sendLock' \in {sendLock, NULL, r}
    BY <1>3 DEF RI!RouteEntered, RI!PaneLooked, RI!Attempt, RI!Paste, RI!Enter, RI!ExitWaited, RI!Launch,
       RI!BootWaited, RI!Outcome
  <2> QED BY <1>0, <1>1, <2>1, <2>2, <2>3, <2>4 DEF PaneOK
<1>4. CASE RI!HealthLaunches \/ RI!HealthWaited \/ RI!AgentDies
  <2>1. /\ UNCHANGED <<slot, crashes, sendLock>> /\ pane' \in {pane, "booting", "shell"}
        /\ health' \in {health, "off", "boot"}
        /\ launches' = launches \/ (launches < MaxLaunches /\ launches' = launches + 1)
        /\ moves' = moves \/ (moves < MaxMoves /\ moves' = moves + 1)
    BY <1>4 DEF RI!HealthLaunches, RI!HealthWaited, RI!AgentDies, RI!Typed, RI!world, RI!counts
  <2> QED BY <1>0, <2>1 DEF SlotOK, PaneOK, RI!Slots
<1>5. CASE RI!Prompt \/ RI!Stop
  <2>1. UNCHANGED <<moves, launches, crashes, pane, sendLock, health>>
    BY <1>5 DEF RI!Prompt, RI!Stop, RI!counts
  <2>2. slot = [epoch |-> slot.epoch, session |-> slot.session, prompts |-> slot.prompts, open |-> slot.open]
        /\ slot.epoch \in 0 .. MaxMoves /\ slot.session \in 0 .. MaxMoves /\ slot.prompts \in 0 .. MaxPrompts
    BY <1>0 DEF RI!Slots
  <2>3. PICK n \in 0 .. MaxPrompts, b \in BOOLEAN :
          slot' = [epoch |-> slot.epoch, session |-> slot.session, prompts |-> n, open |-> b]
    <3>1. CASE RI!Prompt
      <4>1. slot.prompts + 1 \in 0 .. MaxPrompts
        BY <2>2, <3>1 DEF RI!Prompt
      <4> QED BY <3>1, <4>1 DEF RI!Prompt
    <3>2. CASE RI!Stop
      <4>1. slot' = [slot EXCEPT !.open = FALSE]
        BY <3>2 DEF RI!Stop
      <4>2. slot' = [epoch |-> slot.epoch, session |-> slot.session, prompts |-> slot.prompts, open |-> FALSE]
        BY <2>2, <4>1
      <4> QED BY <2>2, <4>2
    <3> QED BY <1>5, <3>1, <3>2
  <2>4. slot' \in RI!Slots /\ slot'.epoch = slot.epoch /\ slot'.session = slot.session
    BY <2>2, <2>3 DEF RI!Slots
  <2> QED BY <1>0, <2>1, <2>4 DEF SlotOK, PaneOK
<1>6. CASE RI!SlotMoves
  <2>1. /\ UNCHANGED <<launches, crashes, pane, sendLock, health>>
        /\ moves < MaxMoves /\ moves' = moves + 1
        /\ \/ slot' = [slot EXCEPT !.epoch = @ + 1]
           \/ slot' = [slot EXCEPT !.session = @ + 1]
    BY <1>6 DEF RI!SlotMoves, RI!counts
  <2>2. slot' \in RI!Slots /\ slot'.epoch <= moves' /\ slot'.session <= moves'
    BY <1>0, <2>1 DEF RI!Slots
  <2> QED BY <1>0, <2>1, <2>2 DEF SlotOK, PaneOK
<1>7. CASE RI!Crash
  BY <1>0, <1>7 DEF RI!Crash, SlotOK, PaneOK
<1> QED BY <1>2, <1>3, <1>4, <1>5, <1>6, <1>7 DEF RI!RespawnNext

LEMMA RespawnTypesGo ==
  ASSUME RI!RespawnInv, RI!RespawnInv', RI!RespawnTypeOK, RI!RespawnNext \/ UNCHANGED respawnVars
  PROVE  RI!RespawnTypeOK'
<1>1. RoutesOK /\ RequestOK /\ SlotOK /\ PaneOK
  BY RespawnParts
<1>2. RoutesOK' /\ RequestOK' /\ SlotOK' /\ PaneOK'
  BY <1>1, RequestTyped, RoutesTyped, SlotTyped
<1>3. (RI!RespawnInv => (RI!RespawnTypeOK <=> RoutesOK /\ RequestOK /\ SlotOK /\ PaneOK))'
  BY RespawnParts, PTL
<1> QED BY <1>2, <1>3

(* PMQueue: what a job has is one of the stamps, and the rows of a drain    *)
(* are the oldest first of at most two and of at most one.                  *)
JobOK == job # NULL =>
    /\ job.pc \in {"pane", "next", "look", "mark", "deliver", "send", "key"}
    /\ job.left \in Seq(PQ!Stamp) /\ job.at \in 0 .. MaxStamp
ChainOK ==
    runtime \in {"omp", "claude"} /\ restarts \in 0 .. MaxQueueCrash /\ Len(chain) <= MaxJobs

LEMMA QueuedIsTyped == PQ!QueuedJob \subseteq PQ!JobType
<1> USE QueueAssumption
<1>1. <<>> \in Seq(PQ!Stamp) /\ 0 \in 0 .. MaxStamp /\ PQ!Stamp \subseteq 0 .. MaxStamp
  BY DEF PQ!Stamp
<1>2. PQ!Drain \in PQ!JobType
  BY <1>1 DEF PQ!JobType, PQ!Drain
<1>3. ASSUME NEW n \in PQ!Stamp, NEW b \in BOOLEAN PROVE PQ!Deliver(n, b) \in PQ!JobType
  BY <1>1, <1>3 DEF PQ!JobType, PQ!Deliver
<1> QED BY <1>2, <1>3 DEF PQ!QueuedJob

LEMMA QueueParts == PQ!QueueInv => (PQ!QueueTypeOK <=> JobOK /\ ChainOK)
<1> SUFFICES ASSUME PQ!QueueInv PROVE PQ!QueueTypeOK <=> JobOK /\ ChainOK
  OBVIOUS
<1> USE QueueAssumption
<1>1. PQ!QueueShape /\ PQ!AttemptsJournalled
  BY DEF PQ!QueueInv
<1>2. /\ queueRows \in [PQ!Types -> 0 .. MaxStamp] /\ pasted \in [PQ!Stamp -> 0 .. 2]
      /\ type \in [PQ!Stamp -> PQ!Types \cup {NULL}] /\ queueMark \in [PQ!Stamp -> PQ!Marks]
      /\ last \in 0 .. MaxStamp /\ due \in BOOLEAN
      /\ tick \in [of : {"none", "cadence", "reminder"}, heard : {"nothing", "ok", "refused"}]
  <2>1. last \in 0 .. MaxStamp /\ queueRows \in [PQ!Types -> 0 .. last] /\ pasted \in [PQ!Stamp -> Nat]
    BY <1>1 DEF PQ!QueueShape
  <2>2. \A n \in PQ!Stamp : pasted[n] \in 0 .. 2
    BY <1>1, <2>1 DEF PQ!AttemptsJournalled
  <2> QED BY <1>1, <2>1, <2>2 DEF PQ!QueueShape
<1>3. \A i \in DOMAIN chain : chain[i] \in PQ!JobType
  <2>1. chain \in Seq(PQ!QueuedJob)
    BY <1>1 DEF PQ!QueueShape
  <2>2. \A i \in DOMAIN chain : chain[i] \in PQ!QueuedJob
    BY <2>1, ElementOfSeq
  <2> QED BY <2>2, QueuedIsTyped
<1>4. job \in PQ!JobType \cup {NULL} <=> JobOK
  <2>1. CASE job = NULL
    BY <2>1 DEF JobOK
  <2>2. CASE job # NULL
    <3>1. /\ job = [kind |-> job.kind, pc |-> job.pc, left |-> job.left, at |-> job.at, tick |-> job.tick]
          /\ job.kind \in {"drain", "deliver"} /\ job.tick \in BOOLEAN
      BY <1>1, <2>2 DEF PQ!QueueShape, PQ!Running
    <3> QED BY <2>2, <3>1 DEF JobOK, PQ!JobType
  <2> QED BY <2>1, <2>2
<1> QED BY <1>2, <1>3, <1>4 DEF PQ!QueueTypeOK, ChainOK

LEMMA QueueTypesStart == PQ!QueueInit => PQ!QueueTypeOK
<1> SUFFICES ASSUME PQ!QueueInit PROVE PQ!QueueTypeOK
  OBVIOUS
<1>1. JobOK /\ ChainOK
  BY QueueAssumption DEF PQ!QueueInit, JobOK, ChainOK
<1> QED BY <1>1, QueueInit, QueueParts

(* Of the state rows at most one is left, so that each part of a batch is a *)
(* sequence of the set's elements.                                          *)
LEMMA OldestOfFew ==
  ASSUME NEW a \in Nat, NEW b \in Nat, NEW S, S = {a, b} \ {0}
  PROVE  PQ!OldestFirst(S) \in Seq(S)
<1>0. \A T : PQ!Cardinality(T) = Cardinality(T)
  BY DEF PQ!Cardinality, Cardinality
<1> DEFINE Ordered(s) == \A i, j \in DOMAIN s : i < j => s[i] < s[j]
<1>1. ASSUME NEW n \in Nat, Cardinality(S) = n, \E s \in [1 .. n -> S] : Ordered(s)
      PROVE  PQ!OldestFirst(S) \in Seq(S)
  <2>1. PQ!OldestFirst(S) = CHOOSE s \in [1 .. n -> S] : Ordered(s)
    BY <1>0, <1>1 DEF PQ!OldestFirst
  <2>2. PQ!OldestFirst(S) \in [1 .. n -> S]
    BY <1>1, <2>1
  <2>3. PICK f : f = PQ!OldestFirst(S)
    OBVIOUS
  <2>4. f \in [1 .. n -> S]
    BY <2>2, <2>3
  <2>5. f \in Seq(S)
    <3> HIDE DEF Ordered
    <3>1. f \in UNION {[1 .. m -> S] : m \in Nat}
      BY <1>1, <2>4
    <3> QED BY <3>1, SeqDef, Zenon
  <2> QED BY <2>3, <2>5
<1>2. CASE S = {}
  <2>1. Cardinality(S) = 0
    BY <1>2, FS_EmptySet
  <2>2. [i \in 1 .. 0 |-> 0] \in [1 .. 0 -> S] /\ Ordered([i \in 1 .. 0 |-> 0])
    OBVIOUS
  <2> HIDE DEF Ordered
  <2> QED BY <1>1, <2>1, <2>2
<1>3. ASSUME NEW c \in Nat, S = {c} PROVE PQ!OldestFirst(S) \in Seq(S)
  <2>1. Cardinality(S) = 1
    BY <1>3, FS_Singleton
  <2>2. [i \in 1 .. 1 |-> c] \in [1 .. 1 -> S] /\ Ordered([i \in 1 .. 1 |-> c])
    BY <1>3
  <2> HIDE DEF Ordered
  <2> QED BY <1>1, <2>1, <2>2
<1>4. ASSUME NEW c \in Nat, NEW d \in Nat, c < d, S = {c, d} PROVE PQ!OldestFirst(S) \in Seq(S)
  <2>1. Cardinality(S) = 2
    <3>0. d \notin {c} /\ S = {c} \cup {d}
      BY <1>4
    <3>1. Cardinality({c}) = 1 /\ IsFiniteSet({c}) /\ d \notin {c} /\ S = {c} \cup {d}
      BY <3>0, FS_Singleton
    <3>2. Cardinality({c} \cup {d}) = Cardinality({c}) + 1
      BY <3>1, FS_AddElement
    <3> QED BY <3>1, <3>2
  <2>2. PICK s : s = [i \in 1 .. 2 |-> IF i = 1 THEN c ELSE d]
    OBVIOUS
  <2>3. s \in [1 .. 2 -> S]
    BY <1>4, <2>2
  <2>4. Ordered(s)
    BY <1>4, <2>2
  <2> HIDE DEF Ordered
  <2> QED BY <1>1, <2>1, <2>3, <2>4
<1>5. CASE a = 0 \/ b = 0
  <2>1. S = {} \/ S = {a} \/ S = {b}
    BY <1>5
  <2> QED BY <1>2, <1>3, <2>1
<1>6. CASE a # 0 /\ b # 0
  <2>1. S = {a, b} /\ S = {b, a}
    BY <1>6
  <2>2. a < b \/ b < a \/ a = b
    OBVIOUS
  <2>3. a = b => S = {a}
    BY <2>1
  <2> QED BY <1>3, <1>4, <2>1, <2>2, <2>3
<1> QED BY <1>5, <1>6

LEMMA BatchTyped == PQ!QueueInv => PQ!Batch(PQ!Coalesced) \in Seq(PQ!Stamp)
<1> SUFFICES ASSUME PQ!QueueInv PROVE PQ!Batch(PQ!Coalesced) \in Seq(PQ!Stamp)
  OBVIOUS
<1> USE QueueAssumption
<1>1. /\ last \in 0 .. MaxStamp /\ queueRows \in [PQ!Types -> 0 .. last]
      /\ SlotState \subseteq PQ!Types /\ {"cadence", "reminder"} \subseteq PQ!Types
  BY DEF PQ!QueueInv, PQ!QueueShape, PQ!Types
<1>2. PICK r : r = PQ!Coalesced
  OBVIOUS
<1>3. \A t \in PQ!Types : r[t] \in {0} \cup PQ!Stamp /\ r[t] \in Nat
  BY <1>1, <1>2 DEF PQ!Coalesced, PQ!Stamp
<1>4. \A t, u \in SlotState : r[t] # 0 /\ r[u] # 0 => t = u
  <2>1. ASSUME NEW t \in SlotState, NEW u \in SlotState, r[t] # 0, r[u] # 0 PROVE t = u
    <3>1. ~PQ!Beaten(t) /\ ~PQ!Beaten(u) /\ queueRows[t] # 0 /\ queueRows[u] # 0
      BY <1>1, <1>2, <2>1 DEF PQ!Coalesced
    <3>2. ~(PQ!Rank[u] < PQ!Rank[t]) /\ ~(PQ!Rank[t] < PQ!Rank[u])
      BY <3>1 DEF PQ!Beaten
    <3> QED BY <3>2 DEF PQ!Rank
  <2> QED BY <2>1
<1>5. PQ!OldestFirst({r["cadence"], r["reminder"]} \ {0}) \in Seq(PQ!Stamp)
  <2>1. PICK S : S = {r["cadence"], r["reminder"]} \ {0}
    OBVIOUS
  <2>2. PQ!OldestFirst(S) \in Seq(S) /\ S \subseteq PQ!Stamp
    BY <1>1, <1>3, <2>1, OldestOfFew
  <2>3. PQ!OldestFirst(S) \in Seq(PQ!Stamp)
    BY <2>2
  <2> QED BY <2>1, <2>3
<1>6. PQ!OldestFirst({r[t] : t \in SlotState} \ {0}) \in Seq(PQ!Stamp)
  <2>1. PICK S : S = {r[t] : t \in SlotState} \ {0}
    OBVIOUS
  <2>2. PICK a \in Nat : S = {a, 0} \ {0}
    <3>1. CASE \E t \in SlotState : r[t] # 0
      <4>1. PICK t \in SlotState : r[t] # 0
        BY <3>1
      <4>2. S = {r[t], 0} \ {0}
        BY <1>4, <2>1, <4>1
      <4> QED BY <1>1, <1>3, <4>1, <4>2
    <3>2. CASE ~\E t \in SlotState : r[t] # 0
      BY <2>1, <3>2
    <3> QED BY <3>1, <3>2
  <2>3. PQ!OldestFirst(S) \in Seq(S)
    BY <2>2, OldestOfFew
  <2>4. S \subseteq PQ!Stamp
    BY <1>1, <1>3, <2>1
  <2>5. PQ!OldestFirst(S) \in Seq(PQ!Stamp)
    BY <2>3, <2>4
  <2> QED BY <2>1, <2>5
<1> QED BY <1>2, <1>5, <1>6, ConcatProperties DEF PQ!Batch

LEMMA ChainTyped ==
  ASSUME PQ!QueueInv, ChainOK, PQ!QueueNext \/ UNCHANGED queueVars PROVE ChainOK'
<1> USE QueueAssumption
<1>1. /\ chain \in Seq(PQ!QueuedJob) /\ Len(chain) <= MaxJobs
      /\ runtime \in {"omp", "claude"} /\ restarts \in 0 .. MaxQueueCrash
  BY DEF ChainOK, PQ!QueueInv, PQ!QueueShape
<1>2. ASSUME NEW j, PQ!Push(j) PROVE Len(chain') <= MaxJobs
  BY <1>1, <1>2 DEF PQ!Push
<1>3. ASSUME NEW t, NEW same, NEW isTick, PQ!Submit(t, same, isTick) PROVE Len(chain') <= MaxJobs
  <2>1. chain' = chain \/ \E j : PQ!Push(j)
    BY <1>3 DEF PQ!Submit
  <2> QED BY <1>1, <1>2, <2>1
<1>4. ASSUME NEW t, PQ!SlotEvent(t) \/ PQ!StateSubmitted(t) PROVE ChainOK'
  <2>1. UNCHANGED <<runtime, restarts>>
    BY <1>4 DEF PQ!SlotEvent, PQ!StateSubmitted
  <2>2. \/ chain' = chain \/ (\E j : PQ!Push(j)) \/ \E u, same, isTick : PQ!Submit(u, same, isTick)
    BY <1>4 DEF PQ!SlotEvent, PQ!StateSubmitted
  <2> QED BY <1>1, <1>2, <1>3, <2>1, <2>2 DEF ChainOK
<1>5. CASE PQ!DrainAsked \/ PQ!CadenceTick \/ PQ!ReminderTick \/ PQ!TickEnds
  <2>1. UNCHANGED <<runtime, restarts>>
    BY <1>5 DEF PQ!DrainAsked, PQ!CadenceTick, PQ!ReminderTick, PQ!TickEnds
  <2>2. \/ chain' = chain \/ (\E j : PQ!Push(j)) \/ \E u, same, isTick : PQ!Submit(u, same, isTick)
    BY <1>5 DEF PQ!DrainAsked, PQ!CadenceTick, PQ!ReminderTick, PQ!TickEnds
  <2> QED BY <1>1, <1>2, <1>3, <2>1, <2>2 DEF ChainOK
<1>6. CASE PQ!JobStarts
  <2>1. UNCHANGED <<runtime, restarts>> /\ chain # <<>> /\ chain' = Tail(chain)
    BY <1>6 DEF PQ!JobStarts
  <2>2. Len(chain') = Len(chain) - 1
    BY <1>1, <2>1
  <2> QED BY <1>1, <2>1, <2>2 DEF ChainOK
<1>7. CASE \/ PQ!DrainReads \/ PQ!NextRow \/ PQ!CheckLooked \/ PQ!MarkRead \/ PQ!RowDelivered
           \/ PQ!Sent \/ PQ!KeySent \/ UNCHANGED queueVars
  <2>1. UNCHANGED <<runtime, restarts, chain>>
    BY <1>7 DEF PQ!DrainReads, PQ!NextRow, PQ!CheckLooked, PQ!MarkRead, PQ!RowDelivered, PQ!Sent,
       PQ!KeySent, queueVars
  <2> QED BY <2>1 DEF ChainOK
<1>8. CASE PQ!Restart
  BY <1>1, <1>8 DEF PQ!Restart, ChainOK
<1> QED BY <1>4, <1>5, <1>6, <1>7, <1>8 DEF PQ!QueueNext

LEMMA JobTyped ==
  ASSUME PQ!QueueInv, JobOK, PQ!QueueNext \/ UNCHANGED queueVars PROVE JobOK'
<1> USE QueueAssumption
<1>1. PQ!QueueShape /\ chain \in Seq(PQ!QueuedJob)
  BY DEF PQ!QueueInv, PQ!QueueShape
<1>2. ASSUME job # NULL, NEW pc \in {"pane", "next", "look", "mark", "deliver", "send", "key"}, PQ!Goto(pc)
      PROVE  JobOK'
  <2>1. job' = [kind |-> job.kind, pc |-> pc, left |-> job.left, at |-> job.at, tick |-> job.tick]
    BY <1>1, <1>2, JobGoes DEF PQ!Running
  <2>2. job'.pc = pc /\ job'.left = job.left /\ job'.at = job.at
    BY <2>1
  <2> QED BY <1>2, <2>2 DEF JobOK
<1>3. CASE job' = NULL
  BY <1>3 DEF JobOK
<1>4. CASE job' = job
  BY <1>4 DEF JobOK
<1>5. ASSUME job # NULL, NEW ok, PQ!Reply(ok) PROVE JobOK'
  <2>1. job' = NULL \/ PQ!Goto("next")
    BY <1>5 DEF PQ!Reply
  <2> QED BY <1>2, <1>3, <1>5, <2>1
<1>6. ASSUME NEW t, PQ!SlotEvent(t) \/ PQ!StateSubmitted(t) PROVE JobOK'
  <2>1. job' = job
    BY <1>6 DEF PQ!SlotEvent, PQ!StateSubmitted
  <2> QED BY <1>4, <2>1
<1>7. CASE \/ PQ!DrainAsked \/ PQ!CadenceTick \/ PQ!ReminderTick \/ PQ!TickEnds \/ PQ!Restart
           \/ UNCHANGED queueVars
  <2>1. job' \in {job, NULL}
    BY <1>7 DEF PQ!DrainAsked, PQ!CadenceTick, PQ!ReminderTick, PQ!TickEnds, PQ!Restart, queueVars
  <2> QED BY <1>3, <1>4, <2>1
<1>8. CASE PQ!JobStarts
  <2>1. chain # <<>> /\ job' = Head(chain)
    BY <1>8 DEF PQ!JobStarts
  <2>2. job' \in PQ!QueuedJob
    BY <1>1, <2>1, HeadTailProperties
  <2>3. job' \in PQ!JobType
    BY <2>2, QueuedIsTyped
  <2> QED BY <2>3 DEF JobOK, PQ!JobType
<1>9. CASE PQ!DrainReads
  <2>1. job # NULL /\ (job' = NULL \/ job' = [job EXCEPT !.pc = "next", !.left = PQ!Batch(PQ!Coalesced)])
    BY <1>9 DEF PQ!DrainReads
  <2>2. PICK l \in Seq(PQ!Stamp) : l = PQ!Batch(PQ!Coalesced)
    BY BatchTyped
  <2>3. job = [kind |-> job.kind, pc |-> job.pc, left |-> job.left, at |-> job.at, tick |-> job.tick]
    BY <1>1, <2>1 DEF PQ!QueueShape, PQ!Running
  <2>4. job' = NULL \/ (job'.pc = "next" /\ job'.left = l /\ job'.at = job.at)
    BY <2>1, <2>2, <2>3
  <2> QED BY <2>1, <2>4 DEF JobOK
<1>10. CASE PQ!NextRow
  <2>1. job # NULL /\ job.left \in Seq(PQ!Stamp)
    BY <1>10 DEF PQ!NextRow, JobOK
  <2>2. CASE job.left = <<>>
    BY <1>3, <1>10, <2>2 DEF PQ!NextRow
  <2>3. CASE job.left # <<>>
    <3>1. PICK l, a : l = Tail(job.left) /\ a = Head(job.left)
      OBVIOUS
    <3>2. l \in Seq(PQ!Stamp) /\ a \in PQ!Stamp
      BY <2>1, <2>3, <3>1, HeadTailProperties
    <3>3. job = [kind |-> job.kind, pc |-> job.pc, left |-> job.left, at |-> job.at, tick |-> job.tick]
      BY <1>1, <2>1 DEF PQ!QueueShape, PQ!Running
    <3>4. \E pc \in {"look", "mark"} : job' = [job EXCEPT !.at = a, !.left = l, !.pc = pc]
      BY <1>10, <2>3, <3>1 DEF PQ!NextRow
    <3>5. job'.pc \in {"look", "mark"} /\ job'.left = l /\ job'.at = a
      BY <3>3, <3>4
    <3>6. a \in 0 .. MaxStamp
      BY <3>2 DEF PQ!Stamp
    <3> QED BY <3>2, <3>5, <3>6 DEF JobOK
  <2> QED BY <2>2, <2>3
<1>11. CASE PQ!CheckLooked \/ PQ!MarkRead \/ PQ!RowDelivered \/ PQ!Sent \/ PQ!KeySent
  <2>1. job # NULL
    BY <1>11 DEF PQ!CheckLooked, PQ!MarkRead, PQ!RowDelivered, PQ!Sent, PQ!KeySent
  <2>2. (\E pc \in {"next", "mark", "deliver", "send", "key"} : PQ!Goto(pc)) \/ \E ok : PQ!Reply(ok)
    BY <1>11 DEF PQ!CheckLooked, PQ!MarkRead, PQ!RowDelivered, PQ!Sent, PQ!KeySent
  <2> QED BY <1>2, <1>5, <2>1, <2>2
<1> QED BY <1>6, <1>7, <1>8, <1>9, <1>10, <1>11 DEF PQ!QueueNext

LEMMA QueueTypesGo ==
  ASSUME PQ!QueueInv, PQ!QueueInv', PQ!QueueTypeOK, PQ!QueueNext \/ UNCHANGED queueVars
  PROVE  PQ!QueueTypeOK'
<1>1. JobOK /\ ChainOK
  BY QueueParts
<1>2. JobOK' /\ ChainOK'
  BY <1>1, JobTyped, ChainTyped
<1>3. (PQ!QueueInv => (PQ!QueueTypeOK <=> JobOK /\ ChainOK))'
  BY QueueParts, PTL
<1> QED BY <1>2, <1>3

-----------------------------------------------------------------------------
(* The programs together.                                                   *)
ServerInv ==
    /\ program = "queue" => PQ!QueueInv
    /\ program = "debt" => HD!DebtInv
    /\ program = "respawn" => RI!RespawnInv

ServerStep == RowsKeptStep /\ (program = "respawn" => RI!RestartIsDueStep)

LEMMA ServerStarts == WorkProgramsInit => ServerInv
<1> SUFFICES ASSUME WorkProgramsInit PROVE ServerInv
  OBVIOUS
<1>1. /\ program = "queue" => PQ!QueueInit
      /\ program = "debt" => HD!DebtInit
      /\ program = "respawn" => RI!RespawnInit
  BY DEF WorkProgramsInit
<1> QED BY <1>1, QueueInit, DebtInit, RespawnInit DEF ServerInv

(* A step of another program, or of none, leaves the three as they are.     *)
LEMMA QueueRests ==
  ASSUME PQ!QueueInv, UNCHANGED queueVars PROVE PQ!QueueInv' /\ PQ!RowsKeptStep
<1>1. /\ runtime' = runtime /\ queueRows' = queueRows /\ type' = type /\ queueMark' = queueMark
      /\ last' = last /\ chain' = chain /\ job' = job /\ tick' = tick /\ due' = due
      /\ pasted' = pasted /\ restarts' = restarts
  BY DEF queueVars
<1>2. PQ!QueueInv'
  BY <1>1 DEF PQ!QueueInv, PQ!QueueShape, PQ!AttemptsJournalled, PQ!OneTickJob, PQ!OneCadenceRow,
     PQ!Running, PQ!TickJob
<1>3. PQ!RowsKeptStep
  BY <1>1 DEF PQ!RowsKeptStep
<1> QED BY <1>2, <1>3

LEMMA DebtRests ==
  ASSUME HD!DebtInv, UNCHANGED debtVars PROVE HD!DebtInv' /\ HD!NotReopenedStep
<1>1. /\ hour' = hour /\ record' = record /\ writers' = writers /\ callers' = callers
      /\ ledger' = ledger /\ prompts' = prompts /\ reminders' = reminders
  BY DEF debtVars
<1>2. HD!DebtInv'
  BY <1>1 DEF HD!DebtInv, HD!DebtShape, HD!DebtsAreRecorded, HD!RemindersAreClaimed,
     HD!WritersAreAlone, HD!Owed, HD!Running
<1> QED BY <1>1, <1>2 DEF HD!NotReopenedStep

LEMMA RespawnRests ==
  ASSUME RI!RespawnInv, UNCHANGED respawnVars PROVE RI!RespawnInv' /\ RI!RestartIsDueStep
<1>1. /\ slot' = slot /\ pane' = pane /\ request' = request /\ routes' = routes
      /\ sendLock' = sendLock /\ health' = health /\ respawnMark' = respawnMark
      /\ cooling' = cooling /\ asked' = asked /\ launches' = launches
      /\ exits' = exits /\ quiet' = quiet /\ forsaken' = forsaken
  BY DEF respawnVars
<1>2. RI!RespawnInv'
  BY <1>1 DEF RI!RespawnInv, RI!RespawnShape, RI!ExitsRecorded, RI!QuietIsCounted,
     RI!MarkIsOwned, RI!BootsAreAwaited, RI!Same
<1> QED BY <1>1, <1>2 DEF RI!RestartIsDueStep

LEMMA ServerGoes ==
  ASSUME ServerInv, [WorkProgramsNext]_workProgramsVars PROVE ServerInv' /\ ServerStep
<1>1. program' = program
  BY DEF WorkProgramsNext, workProgramsVars
<1>2. ASSUME program = "queue" PROVE PQ!QueueInv' /\ PQ!RowsKeptStep
  <2>1. PQ!QueueInv
    BY <1>2 DEF ServerInv
  <2>2. PQ!QueueNext \/ UNCHANGED queueVars
    BY <1>2 DEF WorkProgramsNext, workProgramsVars
  <2> QED BY <2>1, <2>2, QueueStep, QueueRests
<1>3. ASSUME program = "debt" PROVE HD!DebtInv' /\ HD!NotReopenedStep
  <2>1. HD!DebtInv
    BY <1>3 DEF ServerInv
  <2>2. HD!DebtNext \/ UNCHANGED debtVars
    BY <1>3 DEF WorkProgramsNext, workProgramsVars
  <2> QED BY <2>1, <2>2, DebtStep, DebtRests
<1>4. ASSUME program = "respawn" PROVE RI!RespawnInv' /\ RI!RestartIsDueStep
  <2>1. RI!RespawnInv
    BY <1>4 DEF ServerInv
  <2>2. RI!RespawnNext \/ UNCHANGED respawnVars
    BY <1>4 DEF WorkProgramsNext, workProgramsVars
  <2> QED BY <2>1, <2>2, RespawnStep, RespawnRests
<1> QED BY <1>1, <1>2, <1>3, <1>4 DEF ServerInv, ServerStep, RowsKeptStep

(* Over retries and restarts an event is pasted into the manager's terminal *)
(* once (relay.ts), an hour's debt is reminded of once (pmCadence.ts) and *)
(* one request ends an agent at most once (respawnWhenIdle.ts).             *)
THEOREM OnceIsOnce == WorkProgramsSpec => []DoneOnce
<1>1. ServerInv => DoneOnce
  BY QueueOnce, DebtReminds, RespawnExits DEF ServerInv, DoneOnce
<1> QED BY <1>1, ServerStarts, ServerGoes, PTL DEF WorkProgramsSpec

(* Neither a row of the manager's queue nor the debt of an hour that was    *)
(* settled is lost or taken back by a later step.                           *)
THEOREM RowsAreKept == WorkProgramsSpec => RowsKept
<1>1. ServerStep => RowsKeptStep
  BY DEF ServerStep
<1> QED BY <1>1, ServerStarts, ServerGoes, PTL DEF WorkProgramsSpec, RowsKept

(* No restart ends work that began after the route was entered, or types    *)
(* its command over a boot somebody waits for.                              *)
THEOREM RestartsAreDue == WorkProgramsSpec => RestartIsDue
<1>1. ServerStep => (program = "respawn" => RI!RestartIsDueStep)
  BY DEF ServerStep
<1> QED BY <1>1, ServerStarts, ServerGoes, PTL DEF WorkProgramsSpec, RestartIsDue

-----------------------------------------------------------------------------
(* The programs that judge CI and merge.                                    *)
EvidenceInv ==
    /\ program = "green" => CU!ReconcileInv
    /\ program = "verdict" => CV!VerdictInv
    /\ program = "merge" => MP!MergeInv

LEMMA EvidenceStarts == WorkProgramsInit => EvidenceInv
<1> SUFFICES ASSUME WorkProgramsInit PROVE EvidenceInv
  OBVIOUS
<1>1. /\ program = "green" => CU!ReconcileInit
      /\ program = "verdict" => CV!VerdictInit
      /\ program = "merge" => MP!MergeInit
  BY DEF WorkProgramsInit
<1> QED BY <1>1, ReconcileStarts, VerdictStarts, MergeInit DEF EvidenceInv

LEMMA ReconcileRests ==
  ASSUME CU!ReconcileInv, UNCHANGED greenVars PROVE CU!ReconcileInv'
<1>1. /\ pull' = pull /\ sentinel' = sentinel /\ duty' = duty /\ handoff' = handoff
      /\ dog' = dog /\ pm' = pm /\ dogRows' = dogRows /\ dogChecks' = dogChecks
      /\ proven' = proven /\ pushes' = pushes
  BY DEF greenVars
<1> QED BY <1>1 DEF CU!ReconcileInv, CU!ReconcileShape, CU!HandoffsAreProven, CU!HandedOffIsProven,
        CU!OneUnderTheLock, CU!Handled, CU!Sent

LEMMA VerdictRests ==
  ASSUME CV!VerdictInv, UNCHANGED verdictVars PROVE CV!VerdictInv'
<1>1. /\ ciRuns' = ciRuns /\ comments' = comments /\ flakes' = flakes /\ pubs' = pubs
      /\ recorded' = recorded
  BY DEF verdictVars
<1> QED BY <1>1 DEF CV!VerdictInv, CV!VerdictShape, CV!EvidenceIsRecorded, CV!Recorded, CV!HasPrior

LEMMA MergeRests ==
  ASSUME MP!MergeInv, UNCHANGED mergeVars PROVE MP!MergeInv'
<1>1. /\ ghPr' = ghPr /\ ghMain' = ghMain /\ ghRuns' = ghRuns /\ mpc' = mpc
      /\ ciProof' = ciProof /\ e2eProof' = e2eProof /\ mainSeen' = mainSeen
      /\ reviewed' = reviewed /\ tested' = tested /\ needs' = needs
  BY DEF mergeVars
<1>2. MP!MergeShape'
  BY <1>1 DEF MP!MergeInv, MP!MergeShape
<1>3. MP!RunsAreTruthful'
  BY <1>1 DEF MP!MergeInv, MP!RunsAreTruthful, MP!Truthful
<1>4. MP!ProofIsEarned' /\ MP!MergedIsTested'
  BY <1>1 DEF MP!MergeInv, MP!ProofIsEarned, MP!MergedIsTested
<1> QED BY <1>1, <1>2, <1>3, <1>4 DEF MP!MergeInv

LEMMA EvidenceGoes ==
  ASSUME EvidenceInv, [WorkProgramsNext]_workProgramsVars PROVE EvidenceInv'
<1>1. program' = program
  BY DEF WorkProgramsNext, workProgramsVars
<1>2. ASSUME program = "green" PROVE CU!ReconcileInv'
  <2>1. CU!ReconcileInv
    BY <1>2 DEF EvidenceInv
  <2>2. CU!ReconcileNext \/ UNCHANGED greenVars
    BY <1>2 DEF WorkProgramsNext, workProgramsVars
  <2> QED BY <2>1, <2>2, ReconcileStep, ReconcileRests
<1>3. ASSUME program = "verdict" PROVE CV!VerdictInv'
  <2>1. CV!VerdictInv
    BY <1>3 DEF EvidenceInv
  <2>2. CV!VerdictNext \/ UNCHANGED verdictVars
    BY <1>3 DEF WorkProgramsNext, workProgramsVars
  <2> QED BY <2>1, <2>2, VerdictStep, VerdictRests
<1>4. ASSUME program = "merge" PROVE MP!MergeInv'
  <2>1. MP!MergeInv
    BY <1>4 DEF EvidenceInv
  <2>2. MP!MergeNext \/ UNCHANGED mergeVars
    BY <1>4 DEF WorkProgramsNext, workProgramsVars
  <2> QED BY <2>1, <2>2, MergeStep, MergeRests
<1> QED BY <1>1, <1>2, <1>3, <1>4 DEF EvidenceInv

(* A head of a pull request is handed off only when the guard and the       *)
(* marker of that very head were seen (ci-success-reconciliation.py), a     *)
(* flake is quarantined only on an earlier run than its own                 *)
(* (publish-ci-verdict.py), and the script merges only the head it was      *)
(* asked for, when green runs of it executed every family of tests it needs *)
(* or, for want of a receipt, had a successful job of the Python tests      *)
(* (merge.py).                                                              *)
THEOREM EvidenceHolds == WorkProgramsSpec => []EvidenceIsItsOwn
<1>1. EvidenceInv => EvidenceIsItsOwn
  BY VerdictBlocks
     DEF EvidenceInv, EvidenceIsItsOwn, CU!ReconcileInv, CU!HandoffsAreProven, MP!MergeInv
<1> QED BY <1>1, EvidenceStarts, EvidenceGoes, PTL DEF WorkProgramsSpec
=============================================================================
