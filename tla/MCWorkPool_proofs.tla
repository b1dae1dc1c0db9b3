-------------------------- MODULE MCWorkPool_proofs --------------------------
(* Proofs about the programs that keep the pool of ready issues and clean   *)
(* up after a merge, for every value of their constants: each one keeps an  *)
(* invariant of its own, and the theorems at the end put them together with *)
(* the others of MCWorkPrograms.                                            *)
EXTENDS MCWorkPrograms_proofs, FiniteSetTheorems
-----------------------------------------------------------------------------
(* The repair of contracts (ContractRepair).                                *)

(* What a repair writes is read as complete the next time.                  *)
LEMMA RepairIsFixed ==
  ASSUME NEW b \in CR!Contract, CR!Repaired(b).status \in {"repaired", "complete"}
  PROVE  /\ CR!Repaired(b).body \in CR!Contract
         /\ CR!Repaired(b).body.edits = b.edits
         /\ CR!Repaired(CR!Repaired(b).body).status = "complete"
<1> DEFINE out == CR!Rewritten(b)
           new == [out EXCEPT !.mark = TRUE]
<1>1. /\ b.open /\ b.acs = "few" /\ b.block # "blocked" /\ ~CR!LedgerErrors(out)
      /\ out \in CR!Contract /\ out.block = "full" /\ out.edits = b.edits
      /\ out.open = b.open /\ out.acs = b.acs /\ out.proof = b.proof
  BY DEF CR!Repaired, CR!Rewritten, CR!Contract
<1>2. out.ledger = "ok"
  BY <1>1 DEF CR!LedgerErrors, CR!Contract
<1>3. CASE out = b
  <2>1. CR!Repaired(b) = [status |-> "complete", body |-> b]
    BY <1>1, <1>3 DEF CR!Repaired
  <2> QED BY <2>1
<1>4. CASE out # b
  <2>1. CR!Repaired(b) = [status |-> "repaired", body |-> new]
    BY <1>1, <1>4 DEF CR!Repaired
  <2>2. /\ new \in CR!Contract /\ new.edits = b.edits /\ new.ledger = "ok" /\ new.block = "full"
        /\ new.open /\ new.acs = "few" /\ new.proof
    BY <1>1, <1>2 DEF CR!Contract, CR!LedgerErrors
  <2>3. CR!Rewritten(new) = new
    BY <2>2 DEF CR!Rewritten, CR!Contract
  <2>4. CR!Repaired(new).status = "complete"
    BY <2>2, <2>3 DEF CR!Repaired, CR!LedgerErrors
  <2>5. CR!Repaired(b).body = new
    BY <2>1
  <2> QED BY <2>2, <2>4, <2>5
<1> QED BY <1>3, <1>4

LEMMA RepairStarts == CR!RepairInit => CR!ContractInv
<1> SUFFICES ASSUME CR!RepairInit PROVE CR!ContractInv
  OBVIOUS
<1> USE ContractAssumption
<1>1. CR!RepairTypeOK
  BY DEF CR!RepairInit, CR!RepairTypeOK, CR!Tally
<1>2. CR!HolderIsAlone /\ CR!PinnedEditsKept /\ \A c \in Coordinator : CR!RowIsRepaired(c)
  BY DEF CR!RepairInit, CR!HolderIsAlone, CR!Working, CR!PinnedEditsKept, CR!RowIsRepaired
<1> QED BY <1>1, <1>2 DEF CR!ContractInv

(* A step of one coordinator leaves the rows of the others as they are.     *)
LEMMA OthersRows ==
  ASSUME CR!ContractInv, NEW c \in Coordinator, NEW pc, cpc' = [cpc EXCEPT ![c] = pc],
         \A d \in Coordinator \ {c} : /\ row'[d] = row[d] /\ body'[d] = body[d]
                                      /\ got'[d] = got[d] /\ pinned'[d] = pinned[d]
  PROVE  \A d \in Coordinator \ {c} : CR!RowIsRepaired(d)'
BY DEF CR!ContractInv, CR!RepairTypeOK, CR!RowIsRepaired

(* So does one that keeps the lock: whoever works is alone.                 *)
LEMMA WorkerStaysAlone ==
  ASSUME CR!ContractInv, NEW c \in Coordinator, NEW pc, cpc' = [cpc EXCEPT ![c] = pc],
         UNCHANGED <<flock, active>>, cpc[c] \in CR!Working,
         pc \in CR!Working
  PROVE  CR!HolderIsAlone'
BY DEF CR!ContractInv, CR!RepairTypeOK, CR!HolderIsAlone, CR!Working

LEMMA LockMovesKeep ==
  ASSUME CR!ContractInv, NEW c \in Coordinator,
         \/ CR!Acquire(c) \/ CR!Start(c) \/ CR!Finish(c) \/ CR!Release(c) \/ CR!CoordinatorDies(c)
  PROVE  CR!ContractInv'
<1> USE ContractAssumption
<1>1. /\ UNCHANGED <<issue, ranked, pinned, lost, edited, contractRows, row, got, body, tally, verdict>>
      /\ \E pc \in {"start", "busy", "row", "release", "done", "dead"} : cpc' = [cpc EXCEPT ![c] = pc]
  BY DEF CR!Acquire, CR!Start, CR!Finish, CR!Release, CR!CoordinatorDies, CR!Goto, CR!world
<1>2. PICK pc \in {"start", "busy", "row", "release", "done", "dead"} : cpc' = [cpc EXCEPT ![c] = pc]
  BY <1>1
<1>3. flock' \in Coordinator \cup {NULL} /\ active' \in [run : Coordinator \cup {NULL}, status : {NULL, "running", "stopped"}]
  BY DEF CR!Acquire, CR!Start, CR!Finish, CR!Release, CR!CoordinatorDies, CR!ContractInv, CR!RepairTypeOK
<1>4. CR!RepairTypeOK'
  BY <1>1, <1>2, <1>3 DEF CR!ContractInv, CR!RepairTypeOK
<1>5. CR!HolderIsAlone'
  <2>1. cpc \in [Coordinator -> {"idle", "start", "row", "pin", "edit", "verify", "label",
                                "dry", "apply", "scan", "finish", "release", "busy", "done", "dead"}]
    BY DEF CR!ContractInv, CR!RepairTypeOK
  <2>2. CASE CR!Acquire(c)
    BY <2>1, <2>2 DEF CR!Acquire, CR!Goto, CR!ContractInv, CR!HolderIsAlone, CR!Working
  <2>3. CASE CR!Start(c)
    BY <2>1, <2>3 DEF CR!Start, CR!Goto, CR!ContractInv, CR!HolderIsAlone, CR!Working
  <2>4. CASE CR!Finish(c)
    BY <2>1, <2>4 DEF CR!Finish, CR!Goto, CR!ContractInv, CR!HolderIsAlone, CR!Working
  <2>5. CASE CR!Release(c)
    BY <2>1, <2>5 DEF CR!Release, CR!Goto, CR!ContractInv, CR!HolderIsAlone, CR!Working
  <2>6. CASE CR!CoordinatorDies(c)
    BY <2>1, <2>6 DEF CR!CoordinatorDies, CR!Goto, CR!ContractInv, CR!HolderIsAlone, CR!Working
  <2> QED BY <2>2, <2>3, <2>4, <2>5, <2>6
<1>6. \A d \in Coordinator : CR!RowIsRepaired(d)'
  <2>1. CR!RowIsRepaired(c)'
    BY <1>2 DEF CR!ContractInv, CR!RepairTypeOK, CR!RowIsRepaired
  <2> QED BY <1>1, <1>2, <2>1, OthersRows
<1> QED BY <1>1, <1>4, <1>5, <1>6 DEF CR!ContractInv, CR!PinnedEditsKept

LEMMA TakesKeep ==
  ASSUME CR!ContractInv, NEW c \in Coordinator, CR!TakeRow(c)
  PROVE  CR!ContractInv'
<1> USE ContractAssumption
<1>1. CR!RepairTypeOK /\ cpc[c] = "row" /\ UNCHANGED <<issue, ranked, pinned, lost, edited, flock, active, verdict>>
  BY DEF CR!ContractInv, CR!TakeRow, CR!world, CR!lease
<1>2. CASE contractRows[c] = {}
  <2>1. cpc' = [cpc EXCEPT ![c] = "scan"] /\ UNCHANGED <<contractRows, row, got, body, tally>>
    BY <1>2 DEF CR!TakeRow, CR!Goto
  <2>2. CR!RepairTypeOK'
    BY <1>1, <2>1 DEF CR!RepairTypeOK
  <2>3. CR!HolderIsAlone'
    BY <1>1, <2>1, WorkerStaysAlone DEF CR!Working
  <2>4. CR!RowIsRepaired(c)'
    BY <1>1, <2>1 DEF CR!RepairTypeOK, CR!RowIsRepaired
  <2> QED BY <1>1, <2>1, <2>2, <2>3, <2>4, OthersRows DEF CR!ContractInv, CR!PinnedEditsKept
<1>3. CASE contractRows[c] # {}
  <2>1. PICK i \in contractRows[c] :
            /\ contractRows' = [contractRows EXCEPT ![c] = @ \ {i}] /\ row' = [row EXCEPT ![c] = i]
            /\ \/ /\ LET r == CR!Repaired(issue[i]) IN
                     /\ got' = [got EXCEPT ![c] = issue[i]] /\ body' = [body EXCEPT ![c] = r.body]
                     /\ CASE r.status = "repaired" -> CR!Goto(c, "pin") /\ UNCHANGED tally
                          [] r.status = "complete" -> CR!Goto(c, "dry") /\ CR!Count(c, {"complete"})
                          [] OTHER -> CR!Goto(c, "row") /\ CR!Count(c, {r.status})
               \/ CR!Count(c, {"failed"}) /\ UNCHANGED <<cpc, got, body>>
    BY <1>3 DEF CR!TakeRow
  <2>2. i \in Backlog /\ issue[i] \in CR!Contract
    BY <1>1, <2>1 DEF CR!RepairTypeOK
  <2>3. /\ contractRows' \in [Coordinator -> SUBSET Backlog] /\ row' \in [Coordinator -> Backlog \cup {NULL}]
        /\ row'[c] = i
    BY <1>1, <2>1, <2>2 DEF CR!RepairTypeOK
  <2>4. CASE CR!Count(c, {"failed"}) /\ UNCHANGED <<cpc, got, body>>
    <3>1. CR!RepairTypeOK'
      BY <1>1, <2>3, <2>4 DEF CR!RepairTypeOK, CR!Count, CR!Tally
    <3>2. cpc' = [cpc EXCEPT ![c] = "row"]
      BY <1>1, <2>4 DEF CR!RepairTypeOK
    <3>3. CR!HolderIsAlone'
      BY <1>1, <3>2, WorkerStaysAlone DEF CR!Working
    <3>4. CR!RowIsRepaired(c)'
      BY <1>1, <2>4 DEF CR!RowIsRepaired
    <3>5. \A d \in Coordinator \ {c} : row'[d] = row[d]
      BY <1>1, <2>1 DEF CR!RepairTypeOK
    <3> QED BY <1>1, <2>4, <3>1, <3>2, <3>3, <3>4, <3>5, OthersRows DEF CR!ContractInv, CR!PinnedEditsKept
  <2>5. CASE ~(CR!Count(c, {"failed"}) /\ UNCHANGED <<cpc, got, body>>)
    <3> DEFINE r == CR!Repaired(issue[i])
    <3>1. /\ got' = [got EXCEPT ![c] = issue[i]] /\ body' = [body EXCEPT ![c] = r.body]
          /\ \/ r.status = "repaired" /\ CR!Goto(c, "pin") /\ UNCHANGED tally
             \/ r.status = "complete" /\ CR!Goto(c, "dry") /\ CR!Count(c, {"complete"})
             \/ CR!Goto(c, "row") /\ CR!Count(c, {r.status})
      BY <2>1, <2>5
    <3>2. r.body \in CR!Contract /\ r.status \in CR!Tally
      <4>1. r.body = issue[i] \/ r.body = [CR!Rewritten(issue[i]) EXCEPT !.mark = TRUE]
        BY <2>2 DEF CR!Repaired
      <4>2. r.status \in CR!Tally
        BY DEF CR!Repaired, CR!Tally
      <4>3. CR!Rewritten(issue[i]) \in CR!Contract
        BY <2>2 DEF CR!Rewritten, CR!Contract
      <4>4. [CR!Rewritten(issue[i]) EXCEPT !.mark = TRUE] \in CR!Contract
        BY <4>3 DEF CR!Contract
      <4> QED BY <2>2, <4>1, <4>2, <4>4
    <3>3. PICK pc \in {"pin", "dry", "row"} :
            /\ cpc' = [cpc EXCEPT ![c] = pc]
            /\ pc = "pin" => r.status = "repaired"
            /\ pc = "dry" => r.status = "complete"
      BY <3>1 DEF CR!Goto
    <3>4. CR!RepairTypeOK'
      <4>1. tally' \in [Coordinator -> SUBSET CR!Tally]
        BY <1>1, <3>1, <3>2 DEF CR!RepairTypeOK, CR!Count, CR!Tally
      <4>2. got' \in [Coordinator -> CR!Contract \cup {NULL}] /\ body' \in [Coordinator -> CR!Contract \cup {NULL}]
        BY <1>1, <2>2, <3>1, <3>2 DEF CR!RepairTypeOK
      <4> QED BY <1>1, <2>3, <3>3, <4>1, <4>2 DEF CR!RepairTypeOK
    <3>5. CR!HolderIsAlone'
      BY <1>1, <3>3, WorkerStaysAlone DEF CR!Working
    <3>6. CR!RowIsRepaired(c)'
      <4>1. cpc'[c] = pc /\ got'[c] = issue[i] /\ body'[c] = r.body
        BY <1>1, <3>1, <3>3 DEF CR!RepairTypeOK
      <4>2. pc \in {"pin", "dry"} => /\ body'[c] \in CR!Contract /\ body'[c].edits = issue[i].edits
                                     /\ CR!Repaired(body'[c]).status = "complete"
        BY <2>2, <3>3, <4>1, RepairIsFixed
      <4> QED BY <2>2, <2>3, <3>3, <4>1, <4>2 DEF CR!RowIsRepaired, CR!Repaired, CR!LedgerErrors, CR!Rewritten
    <3>7. \A d \in Coordinator \ {c} : row'[d] = row[d] /\ body'[d] = body[d] /\ got'[d] = got[d]
      BY <1>1, <2>1, <3>1 DEF CR!RepairTypeOK
    <3> QED BY <1>1, <3>3, <3>4, <3>5, <3>6, <3>7, OthersRows DEF CR!ContractInv, CR!PinnedEditsKept
  <2> QED BY <2>4, <2>5
<1> QED BY <1>2, <1>3

LEMMA WritesKeep ==
  ASSUME CR!ContractInv, NEW c \in Coordinator, CR!Pin(c) \/ CR!WriteBody(c) \/ CR!Verify(c) \/ CR!AddLabel(c)
  PROVE  CR!ContractInv'
<1> USE ContractAssumption
<1>1. /\ CR!RepairTypeOK /\ cpc[c] \in {"pin", "edit", "verify", "label"} /\ CR!RowIsRepaired(c)
      /\ UNCHANGED <<ranked, edited, flock, active, verdict, contractRows, row, got, body>>
  BY DEF CR!ContractInv, CR!Pin, CR!WriteBody, CR!Verify, CR!AddLabel, CR!lease, CR!world
<1>2. PICK pc \in {"edit", "row", "verify", "label", "dry"} : cpc' = [cpc EXCEPT ![c] = pc]
  BY DEF CR!Pin, CR!WriteBody, CR!Verify, CR!AddLabel, CR!Goto
<1>3. row[c] \in Backlog /\ body[c] \in CR!Contract /\ got[c] \in CR!Contract /\ body[c].edits = got[c].edits
  BY <1>1 DEF CR!RowIsRepaired
<1>4. /\ issue' \in [Backlog -> CR!Contract] /\ tally' \in [Coordinator -> SUBSET CR!Tally]
      /\ pinned' \in [Coordinator -> SUBSET CR!Edit]
  <2>1. CASE CR!Pin(c)
    <3>1. issue[row[c]].edits \in SUBSET CR!Edit
      BY <1>1, <1>3 DEF CR!RepairTypeOK, CR!Contract
    <3> QED BY <1>1, <2>1, <3>1 DEF CR!Pin, CR!RepairTypeOK, CR!Count, CR!Tally
  <2>2. CASE CR!WriteBody(c)
    <3>1. CR!Written(issue[row[c]], body[c]) \in CR!Contract
      <4>1. issue[row[c]].prio \in BOOLEAN /\ issue[row[c]].open \in BOOLEAN
        BY <1>1, <1>3 DEF CR!RepairTypeOK, CR!Contract
      <4> QED BY <1>3, <4>1 DEF CR!Written, CR!Contract
    <3> QED BY <1>1, <1>3, <2>2, <3>1 DEF CR!WriteBody, CR!RepairTypeOK, CR!Count, CR!Tally
  <2>3. CASE CR!Verify(c)
    BY <1>1, <2>3 DEF CR!Verify, CR!RepairTypeOK, CR!Count, CR!Tally, CR!world
  <2>4. CASE CR!AddLabel(c)
    <3>1. [issue[row[c]] EXCEPT !.prio = TRUE] \in CR!Contract
      <4>1. issue[row[c]] \in CR!Contract
        BY <1>1, <1>3 DEF CR!RepairTypeOK
      <4> QED BY <4>1 DEF CR!Contract
    <3>2. issue' \in [Backlog -> CR!Contract]
      BY <1>1, <1>3, <2>4, <3>1 DEF CR!AddLabel, CR!RepairTypeOK
    <3> QED BY <1>1, <2>4, <3>2 DEF CR!AddLabel, CR!RepairTypeOK, CR!Count, CR!Tally
  <2> QED BY <2>1, <2>2, <2>3, <2>4 DEF CR!ContractInv
<1>5. lost' = {}
  <2>1. cpc[c] = "edit" => pinned[c] \ body[c].edits = {}
    BY <1>1 DEF CR!RowIsRepaired
  <2> QED BY <2>1 DEF CR!Pin, CR!WriteBody, CR!Verify, CR!AddLabel, CR!world, CR!ContractInv, CR!PinnedEditsKept
<1>6. CR!RepairTypeOK'
  BY <1>1, <1>2, <1>4, <1>5 DEF CR!RepairTypeOK
<1>7. CR!HolderIsAlone'
  BY <1>1, <1>2, WorkerStaysAlone DEF CR!Working
<1>8. CR!RowIsRepaired(c)'
  <2>1. cpc'[c] = pc
    BY <1>1, <1>2 DEF CR!RepairTypeOK
  <2>2. pc = "edit" => pinned'[c] = body[c].edits
    <3> SUFFICES ASSUME pc = "edit" PROVE pinned'[c] = body[c].edits
      OBVIOUS
    <3>1. CR!Pin(c) /\ CR!SameBody(issue[row[c]], got[c])
      BY <1>1, <1>2, <2>1 DEF CR!RepairTypeOK, CR!Pin, CR!WriteBody, CR!Verify, CR!AddLabel, CR!Goto
    <3>2. pinned'[c] = issue[row[c]].edits
      BY <1>1, <3>1 DEF CR!Pin, CR!RepairTypeOK
    <3>3. issue[row[c]] \in CR!Contract
      BY <1>1, <1>3 DEF CR!RepairTypeOK
    <3>4. issue[row[c]].edits = got[c].edits
      BY <1>3, <3>1, <3>3 DEF CR!SameBody, CR!Contract
    <3> QED BY <1>3, <3>2, <3>4
  <2>3. CR!Repaired(body[c]).status = "complete"
    BY <1>1 DEF CR!RowIsRepaired
  <2> QED BY <1>1, <1>3, <2>1, <2>2, <2>3 DEF CR!RowIsRepaired, CR!Repaired, CR!LedgerErrors, CR!Rewritten
<1>9. \A d \in Coordinator \ {c} : pinned'[d] = pinned[d]
  BY <1>1 DEF CR!RepairTypeOK, CR!Pin, CR!WriteBody, CR!Verify, CR!AddLabel, CR!world
<1> QED BY <1>1, <1>2, <1>5, <1>6, <1>7, <1>8, <1>9, OthersRows DEF CR!ContractInv, CR!PinnedEditsKept

LEMMA PromotionsKeep ==
  ASSUME CR!ContractInv, NEW c \in Coordinator, CR!PromoteDry(c) \/ CR!PromoteApply(c) \/ CR!FinalScan(c)
  PROVE  CR!ContractInv'
<1> USE ContractAssumption
<1>1. /\ CR!RepairTypeOK /\ cpc[c] \in {"dry", "apply", "scan"} /\ CR!RowIsRepaired(c)
      /\ UNCHANGED <<issue, pinned, lost, edited, flock, active, contractRows, row, got, body>>
  BY DEF CR!ContractInv, CR!PromoteDry, CR!PromoteApply, CR!FinalScan, CR!lease, CR!world
<1>2. PICK pc \in {"row", "apply", "finish"} :
        cpc' = [cpc EXCEPT ![c] = pc] /\ (pc = "apply" => cpc[c] = "dry")
  BY DEF CR!PromoteDry, CR!PromoteApply, CR!FinalScan, CR!Goto
<1>3. /\ ranked' \subseteq Backlog /\ tally' \in [Coordinator -> SUBSET CR!Tally]
      /\ verdict' \in [Coordinator -> {NULL, "complete", "action_required"}]
  BY <1>1 DEF CR!PromoteDry, CR!PromoteApply, CR!FinalScan, CR!RepairTypeOK, CR!Count, CR!Tally, CR!world,
     CR!RowIsRepaired
<1>4. CR!RepairTypeOK'
  BY <1>1, <1>2, <1>3 DEF CR!RepairTypeOK
<1>5. CR!HolderIsAlone'
  BY <1>1, <1>2, WorkerStaysAlone DEF CR!Working
<1>6. CR!RowIsRepaired(c)'
  BY <1>1, <1>2 DEF CR!RepairTypeOK, CR!RowIsRepaired
<1> QED BY <1>1, <1>2, <1>4, <1>5, <1>6, OthersRows DEF CR!ContractInv, CR!PinnedEditsKept

LEMMA PeopleKeep ==
  ASSUME CR!ContractInv, NEW i \in Backlog, CR!PeopleEdit(i)
  PROVE  CR!ContractInv'
<1> USE ContractAssumption
<1>1. /\ CR!RepairTypeOK
      /\ UNCHANGED <<ranked, pinned, lost, flock, active, cpc, contractRows, row, got, body, tally, verdict>>
      /\ edited < MaxBodyEdits /\ edited' = edited + 1
  BY DEF CR!ContractInv, CR!PeopleEdit, CR!lease
<1>2. PICK b \in Bodies : issue' = [issue EXCEPT ![i] = [b EXCEPT !.edits = issue[i].edits \cup {edited'}]]
  BY DEF CR!PeopleEdit
<1>3. edited' \in 0 .. MaxBodyEdits /\ edited' \in CR!Edit
  BY <1>1 DEF CR!RepairTypeOK, CR!Edit
<1>4. issue[i].edits \cup {edited'} \in SUBSET CR!Edit
  BY <1>1, <1>3 DEF CR!RepairTypeOK, CR!Contract
<1>5. [b EXCEPT !.edits = issue[i].edits \cup {edited'}] \in CR!Contract
  BY <1>4 DEF CR!Contract
<1>6. CR!RepairTypeOK'
  BY <1>1, <1>2, <1>3, <1>5 DEF CR!RepairTypeOK
<1>7. CR!HolderIsAlone' /\ CR!PinnedEditsKept'
  BY <1>1 DEF CR!ContractInv, CR!HolderIsAlone, CR!PinnedEditsKept
<1>8. ASSUME NEW c \in Coordinator PROVE CR!RowIsRepaired(c)'
  BY <1>1 DEF CR!ContractInv, CR!RowIsRepaired
<1> QED BY <1>6, <1>7, <1>8 DEF CR!ContractInv

LEMMA RepairGoes ==
  ASSUME CR!ContractInv, CR!RepairNext \/ UNCHANGED contractVars PROVE CR!ContractInv'
<1>1. CASE CR!RepairNext
  BY <1>1, LockMovesKeep, TakesKeep, WritesKeep, PromotionsKeep, PeopleKeep DEF CR!RepairNext
<1>2. CASE UNCHANGED contractVars
  <2>1. UNCHANGED <<issue, ranked, flock, active, cpc, contractRows, row, got, body, tally, verdict, pinned, lost, edited>>
    BY <1>2 DEF contractVars
  <2>2. CR!RepairTypeOK' /\ CR!HolderIsAlone' /\ CR!PinnedEditsKept'
    BY <2>1 DEF CR!ContractInv, CR!RepairTypeOK, CR!HolderIsAlone, CR!PinnedEditsKept
  <2>3. ASSUME NEW c \in Coordinator PROVE CR!RowIsRepaired(c)'
    BY <2>1 DEF CR!ContractInv, CR!RowIsRepaired
  <2> QED BY <2>2, <2>3 DEF CR!ContractInv
<1> QED BY <1>1, <1>2

LEMMA RepairsAreSettled ==
  ASSUME CR!ContractInv PROVE CR!ActiveNamesHolder /\ CR!RepairSettles /\ CR!PinnedEditsKept
BY DEF CR!ContractInv, CR!HolderIsAlone, CR!Working, CR!RowIsRepaired, CR!ActiveNamesHolder, CR!RepairSettles
-----------------------------------------------------------------------------
(* The gate of an assignment (AssignmentGate).                              *)

LEMMA GateStarts == GT!GateInit => GT!GateInv
<1> SUFFICES ASSUME GT!GateInit PROVE GT!GateInv
  OBVIOUS
<1> USE GateAssumption
<1>1. GT!GateTypeOK
  <2>1. 0 \in GT!Head /\ GT!NoRows \in GT!Rows
    BY DEF GT!Head, GT!NoRows, GT!Rows
  <2>2. prs \in [GatePR -> GT!PRType]
    BY <2>1 DEF GT!GateInit, GT!PRType
  <2>3. todos \in [Todo -> GT!TodoType]
    BY DEF GT!GateInit, GT!TodoType, GT!Priorities
  <2>4. bounds \in GT!Rows
    BY <2>1 DEF GT!GateInit, GT!Rows
  <2>5. said \in [kind : {"slot_e2e", "ci_rework", "todo", "none"}, it : GatePR \cup Todo \cup {NULL}]
    BY DEF GT!GateInit, GT!Nothing
  <2>6. /\ ciCache \in (SUBSET (GatePR \X GT!Head)) \cup {NULL} /\ todoCache \in [Todo -> GT!TodoType] \cup {NULL}
        /\ ci \subseteq GatePR \X GT!Head /\ ciError \in BOOLEAN /\ e2e \subseteq GatePR
        /\ boundError \in BOOLEAN /\ todoRead \in [Todo -> GT!TodoType] \cup {NULL}
    BY DEF GT!GateInit
  <2>7. /\ rowsRead \in GT!Rows /\ unmoved \subseteq GatePR \cup Todo
        /\ gateMoves \in 0 .. MaxGateMoves /\ gateRuns \in 0 .. GateRuns
        /\ gpc \in {"ci", "fresh", "rows", "join", "todo", "answer", "done"}
    BY <2>1 DEF GT!GateInit
  <2> QED BY <2>2, <2>3, <2>4, <2>5, <2>6, <2>7 DEF GT!GateTypeOK
<1>2. GT!ReadsHold /\ GT!SaidWasRead
  BY DEF GT!GateInit, GT!ReadsHold, GT!SaidWasRead, GT!Nothing
<1> QED BY <1>1, <1>2 DEF GT!GateInv

(* The reads of one run, in the order it makes them.                        *)
LEMMA FirstReadsKeep ==
  ASSUME GT!GateInv, GT!ReadCi \/ GT!ScanCi \/ GT!ReadRows PROVE GT!GateInv'
<1> USE GateAssumption
<1>1. /\ GT!GateTypeOK /\ GT!ReadsHold /\ GT!SaidWasRead
      /\ UNCHANGED <<prs, todos, bounds, unmoved, gateMoves, gateRuns, todoCache, e2e, todoRead, said>>
      /\ gpc \in {"ci", "fresh", "rows"} /\ said = GT!Nothing /\ ~boundError /\ e2e = {}
  BY DEF GT!GateInv, GT!ReadCi, GT!ScanCi, GT!ReadRows, GT!gateWorld, GT!SaidWasRead, GT!ReadsHold
<1>2. CASE GT!ReadCi \/ GT!ScanCi
  <2>1. UNCHANGED <<rowsRead, boundError>> /\ gpc' \in {"fresh", "rows"}
    BY <1>2 DEF GT!ReadCi, GT!ScanCi
  <2>2. /\ ci' \subseteq GatePR \X GT!Head /\ (ciCache' = NULL \/ ciCache' \subseteq GatePR \X GT!Head)
        /\ \A p \in GatePR, h \in GT!Head : <<p, h>> \in ci' => prs[p].open /\ prs[p].head = h
        /\ gpc' = "fresh" => ci' = {}
    <3>1. CASE GT!ReadCi
      <4>1. ci = {}
        BY <1>1, <3>1 DEF GT!ReadCi, GT!ReadsHold
      <4>2. ASSUME ciCache # NULL, GT!CacheCurrent, NEW p \in GatePR, NEW h \in GT!Head, <<p, h>> \in ciCache
            PROVE prs[p].open /\ prs[p].head = h
        <5>1. prs[<<p, h>>[1]].open /\ prs[<<p, h>>[1]].head = <<p, h>>[2]
          BY <4>2 DEF GT!CacheCurrent
        <5> QED BY <5>1
      <4>3. ciCache # NULL => ciCache \subseteq GatePR \X GT!Head
        BY <1>1 DEF GT!GateTypeOK
      <4>4. ci' = {} \/ (ciCache # NULL /\ GT!CacheCurrent /\ ci' = ciCache /\ gpc' = "rows")
        BY <3>1, <4>1 DEF GT!ReadCi
      <4>5. UNCHANGED ciCache /\ (gpc' = "fresh" => ci' = {})
        BY <3>1, <4>1 DEF GT!ReadCi
      <4> QED BY <4>2, <4>3, <4>4, <4>5
    <3>2. CASE GT!ScanCi
      <4>1. GT!BuildCi \subseteq GatePR \X GT!Head
        BY <1>1 DEF GT!BuildCi, GT!GateTypeOK, GT!PRType
      <4>2. \A p \in GatePR, h \in GT!Head : <<p, h>> \in GT!BuildCi => prs[p].open /\ prs[p].head = h
        BY DEF GT!BuildCi
      <4>3. ciCache # NULL => ciCache \subseteq GatePR \X GT!Head
        BY <1>1 DEF GT!GateTypeOK
      <4> QED BY <3>2, <4>1, <4>2, <4>3 DEF GT!ScanCi
    <3> QED BY <1>2, <3>1, <3>2
  <2>3. ciError' \in BOOLEAN
    BY <1>1, <1>2 DEF GT!ReadCi, GT!ScanCi, GT!GateTypeOK
  <2>4. GT!GateTypeOK'
    BY <1>1, <2>1, <2>2, <2>3 DEF GT!GateTypeOK
  <2>5. GT!ReadsHold'
    BY <1>1, <2>1, <2>2 DEF GT!ReadsHold
  <2>6. GT!SaidWasRead'
    BY <1>1, <2>1 DEF GT!SaidWasRead, GT!Nothing
  <2> QED BY <2>4, <2>5, <2>6 DEF GT!GateInv
<1>3. CASE GT!ReadRows
  <2>1. UNCHANGED <<ciCache, ci, ciError>>
    BY <1>3 DEF GT!ReadRows
  <2>2. \/ (\A p \in GatePR : bounds[p].kind # "bad") /\ rowsRead' = bounds /\ gpc' = "join" /\ UNCHANGED boundError
        \/ boundError' = TRUE /\ gpc' = "todo" /\ UNCHANGED rowsRead
    BY <1>3 DEF GT!ReadRows
  <2>3. GT!GateTypeOK'
    BY <1>1, <2>1, <2>2 DEF GT!GateTypeOK
  <2>4. GT!ReadsHold'
    BY <1>1, <2>1, <2>2 DEF GT!ReadsHold
  <2>5. GT!SaidWasRead'
    BY <1>1, <2>2 DEF GT!SaidWasRead, GT!Nothing
  <2> QED BY <2>3, <2>4, <2>5 DEF GT!GateInv
<1> QED BY <1>2, <1>3

LEMMA LastReadsKeep ==
  ASSUME GT!GateInv, GT!ReadPrs \/ GT!ReadTodo PROVE GT!GateInv'
<1> USE GateAssumption
<1>1. /\ GT!GateTypeOK /\ GT!ReadsHold /\ GT!SaidWasRead
      /\ UNCHANGED <<prs, todos, bounds, unmoved, gateMoves, gateRuns, ciCache, ci, ciError, rowsRead, said>>
      /\ gpc \in {"join", "todo"} /\ gpc' \in {"todo", "answer"} /\ said = GT!Nothing
  BY DEF GT!GateInv, GT!ReadPrs, GT!ReadTodo, GT!gateWorld, GT!SaidWasRead
<1>2. GT!SaidWasRead'
  BY <1>1 DEF GT!SaidWasRead, GT!Nothing
<1>3. CASE GT!ReadPrs
  <2>1. UNCHANGED <<todoCache, todoRead>> /\ gpc = "join" /\ e2e = {}
    BY <1>1, <1>3 DEF GT!ReadPrs, GT!ReadsHold
  <2>2. \/ e2e' = GT!Joined /\ UNCHANGED boundError
        \/ boundError' = TRUE /\ e2e' = {}
    BY <1>3, <2>1 DEF GT!ReadPrs
  <2>3. GT!GateTypeOK'
    BY <1>1, <2>1, <2>2 DEF GT!GateTypeOK, GT!Joined
  <2>4. GT!ReadsHold'
    BY <1>1, <1>3, <2>1, <2>2 DEF GT!ReadPrs, GT!ReadsHold, GT!Joined
  <2> QED BY <1>2, <2>3, <2>4 DEF GT!GateInv
<1>4. CASE GT!ReadTodo
  <2>1. UNCHANGED <<e2e, boundError>> /\ gpc = "todo" /\ gpc' = "answer"
    BY <1>4 DEF GT!ReadTodo
  <2>2. /\ todoRead' \in [Todo -> GT!TodoType] \cup {NULL}
        /\ todoCache' \in [Todo -> GT!TodoType] \cup {NULL}
    BY <1>1, <1>4 DEF GT!ReadTodo, GT!GateTypeOK
  <2>3. GT!GateTypeOK'
    BY <1>1, <2>1, <2>2 DEF GT!GateTypeOK
  <2>4. GT!ReadsHold'
    BY <1>1, <2>1 DEF GT!ReadsHold
  <2> QED BY <1>2, <2>3, <2>4 DEF GT!GateInv
<1> QED BY <1>3, <1>4

LEMMA AnswersKeep ==
  ASSUME GT!GateInv, GT!Answer PROVE GT!GateInv'
<1> USE GateAssumption
<1>1. /\ GT!GateTypeOK /\ GT!ReadsHold
      /\ UNCHANGED <<prs, todos, bounds, unmoved, gateMoves, gateRuns, ciCache, todoCache, ci, ciError,
                     rowsRead, e2e, boundError, todoRead>>
      /\ gpc = "answer" /\ gpc' = "done" /\ said' \in GT!Inspect
  BY DEF GT!GateInv, GT!Answer, GT!gateWorld
<1> DEFINE rows == IF todoRead = NULL THEN {} ELSE {i \in Todo : todoRead[i].ok}
           best == {i \in rows : \A j \in rows : GT!Rank(todoRead[i].prio) <= GT!Rank(todoRead[j].prio)}
<1>2. \/ e2e # {} /\ said' \in [kind : {"slot_e2e"}, it : e2e]
      \/ e2e = {} /\ ci # {} /\ said' \in [kind : {"ci_rework"}, it : {c[1] : c \in ci}]
      \/ e2e = {} /\ ci = {} /\ ~boundError /\ said' \in [kind : {"todo"}, it : best]
      \/ said' = GT!Nothing
  <2>1. CASE e2e # {}
    BY <1>1, <2>1 DEF GT!Inspect
  <2>2. CASE e2e = {} /\ ci # {}
    BY <1>1, <2>2 DEF GT!Inspect
  <2>3. CASE e2e = {} /\ ci = {} /\ ~boundError /\ rows # {}
    BY <1>1, <2>3 DEF GT!Inspect
  <2>4. CASE e2e = {} /\ ci = {} /\ ~(~boundError /\ rows # {})
    BY <1>1, <2>4 DEF GT!Inspect
  <2> QED BY <2>1, <2>2, <2>3, <2>4
<1>3. ASSUME said' \in [kind : {"ci_rework"}, it : {c[1] : c \in ci}]
      PROVE  said'.it \in GatePR /\ \E h \in GT!Head : <<said'.it, h>> \in ci
  <2>1. PICK c \in ci : said'.it = c[1]
    BY <1>3
  <2>2. c \in GatePR \X GT!Head
    BY <1>1, <2>1 DEF GT!GateTypeOK
  <2>3. c = <<c[1], c[2]>> /\ c[1] \in GatePR /\ c[2] \in GT!Head
    BY <2>2
  <2> QED BY <2>1, <2>3
<1>4. GT!SaidWasRead'
  BY <1>1, <1>2, <1>3 DEF GT!SaidWasRead, GT!Nothing
<1>5. said' \in [kind : {"slot_e2e", "ci_rework", "todo", "none"}, it : GatePR \cup Todo \cup {NULL}]
  <2>1. e2e \subseteq GatePR
    BY <1>1 DEF GT!GateTypeOK
  <2> QED BY <1>2, <1>3, <2>1 DEF GT!Nothing
<1>6. GT!GateTypeOK'
  BY <1>1, <1>5 DEF GT!GateTypeOK
<1>7. GT!ReadsHold'
  BY <1>1 DEF GT!ReadsHold
<1> QED BY <1>4, <1>6, <1>7 DEF GT!GateInv

LEMMA RunsAgainKeep ==
  ASSUME GT!GateInv, GT!RunAgain \/ GT!CacheExpires PROVE GT!GateInv'
<1> USE GateAssumption
<1>1. GT!GateTypeOK /\ GT!ReadsHold /\ GT!SaidWasRead
  BY DEF GT!GateInv
<1>2. CASE GT!RunAgain
  <2>1. GT!GateTypeOK'
    <3>1. 0 \in GT!Head /\ GT!NoRows \in GT!Rows
      BY DEF GT!Head, GT!NoRows, GT!Rows
    <3>2. said' \in [kind : {"slot_e2e", "ci_rework", "todo", "none"}, it : GatePR \cup Todo \cup {NULL}]
      BY <1>2 DEF GT!RunAgain, GT!Nothing
    <3>3. gateRuns' \in 0 .. GateRuns
      BY <1>1, <1>2 DEF GT!RunAgain, GT!GateTypeOK
    <3> QED BY <1>1, <1>2, <3>1, <3>2, <3>3 DEF GT!RunAgain, GT!GateTypeOK
  <2>2. GT!ReadsHold' /\ GT!SaidWasRead'
    BY <1>2 DEF GT!RunAgain, GT!ReadsHold, GT!SaidWasRead, GT!Nothing
  <2> QED BY <2>1, <2>2 DEF GT!GateInv
<1>3. CASE GT!CacheExpires
  <2>1. /\ UNCHANGED <<prs, todos, bounds, unmoved, gateMoves, gateRuns, gpc, ci, ciError, rowsRead, e2e,
                       boundError, todoRead, said>>
        /\ ciCache' \in {ciCache, NULL} /\ todoCache' \in {todoCache, NULL}
    BY <1>3 DEF GT!CacheExpires, GT!gateWorld
  <2>2. GT!GateTypeOK'
    BY <1>1, <2>1 DEF GT!GateTypeOK
  <2>3. GT!ReadsHold' /\ GT!SaidWasRead'
    BY <1>1, <2>1 DEF GT!ReadsHold, GT!SaidWasRead, GT!Nothing
  <2> QED BY <2>2, <2>3 DEF GT!GateInv
<1> QED BY <1>2, <1>3

(* What moves is no longer among the unmoved: the reads of the rest hold.   *)
LEMMA WorldMovesKeep ==
  ASSUME GT!GateInv,
         \/ \E p \in GatePR : GT!PullRequestMoves(p) \/ GT!LedgerMoves(p)
         \/ \E i \in Todo : GT!IssueMoves(i)
  PROVE  GT!GateInv'
<1> USE GateAssumption
<1>1. /\ GT!GateTypeOK /\ GT!ReadsHold /\ GT!SaidWasRead
      /\ UNCHANGED <<ciCache, todoCache, gpc, ci, ciError, rowsRead, e2e, boundError, todoRead, said, gateRuns>>
      /\ unmoved' \subseteq unmoved /\ gateMoves < MaxGateMoves /\ gateMoves' = gateMoves + 1
  BY DEF GT!GateInv, GT!PullRequestMoves, GT!LedgerMoves, GT!IssueMoves, GT!Moves, GT!own
<1>2. gateMoves' \in 0 .. MaxGateMoves /\ gateMoves' \in GT!Head
  BY <1>1 DEF GT!GateTypeOK, GT!Head
<1>3. /\ prs' \in [GatePR -> GT!PRType] /\ todos' \in [Todo -> GT!TodoType] /\ bounds' \in GT!Rows
      /\ \A p \in GatePR \cap unmoved' : prs'[p] = prs[p] /\ bounds'[p] = bounds[p]
  <2>1. ASSUME NEW p \in GatePR, GT!PullRequestMoves(p)
        PROVE  prs' \in [GatePR -> GT!PRType] /\ \A q \in GatePR \cap unmoved' : prs'[q] = prs[q]
    <3>1. unmoved' = unmoved \ {p}
      BY <2>1 DEF GT!PullRequestMoves, GT!Moves
    <3>2. prs \in [GatePR -> GT!PRType] /\ prs[p] \in GT!PRType
      BY <1>1 DEF GT!GateTypeOK
    <3>3. \E x \in GT!PRType : prs' = [prs EXCEPT ![p] = x]
      <4>1. CASE \E red \in BOOLEAN : prs' = [prs EXCEPT ![p].head = gateMoves', ![p].red = red]
        <5>1. PICK red \in BOOLEAN : prs' = [prs EXCEPT ![p] = [prs[p] EXCEPT !.head = gateMoves', !.red = red]]
          BY <3>2, <4>1
        <5>2. [prs[p] EXCEPT !.head = gateMoves', !.red = red] \in GT!PRType
          BY <1>2, <3>2 DEF GT!PRType
        <5> QED BY <5>1, <5>2
      <4>2. CASE prs' = [prs EXCEPT ![p].red = ~@]
        <5>1. [prs[p] EXCEPT !.red = ~prs[p].red] \in GT!PRType
          BY <3>2 DEF GT!PRType
        <5> QED BY <3>2, <4>2, <5>1
      <4>3. CASE prs' = [prs EXCEPT ![p].ready = ~@]
        <5>1. [prs[p] EXCEPT !.ready = ~prs[p].ready] \in GT!PRType
          BY <3>2 DEF GT!PRType
        <5> QED BY <3>2, <4>3, <5>1
      <4>4. CASE prs' = [prs EXCEPT ![p].open = FALSE]
        <5>1. [prs[p] EXCEPT !.open = FALSE] \in GT!PRType
          BY <3>2 DEF GT!PRType
        <5> QED BY <3>2, <4>4, <5>1
      <4> QED BY <2>1, <4>1, <4>2, <4>3, <4>4 DEF GT!PullRequestMoves
    <3> QED BY <3>1, <3>2, <3>3
  <2>2. ASSUME NEW p \in GatePR, GT!LedgerMoves(p)
        PROVE  bounds' \in GT!Rows /\ \A q \in GatePR \cap unmoved' : bounds'[q] = bounds[q]
    <3>1. unmoved' = unmoved \ {p} /\ bounds' = [bounds EXCEPT ![p] = [kind |-> "e2e", head |-> prs[p].head]]
      BY <2>2 DEF GT!LedgerMoves, GT!Moves
    <3>2. prs[p].head \in GT!Head
      BY <1>1 DEF GT!GateTypeOK, GT!PRType
    <3> QED BY <1>1, <3>1, <3>2 DEF GT!GateTypeOK, GT!Rows
  <2>3. ASSUME NEW i \in Todo, GT!IssueMoves(i) PROVE todos' \in [Todo -> GT!TodoType]
    <3>1. todos' = [todos EXCEPT ![i].ok = ~@]
      BY <2>3 DEF GT!IssueMoves
    <3>2. todos \in [Todo -> GT!TodoType] /\ todos[i] \in GT!TodoType
      BY <1>1 DEF GT!GateTypeOK
    <3>3. [todos[i] EXCEPT !.ok = ~todos[i].ok] \in GT!TodoType
      BY <3>2 DEF GT!TodoType
    <3> QED BY <3>1, <3>2, <3>3
  <2>4. CASE \E p \in GatePR : GT!PullRequestMoves(p)
    BY <1>1, <2>1, <2>4 DEF GT!PullRequestMoves, GT!GateTypeOK
  <2>5. CASE \E p \in GatePR : GT!LedgerMoves(p)
    BY <1>1, <2>2, <2>5 DEF GT!LedgerMoves, GT!GateTypeOK
  <2>6. CASE \E i \in Todo : GT!IssueMoves(i)
    BY <1>1, <2>3, <2>6 DEF GT!IssueMoves, GT!GateTypeOK
  <2> QED BY <2>4, <2>5, <2>6
<1>4. GT!GateTypeOK'
  BY <1>1, <1>2, <1>3 DEF GT!GateTypeOK
<1>5. GT!ReadsHold'
  BY <1>1, <1>3 DEF GT!ReadsHold
<1>6. GT!SaidWasRead'
  BY <1>1 DEF GT!SaidWasRead, GT!Nothing
<1> QED BY <1>4, <1>5, <1>6 DEF GT!GateInv

LEMMA GateGoes ==
  ASSUME GT!GateInv, GT!GateNext \/ UNCHANGED gateVars PROVE GT!GateInv'
<1>1. CASE GT!GateNext
  BY <1>1, FirstReadsKeep, LastReadsKeep, AnswersKeep, RunsAgainKeep, WorldMovesKeep DEF GT!GateNext
<1>2. CASE UNCHANGED gateVars
  <2>1. UNCHANGED <<prs, todos, bounds, ciCache, todoCache, gpc, ci, ciError, rowsRead, e2e, boundError,
                    todoRead, said, unmoved, gateMoves, gateRuns>>
    BY <1>2 DEF gateVars
  <2>2. GT!GateTypeOK'
    BY <2>1 DEF GT!GateInv, GT!GateTypeOK
  <2>3. GT!ReadsHold' /\ GT!SaidWasRead'
    BY <2>1 DEF GT!GateInv, GT!ReadsHold, GT!SaidWasRead, GT!Nothing
  <2> QED BY <2>2, <2>3 DEF GT!GateInv
<1> QED BY <1>1, <1>2

LEMMA GatesHold ==
  ASSUME GT!GateInv PROVE GT!NoTodoOverBoundary /\ GT!OfTheCurrentHead
<1>1. GT!GateTypeOK /\ GT!ReadsHold /\ GT!SaidWasRead
  BY DEF GT!GateInv
<1>2. said.kind # "none" => gpc = "done"
  BY <1>1 DEF GT!SaidWasRead, GT!Nothing
<1>3. GT!NoTodoOverBoundary
  BY <1>1, <1>2 DEF GT!NoTodoOverBoundary, GT!ReadsHold, GT!SaidWasRead
<1>4. ASSUME said.it \in unmoved, said.kind = "slot_e2e" PROVE bounds[said.it].head = prs[said.it].head
  <2>1. said.it \in e2e /\ ~boundError /\ said.it \in GatePR
    BY <1>1, <1>4 DEF GT!SaidWasRead, GT!ReadsHold, GT!GateTypeOK
  <2> QED BY <1>1, <1>2, <1>4, <2>1 DEF GT!ReadsHold
<1>5. ASSUME said.it \in unmoved, said.kind = "ci_rework"
      PROVE  prs[said.it].open /\ <<said.it, prs[said.it].head>> \in ci
  <2>1. PICK h \in GT!Head : <<said.it, h>> \in ci
    BY <1>1, <1>5 DEF GT!SaidWasRead
  <2>2. said.it \in GatePR
    BY <1>1, <2>1 DEF GT!GateTypeOK
  <2> QED BY <1>1, <1>5, <2>1, <2>2 DEF GT!ReadsHold
<1> QED BY <1>3, <1>4, <1>5 DEF GT!OfTheCurrentHead
-----------------------------------------------------------------------------
(* The cleanup after a merge (CleanupPR).                                   *)

LEMMA StepsAre ==
  /\ CP!Step = {"pr_remove", "pr_add", "issue_remove", "issue_add", "issue_close", "thread_reply"}
  /\ CP!StepStatus = {"none", "reserved", "completed", "effect_started", "ambiguous"}
  /\ CP!Unknown = {"effect_started", "ambiguous"}
  /\ CP!NoReceipt \in CP!ReceiptType /\ CP!NoReceipt.status = "absent"
  /\ \A s \in CP!Step : CP!NoReceipt.steps[s] = "none"
<1>1. <<>> \in Seq(CP!Step)
  OBVIOUS
<1> QED BY <1>1 DEF CP!Step, CP!PRSteps, CP!IssueSteps, CP!StepStatus, CP!Unknown, CP!NoReceipt, CP!ReceiptType

LEMMA KeysAre ==
  /\ \A k \in CP!Key : /\ k = <<k[1], k[2]>> /\ k[1] \in CP!Modes /\ k[2] \in {"first", "continuation"}
  /\ \A m \in CP!Modes : <<m, "first">> \in CP!Key /\ <<m, "continuation">> \in CP!Key
                        /\ CP!CurrentKey(m) \in {<<m, "first">>, <<m, "continuation">>}
BY DEF CP!Key, CP!CurrentKey

(* The step at hand is one of the plan that is not done, and there is one.  *)
LEMMA OneAtHand ==
  ASSUME NEW r \in CP!ReceiptType, NEW s \in CP!AtHand(r)
  PROVE  /\ s \in CP!Step /\ CP!Waits(r, s) /\ s \in {r.plan[i] : i \in DOMAIN r.plan}
         /\ \A t \in CP!AtHand(r) : t = s
<1>1. r.plan \in Seq(CP!Step) /\ DOMAIN r.plan = 1 .. Len(r.plan) /\ Len(r.plan) \in Nat
  BY DEF CP!ReceiptType
<1>2. PICK i \in CP!Pending(r) : s = r.plan[i] /\ \A k \in CP!Pending(r) : i <= k
  BY DEF CP!AtHand
<1>3. i \in DOMAIN r.plan /\ CP!Waits(r, s)
  BY <1>2 DEF CP!Pending
<1>4. ASSUME NEW t \in CP!AtHand(r) PROVE t = s
  <2>1. PICK j \in CP!Pending(r) : t = r.plan[j] /\ \A k \in CP!Pending(r) : j <= k
    BY <1>4 DEF CP!AtHand
  <2>2. j \in DOMAIN r.plan
    BY <2>1 DEF CP!Pending
  <2>3. i <= j /\ j <= i /\ i \in Nat /\ j \in Nat
    BY <1>1, <1>2, <1>3, <2>1, <2>2
  <2>4. i = j
    BY <2>3
  <2> QED BY <1>2, <2>1, <2>4
<1>5. s \in CP!Step
  BY <1>1, <1>2, <1>3
<1> QED BY <1>2, <1>3, <1>4, <1>5

(* Marking a step as anything but done leaves it the one at hand.           *)
LEMMA StaysAtHand ==
  ASSUME NEW r \in CP!ReceiptType, NEW q \in CP!ReceiptType, NEW s \in CP!Step,
         NEW x \in CP!StepStatus \ {"completed"},
         r.steps[s] # "completed", q.plan = r.plan, q.steps = [r.steps EXCEPT ![s] = x]
  PROVE  CP!AtHand(q) = CP!AtHand(r)
<1>1. r.steps \in [CP!Step -> CP!StepStatus] /\ r.plan \in Seq(CP!Step)
  BY DEF CP!ReceiptType
<1>2. \A t \in CP!Step : CP!Waits(q, t) <=> CP!Waits(r, t)
  BY <1>1, StepsAre DEF CP!Waits
<1>3. CP!Pending(q) = CP!Pending(r)
  BY <1>1, <1>2 DEF CP!Pending
<1> QED BY <1>3 DEF CP!AtHand

(* What a plan contains.                                                    *)
LEMMA LabelsPlanned ==
  ASSUME NEW S, NEW remove \in S, NEW add \in S, NEW labels, NEW terminal
  PROVE  CP!LabelPlan(remove, add, labels, terminal) \in Seq(S)
BY DEF CP!LabelPlan

LEMMA PlanIsWhole ==
  ASSUME NEW m \in CP!Modes, NEW residue \in BOOLEAN, NEW w
  PROVE  LET plan == CP!PlanOf(m, residue, w)
             Planned == {plan[i] : i \in DOMAIN plan}
         IN  /\ plan \in Seq(CP!Step)
             /\ residue => Planned \subseteq CP!PRSteps
             /\ "thread_reply" \in Planned => "issue_close" \in Planned
<1> DEFINE pr == CP!LabelPlan("pr_remove", "pr_add", w.prLabels, "clean")
           iss == CP!LabelPlan("issue_remove", "issue_add", w.issueLabels, "done")
           plan == CP!PlanOf(m, residue, w)
           Labels == CP!PRSteps \cup CP!IssueSteps
<1>1. pr \in Seq(CP!PRSteps) /\ iss \in Seq(CP!IssueSteps)
  BY LabelsPlanned DEF CP!PRSteps, CP!IssueSteps
<1> HIDE DEF pr, iss
<1>2. pr \in Seq(Labels) /\ iss \in Seq(Labels) /\ Labels \subseteq CP!Step /\ "thread_reply" \notin Labels
  BY <1>1 DEF CP!PRSteps, CP!IssueSteps, CP!Step
<1>3. CASE residue \/ m = "issue_less"
  <2>1. plan = pr
    BY <1>3 DEF CP!PlanOf, pr
  <2> QED BY <1>1, <1>2, <2>1 DEF CP!PRSteps
<1>4. CASE ~(residue \/ m = "issue_less")
  <2>1. CASE m = "linked"
    <3> DEFINE labels == pr \o iss
    <3>1. plan = labels \o <<"issue_close", "thread_reply">>
      BY <1>4, <2>1 DEF CP!PlanOf, pr, iss
    <3>2. labels \in Seq(Labels)
      BY <1>2
    <3> HIDE DEF labels
    <3>3. labels \in Seq(CP!Step) /\ <<"issue_close", "thread_reply">> \in Seq(CP!Step)
      BY <1>2, <3>2 DEF CP!Step, CP!IssueSteps
    <3>4. plan \in Seq(CP!Step)
      BY <3>1, <3>3
    <3>5. Len(labels) + 1 \in DOMAIN plan /\ plan[Len(labels) + 1] = "issue_close"
      BY <3>1, <3>3
    <3> QED BY <1>4, <3>4, <3>5
  <2>2. CASE m # "linked"
    <3> DEFINE labels == pr \o iss
    <3>1. plan = labels \/ plan = labels \o <<>> \/ plan = labels \o <<"issue_close">>
      BY <1>4, <2>2 DEF CP!PlanOf, pr, iss
    <3>2. labels \in Seq(Labels)
      BY <1>2
    <3> HIDE DEF labels
    <3>3. plan \in Seq(Labels)
      <4>1. <<>> \in Seq(Labels) /\ <<"issue_close">> \in Seq(Labels)
        BY DEF CP!IssueSteps
      <4> QED BY <3>1, <3>2, <4>1
    <3> QED BY <1>2, <1>4, <3>3
  <2> QED BY <2>1, <2>2
<1> QED BY <1>3, <1>4

LEMMA CleanupStarts == CP!CleanupInit => CP!CleanupInv
<1> SUFFICES ASSUME CP!CleanupInit PROVE CP!CleanupInv
  OBVIOUS
<1> USE CleanupAssumption
<1>1. /\ live \in CP!WorldType /\ \A k \in CP!Key : journal[k] = CP!NoReceipt /\ readings[k] = <<>>
      /\ runPc = "idle" /\ cleanprMode = "linked" /\ key = <<"linked", "first">> /\ hint = FALSE
      /\ journal = [k \in CP!Key |-> CP!NoReceipt] /\ readings = [k \in CP!Key |-> <<>>]
      /\ attempts = [m \in CP!Modes |-> [s \in CP!Step |-> 0]]
  BY DEF CP!CleanupInit
<1>2. CP!CleanupTypeOK
  <2>1. /\ \A k \in CP!Key : /\ journal[k].steps \in [CP!Step -> CP!StepStatus]
                             /\ journal[k].unknown \in SUBSET CP!Step
                             /\ \A i \in DOMAIN journal[k].plan : journal[k].plan[i] \in CP!Step
    BY <1>1, StepsAre DEF CP!ReceiptType
  <2> QED BY <1>1, <2>1 DEF CP!CleanupTypeOK, CP!Modes, CP!Key
<1>3. CP!CleanupShape
  BY <1>1, <1>2, StepsAre, KeysAre DEF CP!CleanupShape
<1>4. CP!RunKnowsItsReceipt
  BY <1>1 DEF CP!RunKnowsItsReceipt, CP!AtWork
<1>5. CP!AsksAreMarked
  BY <1>1, KeysAre, StepsAre DEF CP!AsksAreMarked, CP!Entering
<1>6. CP!PlansAreWhole
  <2>1. \A k \in CP!Key : DOMAIN journal[k].plan = {} /\ ~journal[k].residue
    BY <1>1 DEF CP!NoReceipt
  <2> QED BY <1>1, <2>1, StepsAre DEF CP!PlansAreWhole, CP!ReplyAfterClose, CP!IssueSteps
<1> QED BY <1>3, <1>4, <1>5, <1>6 DEF CP!CleanupInv

(* Steps that write no receipt, read nothing and ask for nothing.           *)
LEMMA QuietKeeps ==
  ASSUME CP!CleanupInv, UNCHANGED <<journal, readings, attempts>>,
         live' \in CP!WorldType, hint' \in BOOLEAN, cleanprMode' \in CP!Modes, key' \in CP!Key,
         runPc' \in {"idle", "load", "resume", "plan", "step"} \/ UNCHANGED <<runPc, cleanprMode, key>>,
         CP!RunKnowsItsReceipt'
  PROVE  CP!CleanupInv'
<1>1. CP!CleanupTypeOK'
  BY DEF CP!CleanupInv, CP!CleanupShape, CP!CleanupTypeOK
<1>2. CP!CleanupShape'
  BY <1>1 DEF CP!CleanupInv, CP!CleanupShape
<1>3. \A m \in CP!Modes, s \in CP!Step : CP!Entering(m, s)' => CP!Entering(m, s)
  BY DEF CP!Entering, CP!Receipt
<1>4. CP!AsksAreMarked'
  <2> SUFFICES ASSUME NEW m \in CP!Modes, NEW s \in CP!Step
               PROVE  attempts[m][s] + (IF CP!Entering(m, s)' THEN 1 ELSE 0)
                        <= (IF CP!Tried(journal[CP!CurrentKey(m)], s) THEN 1 ELSE 0)
                             + (IF /\ journal[<<m, "continuation">>] # CP!NoReceipt
                                   /\ s = "pr_add" /\ CP!ReadAbsent(m) THEN 1 ELSE 0)
    BY DEF CP!AsksAreMarked, CP!CurrentKey, CP!ReadAbsent
  <2>1. attempts[m][s] \in Nat
    BY DEF CP!CleanupInv, CP!CleanupShape
  <2> QED BY <1>3, <2>1 DEF CP!CleanupInv, CP!AsksAreMarked
<1>5. CP!PlansAreWhole'
  BY DEF CP!CleanupInv, CP!PlansAreWhole, CP!ReplyAfterClose
<1> QED BY <1>2, <1>4, <1>5 DEF CP!CleanupInv

(* The receipt a later call would find is the one the run works on.         *)
LEMMA AtWorkOn ==
  ASSUME CP!CleanupInv, runPc \in CP!AtWork
  PROVE  /\ cleanprMode \in CP!Modes /\ key \in CP!Key /\ key = CP!CurrentKey(cleanprMode)
         /\ CP!Receipt \in CP!ReceiptType /\ CP!Receipt # CP!NoReceipt
         /\ CP!Receipt = journal[key]
BY DEF CP!CleanupInv, CP!CleanupShape, CP!CleanupTypeOK, CP!RunKnowsItsReceipt, CP!Receipt

(* Marking a step of a receipt keeps what is known of it.                   *)
LEMMA MarkKeeps ==
  ASSUME CP!CleanupInv, runPc \in CP!AtWork, NEW s \in CP!AtHand(CP!Receipt),
         NEW x \in CP!StepStatus \ {"none"}, NEW q \in CP!ReceiptType,
         q.steps = [CP!Receipt.steps EXCEPT ![s] = x],
         q.plan = CP!Receipt.plan, q.residue = CP!Receipt.residue,
         q.status \in {CP!Receipt.status, "processing", "ambiguous"},
         journal' = [journal EXCEPT ![key] = q], UNCHANGED <<readings, cleanprMode, key>>
  PROVE  /\ journal' \in [CP!Key -> CP!ReceiptType]
         /\ \A m \in CP!Modes :
               /\ journal'[<<m, "first">>] = CP!NoReceipt => journal'[<<m, "continuation">>] = CP!NoReceipt
               /\ (journal'[<<m, "continuation">>] = CP!NoReceipt)
                     <=> (journal[<<m, "continuation">>] = CP!NoReceipt)
               /\ CP!CurrentKey(m)' = CP!CurrentKey(m)
               /\ m # cleanprMode => journal'[CP!CurrentKey(m)] = journal[CP!CurrentKey(m)]
         /\ journal'[CP!CurrentKey(cleanprMode)] = q
         /\ CP!Receipt' = q /\ q # CP!NoReceipt
         /\ CP!PlansAreWhole'
<1> DEFINE r == CP!Receipt
<1>1. /\ cleanprMode \in CP!Modes /\ key \in CP!Key /\ key = CP!CurrentKey(cleanprMode)
      /\ r \in CP!ReceiptType /\ r # CP!NoReceipt /\ r = journal[key]
      /\ journal \in [CP!Key -> CP!ReceiptType]
  BY AtWorkOn DEF CP!CleanupInv, CP!CleanupShape
<1>2. s \in CP!Step /\ CP!Waits(r, s) /\ s \in {r.plan[i] : i \in DOMAIN r.plan}
  BY <1>1, OneAtHand
<1>3. r.steps \in [CP!Step -> CP!StepStatus] /\ q.steps[s] = x
  BY <1>1, <1>2 DEF CP!ReceiptType
<1>4. q # CP!NoReceipt
  BY <1>2, <1>3, StepsAre
<1>5. journal' \in [CP!Key -> CP!ReceiptType] /\ journal'[key] = q
      /\ \A k \in CP!Key : k # key => journal'[k] = journal[k]
  BY <1>1
<1>6. CP!Receipt' = q
  BY <1>5 DEF CP!Receipt
<1>7. \A k \in CP!Key : (journal'[k] = CP!NoReceipt) <=> (journal[k] = CP!NoReceipt)
  BY <1>1, <1>4, <1>5
<1>8. ASSUME NEW m \in CP!Modes
      PROVE  /\ journal'[<<m, "first">>] = CP!NoReceipt => journal'[<<m, "continuation">>] = CP!NoReceipt
             /\ (journal'[<<m, "continuation">>] = CP!NoReceipt)
                  <=> (journal[<<m, "continuation">>] = CP!NoReceipt)
             /\ CP!CurrentKey(m)' = CP!CurrentKey(m)
             /\ m # cleanprMode => journal'[CP!CurrentKey(m)] = journal[CP!CurrentKey(m)]
  <2>1. /\ <<m, "first">> \in CP!Key /\ <<m, "continuation">> \in CP!Key
        /\ CP!CurrentKey(m) \in {<<m, "first">>, <<m, "continuation">>}
        /\ CP!CurrentKey(cleanprMode) \in {<<cleanprMode, "first">>, <<cleanprMode, "continuation">>}
    BY <1>1, KeysAre
  <2>2. CP!CurrentKey(m)' = CP!CurrentKey(m)
    BY <1>7, <2>1 DEF CP!CurrentKey
  <2>3. m # cleanprMode => CP!CurrentKey(m) # key
    BY <1>1, <2>1
  <2> QED BY <1>5, <1>7, <2>1, <2>2, <2>3 DEF CP!CleanupInv, CP!CleanupShape
<1>9. CP!PlansAreWhole'
  <2> SUFFICES ASSUME NEW k \in CP!Key
               PROVE  LET o == journal'[k]
                          Planned == {o.plan[i] : i \in DOMAIN o.plan}
                      IN  /\ o.steps["thread_reply"] # "none" => o.steps["issue_close"] = "completed"
                          /\ o.residue => \A t \in CP!IssueSteps : o.steps[t] = "none"
                          /\ o.status = "completed" => \A i \in DOMAIN o.plan : o.steps[o.plan[i]] = "completed"
                          /\ o.residue => Planned \subseteq CP!PRSteps
                          /\ "thread_reply" \in Planned => "issue_close" \in Planned
    BY DEF CP!PlansAreWhole, CP!ReplyAfterClose
  <2>1. /\ journal[k].steps["thread_reply"] # "none" => journal[k].steps["issue_close"] = "completed"
        /\ journal[k].residue => \A t \in CP!IssueSteps : journal[k].steps[t] = "none"
        /\ journal[k].status = "completed" =>
              \A i \in DOMAIN journal[k].plan : journal[k].steps[journal[k].plan[i]] = "completed"
        /\ journal[k].residue => {journal[k].plan[i] : i \in DOMAIN journal[k].plan} \subseteq CP!PRSteps
        /\ "thread_reply" \in {journal[k].plan[i] : i \in DOMAIN journal[k].plan} =>
              "issue_close" \in {journal[k].plan[i] : i \in DOMAIN journal[k].plan}
    BY DEF CP!CleanupInv, CP!PlansAreWhole, CP!ReplyAfterClose
  <2>2. CASE k # key
    BY <1>5, <2>1, <2>2
  <2>3. CASE k = key
    <3> HIDE DEF r
    <3>1. journal[k] = r /\ journal'[k] = q
      BY <1>1, <1>5, <2>3
    <3>2. q.steps["thread_reply"] # "none" => q.steps["issue_close"] = "completed"
      <4>1. CASE s = "thread_reply"
        BY <1>2, <1>3, <4>1, StepsAre DEF CP!Waits, r
      <4>2. CASE s = "issue_close"
        BY <1>2, <1>3, <2>1, <3>1, <4>2, StepsAre DEF CP!Waits, r
      <4>3. CASE s \notin {"thread_reply", "issue_close"}
        BY <1>3, <2>1, <3>1, <4>3, StepsAre DEF r
      <4> QED BY <4>1, <4>2, <4>3
    <3>3. q.residue => \A t \in CP!IssueSteps : q.steps[t] = "none"
      <4>1. r.residue => s \in CP!PRSteps
        BY <1>2, <2>1, <3>1
      <4>2. \A t \in CP!IssueSteps : t \in CP!Step /\ t \notin CP!PRSteps
        BY DEF CP!IssueSteps, CP!PRSteps, CP!Step
      <4>3. \A t \in CP!Step : t # s => q.steps[t] = r.steps[t]
        BY <1>3 DEF r
      <4>4. q.residue = r.residue
        BY DEF r
      <4> QED BY <2>1, <3>1, <4>1, <4>2, <4>3, <4>4
    <3>4. r.status # "completed"
      <4>1. PICK i \in DOMAIN r.plan : s = r.plan[i]
        BY <1>2
      <4> QED BY <1>2, <2>1, <3>1, <4>1 DEF CP!Waits
    <3>5. q.status # "completed"
      BY <3>4 DEF r
    <3>6. q.plan = r.plan /\ q.residue = r.residue
      BY DEF r
    <3>7. q.residue => {q.plan[i] : i \in DOMAIN q.plan} \subseteq CP!PRSteps
      BY <2>1, <3>1, <3>6
    <3>8. "thread_reply" \in {q.plan[i] : i \in DOMAIN q.plan} =>
             "issue_close" \in {q.plan[i] : i \in DOMAIN q.plan}
      <4>1. {q.plan[i] : i \in DOMAIN q.plan} = {journal[k].plan[i] : i \in DOMAIN journal[k].plan}
        BY <3>1, <3>6
      <4> QED BY <2>1, <4>1
    <3>9. journal'[k] = q
      BY <3>1
    <3> QED BY ONLY <3>2, <3>3, <3>5, <3>7, <3>8, <3>9
  <2> QED BY <2>2, <2>3
<1> QED BY <1>1, <1>4, <1>5, <1>6, <1>8, <1>9

(* What was asked stays within what the receipts show, if the step at hand  *)
(* keeps that.                                                              *)
LEMMA AsksFollow ==
  ASSUME CP!CleanupInv, UNCHANGED readings, NEW n \in CP!Modes, NEW s \in CP!Step,
         attempts' \in [CP!Modes -> [CP!Step -> Nat]],
         \A m \in CP!Modes : (journal'[<<m, "continuation">>] = CP!NoReceipt)
                                <=> (journal[<<m, "continuation">>] = CP!NoReceipt),
         \A m \in CP!Modes, t \in CP!Step : <<m, t>> # <<n, s>> =>
              /\ attempts'[m][t] = attempts[m][t] /\ (CP!Entering(m, t)' => CP!Entering(m, t))
              /\ CP!Tried(journal[CP!CurrentKey(m)], t) => CP!Tried(journal[CP!CurrentKey(m)], t)',
         attempts'[n][s] + (IF CP!Entering(n, s)' THEN 1 ELSE 0)
             + (IF CP!Tried(journal[CP!CurrentKey(n)], s) THEN 1 ELSE 0)
           <= attempts[n][s] + (IF CP!Entering(n, s) THEN 1 ELSE 0)
             + (IF CP!Tried(journal[CP!CurrentKey(n)], s)' THEN 1 ELSE 0)
  PROVE  CP!AsksAreMarked'
<1> SUFFICES ASSUME NEW m \in CP!Modes, NEW t \in CP!Step
             PROVE  attempts'[m][t] + (IF CP!Entering(m, t)' THEN 1 ELSE 0)
                      <= (IF CP!Tried(journal[CP!CurrentKey(m)], t)' THEN 1 ELSE 0)
                           + (IF /\ journal'[<<m, "continuation">>] # CP!NoReceipt
                                 /\ t = "pr_add" /\ CP!ReadAbsent(m)' THEN 1 ELSE 0)
  BY DEF CP!AsksAreMarked
<1>1. CP!ReadAbsent(m)' = CP!ReadAbsent(m)
  BY DEF CP!ReadAbsent
<1>2. attempts[m][t] \in Nat /\ attempts'[m][t] \in Nat
  BY DEF CP!CleanupInv, CP!CleanupShape
<1>3. attempts[m][t] + (IF CP!Entering(m, t) THEN 1 ELSE 0)
         <= (IF CP!Tried(journal[CP!CurrentKey(m)], t) THEN 1 ELSE 0)
              + (IF /\ journal[<<m, "continuation">>] # CP!NoReceipt
                    /\ t = "pr_add" /\ CP!ReadAbsent(m) THEN 1 ELSE 0)
  BY DEF CP!CleanupInv, CP!AsksAreMarked
<1>4. CASE m = n /\ t = s
  BY <1>1, <1>2, <1>3, <1>4
<1>5. CASE ~(m = n /\ t = s)
  <2>1. <<m, t>> # <<n, s>>
    BY <1>5
  <2> QED BY <1>1, <1>2, <1>3, <2>1
<1> QED BY <1>4, <1>5

(* The steps of the run.                                                    *)

(* A write about the step at hand keeps all of it.                          *)
LEMMA WriteKeeps ==
  ASSUME CP!CleanupInv, runPc \in CP!AtWork, NEW s \in CP!AtHand(CP!Receipt),
         NEW x \in CP!StepStatus \ {"none"}, NEW q \in CP!ReceiptType,
         q.steps = [CP!Receipt.steps EXCEPT ![s] = x],
         q.plan = CP!Receipt.plan, q.residue = CP!Receipt.residue,
         q.status \in {CP!Receipt.status, "processing", "ambiguous"},
         journal' = [journal EXCEPT ![key] = q], UNCHANGED <<readings, cleanprMode, key>>,
         live' \in CP!WorldType, hint' \in BOOLEAN, runPc' \in CP!AtWork \cup {"idle"},
         attempts' \in [CP!Modes -> [CP!Step -> Nat]],
         \A m \in CP!Modes, t \in CP!Step :
            <<m, t>> # <<cleanprMode, s>> => attempts'[m][t] = attempts[m][t],
         attempts'[cleanprMode][s] + (IF runPc' = "effect" THEN 1 ELSE 0)
             + (IF CP!Tried(CP!Receipt, s) THEN 1 ELSE 0)
           <= attempts[cleanprMode][s] + (IF runPc = "effect" THEN 1 ELSE 0)
             + (IF CP!Tried(q, s) THEN 1 ELSE 0),
         runPc' \in {"resume", "step", "reserved"} => \A t \in CP!Step : q.steps[t] \notin CP!Unknown,
         runPc' \in {"effect", "readback"} =>
            \A t \in CP!Step : q.steps[t] \in CP!Unknown <=> t \in CP!AtHand(q),
         runPc' = "effect" => CP!AtHand(q) \subseteq {s},
         runPc' \in CP!AtWork => q.status # "ambiguous" /\ q.unknown = {}
  PROVE  CP!CleanupInv'
<1> DEFINE r == CP!Receipt
<1>1. /\ cleanprMode \in CP!Modes /\ key \in CP!Key /\ key = CP!CurrentKey(cleanprMode)
      /\ r \in CP!ReceiptType /\ r # CP!NoReceipt /\ r = journal[key]
  BY AtWorkOn
<1>2. s \in CP!Step /\ CP!Waits(r, s)
  BY <1>1, OneAtHand
<1>3. /\ journal' \in [CP!Key -> CP!ReceiptType]
      /\ \A m \in CP!Modes :
            /\ journal'[<<m, "first">>] = CP!NoReceipt => journal'[<<m, "continuation">>] = CP!NoReceipt
            /\ (journal'[<<m, "continuation">>] = CP!NoReceipt)
                  <=> (journal[<<m, "continuation">>] = CP!NoReceipt)
            /\ CP!CurrentKey(m)' = CP!CurrentKey(m)
            /\ m # cleanprMode => journal'[CP!CurrentKey(m)] = journal[CP!CurrentKey(m)]
      /\ journal'[CP!CurrentKey(cleanprMode)] = q
      /\ CP!Receipt' = q /\ q # CP!NoReceipt
      /\ CP!PlansAreWhole'
  BY MarkKeeps
<1>4. CP!CleanupTypeOK'
  <2>1. runPc' \in {"idle", "load", "resume", "plan", "step", "reserved", "effect", "readback"}
    BY DEF CP!AtWork
  <2>2. \A k \in CP!Key : /\ journal'[k].steps \in [CP!Step -> CP!StepStatus]
                          /\ journal'[k].unknown \in SUBSET CP!Step
                          /\ \A i \in DOMAIN journal'[k].plan : journal'[k].plan[i] \in CP!Step
    BY <1>3 DEF CP!ReceiptType
  <2> QED BY <1>1, <2>1, <2>2 DEF CP!CleanupTypeOK
<1>5. CP!CleanupShape'
  BY <1>3, <1>4 DEF CP!CleanupInv, CP!CleanupShape
<1>6. CP!RunKnowsItsReceipt'
  BY <1>1, <1>3, StepsAre DEF CP!RunKnowsItsReceipt, CP!AtWork
<1>7. \A m \in CP!Modes, t \in CP!Step : <<m, t>> # <<cleanprMode, s>> =>
         /\ (CP!Entering(m, t)' => CP!Entering(m, t))
         /\ CP!Tried(journal[CP!CurrentKey(m)], t) => CP!Tried(journal[CP!CurrentKey(m)], t)'
  <2> SUFFICES ASSUME NEW m \in CP!Modes, NEW t \in CP!Step, <<m, t>> # <<cleanprMode, s>>
               PROVE  /\ (CP!Entering(m, t)' => CP!Entering(m, t))
                      /\ CP!Tried(journal[CP!CurrentKey(m)], t) => CP!Tried(journal[CP!CurrentKey(m)], t)'
    OBVIOUS
  <2>1. ~CP!Entering(m, t)'
    BY <1>3 DEF CP!Entering
  <2>2. CASE m # cleanprMode
    BY <1>3, <2>1, <2>2 DEF CP!Tried
  <2>3. CASE m = cleanprMode
    <3>1. t # s
      BY <2>3
    <3>2. r.steps \in [CP!Step -> CP!StepStatus]
      BY <1>1 DEF CP!ReceiptType
    <3>3. q.steps[t] = r.steps[t]
      BY <1>2, <3>1, <3>2
    <3>4. (journal[CP!CurrentKey(m)])' = q /\ journal[CP!CurrentKey(m)] = r
      BY <1>1, <1>3, <2>3
    <3> QED BY <2>1, <3>3, <3>4 DEF CP!Tried
  <2> QED BY <2>2, <2>3
<1>8. PICK n \in CP!Modes : n = cleanprMode
  BY <1>1
<1>9. /\ (CP!Entering(n, s)' <=> runPc' = "effect" /\ s \in CP!AtHand(q))
      /\ (CP!Entering(n, s) <=> runPc = "effect")
      /\ journal[CP!CurrentKey(n)] = r
      /\ (journal[CP!CurrentKey(n)])' = q
  BY <1>1, <1>3, <1>8 DEF CP!Entering
<1>10. attempts'[n][s] \in Nat /\ attempts[n][s] \in Nat
  BY <1>1, <1>2 DEF CP!CleanupInv, CP!CleanupShape
<1>11. (CP!Tried(journal[CP!CurrentKey(n)], s) <=> CP!Tried(r, s))
       /\ (CP!Tried(journal[CP!CurrentKey(n)], s)' <=> CP!Tried(q, s))
  BY <1>9 DEF CP!Tried
<1>12. attempts'[n][s] + (IF CP!Entering(n, s)' THEN 1 ELSE 0)
             + (IF CP!Tried(journal[CP!CurrentKey(n)], s) THEN 1 ELSE 0)
           <= attempts[n][s] + (IF CP!Entering(n, s) THEN 1 ELSE 0)
             + (IF CP!Tried(journal[CP!CurrentKey(n)], s)' THEN 1 ELSE 0)
  BY <1>8, <1>9, <1>10, <1>11
<1>13. CP!AsksAreMarked'
  <2>1. \A m \in CP!Modes : (journal'[<<m, "continuation">>] = CP!NoReceipt)
                                <=> (journal[<<m, "continuation">>] = CP!NoReceipt)
    BY <1>3
  <2>2. \A m \in CP!Modes, t \in CP!Step : <<m, t>> # <<n, s>> =>
              /\ attempts'[m][t] = attempts[m][t] /\ (CP!Entering(m, t)' => CP!Entering(m, t))
              /\ CP!Tried(journal[CP!CurrentKey(m)], t) => CP!Tried(journal[CP!CurrentKey(m)], t)'
    BY <1>7, <1>8
  <2> QED BY <1>2, <1>12, <2>1, <2>2, AsksFollow
<1> QED BY <1>3, <1>5, <1>6, <1>13 DEF CP!CleanupInv

(* The steps of the run.                                                    *)
LEMMA ReserveKeeps == CP!CleanupInv /\ CP!Reserve => CP!CleanupInv'
<1> SUFFICES ASSUME CP!CleanupInv, CP!Reserve PROVE CP!CleanupInv'
  OBVIOUS
<1>1. PICK s \in CP!AtHand(CP!Receipt) :
         journal' = [journal EXCEPT ![key] =
                        [[CP!Receipt EXCEPT !.steps[s] = "reserved"] EXCEPT !.status = "processing"]]
  BY DEF CP!Reserve, CP!Write, CP!Mark
<1>q. PICK q : q = [[CP!Receipt EXCEPT !.steps[s] = "reserved"] EXCEPT !.status = "processing"]
  OBVIOUS
<1>2. runPc = "step" /\ runPc' = "reserved" /\ runPc \in CP!AtWork
      /\ UNCHANGED <<live, readings, cleanprMode, key, hint, attempts>>
  BY DEF CP!Reserve, CP!AtWork
<1>3. CP!Receipt \in CP!ReceiptType /\ cleanprMode \in CP!Modes
  BY <1>2, AtWorkOn
<1>4. s \in CP!Step /\ CP!Waits(CP!Receipt, s)
  BY <1>1, <1>3, OneAtHand
<1>5. q \in CP!ReceiptType /\ q.steps = [CP!Receipt.steps EXCEPT ![s] = "reserved"] /\ q.plan = CP!Receipt.plan
      /\ q.residue = CP!Receipt.residue /\ q.status = "processing" /\ q.unknown = CP!Receipt.unknown
  <2>1. PICK p : p = [CP!Receipt EXCEPT !.steps[s] = "reserved"]
    OBVIOUS
  <2>2. p \in CP!ReceiptType /\ p.steps = [CP!Receipt.steps EXCEPT ![s] = "reserved"] /\ p.plan = CP!Receipt.plan /\ p.residue = CP!Receipt.residue /\ p.unknown = CP!Receipt.unknown
    BY <1>3, <1>4, <2>1, StepsAre DEF CP!ReceiptType
  <2>3. q = [p EXCEPT !.status = "processing"]
    BY <1>q, <2>1
  <2> QED BY <2>2, <2>3 DEF CP!ReceiptType
<1>6. journal' = [journal EXCEPT ![key] = q]
  BY <1>1, <1>q
<1>7. (\A t \in CP!Step : CP!Receipt.steps[t] \notin CP!Unknown) /\ CP!Receipt.unknown = {}
  BY <1>2 DEF CP!CleanupInv, CP!RunKnowsItsReceipt
<1>14. q.status # "ambiguous" /\ q.unknown = {}
  BY <1>5, <1>7
<1>8. \A t \in CP!Step : q.steps[t] \notin CP!Unknown
  <2>1. CP!Receipt.steps \in [CP!Step -> CP!StepStatus]
    BY <1>3 DEF CP!ReceiptType
  <2> QED BY <1>4, <1>5, <1>7, <2>1, StepsAre
<1>9. ~CP!Tried(CP!Receipt, s)
  BY <1>4, <1>7 DEF CP!Tried, CP!Waits
<1>10. attempts \in [CP!Modes -> [CP!Step -> Nat]] /\ attempts[cleanprMode][s] \in Nat
       /\ live \in CP!WorldType /\ hint \in BOOLEAN
  BY <1>3, <1>4 DEF CP!CleanupInv, CP!CleanupShape, CP!CleanupTypeOK
<1>11. "reserved" \in CP!StepStatus \ {"none"} /\ "reserved" \in CP!AtWork
  BY StepsAre DEF CP!AtWork
<1>12. attempts'[cleanprMode][s] + (IF runPc' = "effect" THEN 1 ELSE 0) + (IF CP!Tried(CP!Receipt, s) THEN 1 ELSE 0)
         <= attempts[cleanprMode][s] + (IF runPc = "effect" THEN 1 ELSE 0) + (IF CP!Tried(q, s) THEN 1 ELSE 0)
  BY <1>2, <1>9, <1>10
<1>13. /\ q.status \in {CP!Receipt.status, "processing", "ambiguous"}
       /\ UNCHANGED <<readings, cleanprMode, key>> /\ live' \in CP!WorldType /\ hint' \in BOOLEAN
       /\ runPc' \in CP!AtWork \cup {"idle"} /\ attempts' \in [CP!Modes -> [CP!Step -> Nat]]
       /\ \A m \in CP!Modes, t \in CP!Step :
             <<m, t>> # <<cleanprMode, s>> => attempts'[m][t] = attempts[m][t]
       /\ runPc' \in {"resume", "step", "reserved"} => \A t \in CP!Step : q.steps[t] \notin CP!Unknown
       /\ runPc' \notin {"effect", "readback"}
  BY <1>2, <1>5, <1>8, <1>10, <1>11
<1>15. CP!CleanupInv /\ s \in CP!AtHand(CP!Receipt)
  BY <1>1
<1> QED BY ONLY <1>2, <1>5, <1>6, <1>11, <1>12, <1>13, <1>14, <1>15, WriteKeeps

LEMMA AtHandIs ==
  ASSUME CP!CleanupInv, runPc \in CP!AtWork, NEW s \in CP!AtHand(CP!Receipt)
  PROVE  /\ s \in CP!Step /\ CP!Waits(CP!Receipt, s) /\ CP!Receipt \in CP!ReceiptType
         /\ \A t \in CP!AtHand(CP!Receipt) : t = s
         /\ CP!Receipt.steps \in [CP!Step -> CP!StepStatus] /\ CP!Receipt.unknown \in SUBSET CP!Step
         /\ attempts \in [CP!Modes -> [CP!Step -> Nat]] /\ attempts[cleanprMode][s] \in Nat
         /\ live \in CP!WorldType /\ hint \in BOOLEAN /\ cleanprMode \in CP!Modes
<1>1. CP!Receipt \in CP!ReceiptType /\ cleanprMode \in CP!Modes
  BY AtWorkOn
<1>2. s \in CP!Step /\ CP!Waits(CP!Receipt, s) /\ \A t \in CP!AtHand(CP!Receipt) : t = s
  BY <1>1, OneAtHand
<1> QED BY <1>1, <1>2 DEF CP!ReceiptType, CP!CleanupInv, CP!CleanupShape, CP!CleanupTypeOK

LEMMA StartKeeps == CP!CleanupInv /\ CP!MarkStarted => CP!CleanupInv'
<1> SUFFICES ASSUME CP!CleanupInv, CP!MarkStarted PROVE CP!CleanupInv'
  OBVIOUS
<1>1. PICK s \in CP!AtHand(CP!Receipt) :
         journal' = [journal EXCEPT ![key] = [CP!Receipt EXCEPT !.steps[s] = "effect_started"]]
  BY DEF CP!MarkStarted, CP!Write, CP!Mark
<1>q. PICK q : q = [CP!Receipt EXCEPT !.steps[s] = "effect_started"]
  OBVIOUS
<1>2. runPc = "reserved" /\ runPc' = "effect" /\ runPc \in CP!AtWork /\ runPc' \in CP!AtWork
      /\ UNCHANGED <<live, readings, cleanprMode, key, hint, attempts>>
  BY DEF CP!MarkStarted, CP!AtWork
<1>3. /\ s \in CP!Step /\ CP!Waits(CP!Receipt, s) /\ CP!Receipt \in CP!ReceiptType
      /\ \A t \in CP!AtHand(CP!Receipt) : t = s
      /\ CP!Receipt.steps \in [CP!Step -> CP!StepStatus]
      /\ attempts \in [CP!Modes -> [CP!Step -> Nat]] /\ attempts[cleanprMode][s] \in Nat
      /\ live \in CP!WorldType /\ hint \in BOOLEAN
  BY <1>2, AtHandIs
<1>4. /\ q \in CP!ReceiptType /\ q.steps = [CP!Receipt.steps EXCEPT ![s] = "effect_started"]
      /\ q.plan = CP!Receipt.plan /\ q.residue = CP!Receipt.residue /\ q.status = CP!Receipt.status
      /\ q.unknown = CP!Receipt.unknown
  BY <1>q, <1>3, StepsAre DEF CP!ReceiptType
<1>12. q.status # "ambiguous" /\ q.unknown = {}
  BY <1>2, <1>4 DEF CP!CleanupInv, CP!RunKnowsItsReceipt
<1>5. journal' = [journal EXCEPT ![key] = q]
  BY <1>1, <1>q
<1>6. \A t \in CP!Step : CP!Receipt.steps[t] \notin CP!Unknown
  BY <1>2 DEF CP!CleanupInv, CP!RunKnowsItsReceipt
<1>7. CP!AtHand(q) = CP!AtHand(CP!Receipt)
  <2>1. CP!Receipt.steps[s] # "completed"
    BY <1>3 DEF CP!Waits
  <2> QED BY <1>3, <1>4, <2>1, StaysAtHand, StepsAre
<1>8. \A t \in CP!Step : q.steps[t] \in CP!Unknown <=> t \in CP!AtHand(q)
  BY <1>1, <1>3, <1>4, <1>6, <1>7, StepsAre
<1>9. CP!Tried(q, s) /\ "effect_started" \in CP!StepStatus \ {"none"}
  BY <1>3, <1>4, StepsAre DEF CP!Tried
<1>10. attempts'[cleanprMode][s] + (IF runPc' = "effect" THEN 1 ELSE 0) + (IF CP!Tried(CP!Receipt, s) THEN 1 ELSE 0)
         <= attempts[cleanprMode][s] + (IF runPc = "effect" THEN 1 ELSE 0) + (IF CP!Tried(q, s) THEN 1 ELSE 0)
  <2>1. ~CP!Tried(CP!Receipt, s)
    BY <1>3, <1>6 DEF CP!Tried, CP!Waits
  <2> QED BY <1>2, <1>3, <1>9, <2>1
<1>11. /\ q.status \in {CP!Receipt.status, "processing", "ambiguous"}
       /\ UNCHANGED <<readings, cleanprMode, key>> /\ live' \in CP!WorldType /\ hint' \in BOOLEAN
       /\ runPc' \in CP!AtWork \cup {"idle"} /\ attempts' \in [CP!Modes -> [CP!Step -> Nat]]
       /\ \A m \in CP!Modes, t \in CP!Step :
             <<m, t>> # <<cleanprMode, s>> => attempts'[m][t] = attempts[m][t]
       /\ runPc' \notin {"resume", "step", "reserved"}
       /\ CP!AtHand(q) \subseteq {s}
  BY <1>2, <1>3, <1>4, <1>7
<1> QED BY <1>1, <1>2, <1>4, <1>5, <1>8, <1>9, <1>10, <1>11, <1>12, WriteKeeps

(* An outcome that is unknown is written down as such.                      *)
LEMMA UnknownKeeps ==
  ASSUME CP!CleanupInv, runPc \in {"effect", "readback"}, NEW s \in CP!AtHand(CP!Receipt),
         journal' = [journal EXCEPT ![key] = CP!MarkUnknown(s)],
         UNCHANGED <<readings, cleanprMode, key, hint>>, live' \in CP!WorldType, runPc' = "idle",
         \/ UNCHANGED attempts /\ runPc = "readback"
         \/ attempts' = [attempts EXCEPT ![cleanprMode][s] = @ + 1] /\ runPc = "effect"
  PROVE  CP!CleanupInv'
<1>q. PICK q : q = CP!MarkUnknown(s)
  OBVIOUS
<1>1. runPc \in CP!AtWork
  BY DEF CP!AtWork
<1>3. /\ s \in CP!Step /\ CP!Waits(CP!Receipt, s) /\ CP!Receipt \in CP!ReceiptType
      /\ CP!Receipt.steps \in [CP!Step -> CP!StepStatus]
      /\ attempts \in [CP!Modes -> [CP!Step -> Nat]] /\ attempts[cleanprMode][s] \in Nat
      /\ live \in CP!WorldType /\ hint \in BOOLEAN /\ cleanprMode \in CP!Modes
  BY <1>1, AtHandIs
<1>4. /\ q \in CP!ReceiptType /\ q.steps = [CP!Receipt.steps EXCEPT ![s] = "ambiguous"]
      /\ q.plan = CP!Receipt.plan /\ q.residue = CP!Receipt.residue /\ q.status = "ambiguous"
  <2>1. PICK p : p = [CP!Receipt EXCEPT !.steps[s] = "ambiguous"]
    OBVIOUS
  <2>2. /\ p \in CP!ReceiptType /\ p.steps = [CP!Receipt.steps EXCEPT ![s] = "ambiguous"]
        /\ p.plan = CP!Receipt.plan /\ p.residue = CP!Receipt.residue
    BY <1>3, <2>1, StepsAre DEF CP!ReceiptType
  <2>3. q = [p EXCEPT !.status = "ambiguous", !.unknown = @ \cup {s}]
    BY <1>q, <2>1 DEF CP!MarkUnknown, CP!Mark
  <2> QED BY <1>3, <2>2, <2>3 DEF CP!ReceiptType
<1>5. journal' = [journal EXCEPT ![key] = q]
  BY <1>q
<1>6. CP!Tried(q, s) /\ "ambiguous" \in CP!StepStatus \ {"none"}
  BY <1>3, <1>4, StepsAre DEF CP!Tried
<1>7. CP!Tried(CP!Receipt, s)
  BY <1>3 DEF CP!CleanupInv, CP!RunKnowsItsReceipt, CP!Tried
<1>8. /\ attempts' \in [CP!Modes -> [CP!Step -> Nat]]
      /\ \A m \in CP!Modes, t \in CP!Step :
            <<m, t>> # <<cleanprMode, s>> => attempts'[m][t] = attempts[m][t]
      /\ attempts'[cleanprMode][s] = attempts[cleanprMode][s] + (IF runPc = "effect" THEN 1 ELSE 0)
  BY <1>3
<1>10. attempts'[cleanprMode][s] + (IF runPc' = "effect" THEN 1 ELSE 0) + (IF CP!Tried(CP!Receipt, s) THEN 1 ELSE 0)
         <= attempts[cleanprMode][s] + (IF runPc = "effect" THEN 1 ELSE 0) + (IF CP!Tried(q, s) THEN 1 ELSE 0)
  BY <1>3, <1>6, <1>7, <1>8
<1>11. /\ q.status \in {CP!Receipt.status, "processing", "ambiguous"}
       /\ hint' \in BOOLEAN /\ runPc' \in CP!AtWork \cup {"idle"}
       /\ UNCHANGED <<readings, cleanprMode, key>> /\ live' \in CP!WorldType
       /\ runPc' \in {"resume", "step", "reserved"} => \A t \in CP!Step : q.steps[t] \notin CP!Unknown
       /\ runPc' \in {"effect", "readback"} =>
             \A t \in CP!Step : q.steps[t] \in CP!Unknown <=> t \in CP!AtHand(q)
       /\ runPc' = "effect" => CP!AtHand(q) \subseteq {s}
       /\ runPc' \notin CP!AtWork
  BY <1>3, <1>4 DEF CP!AtWork
<1>12. CP!CleanupInv /\ s \in CP!AtHand(CP!Receipt)
  OBVIOUS
<1> QED BY ONLY <1>1, <1>4, <1>5, <1>6, <1>8, <1>10, <1>11, <1>12, WriteKeeps

LEMMA EffectKeeps == CP!CleanupInv /\ CP!Effect => CP!CleanupInv'
<1> SUFFICES ASSUME CP!CleanupInv, CP!Effect PROVE CP!CleanupInv'
  OBVIOUS
<1>1. PICK s \in CP!AtHand(CP!Receipt) :
         /\ attempts' = [attempts EXCEPT ![cleanprMode][s] = @ + 1]
         /\ \/ /\ live' = CP!Applied(s, live) /\ runPc' = "readback" /\ UNCHANGED journal
            \/ /\ live' \in {live, CP!Applied(s, live)}
               /\ journal' = [journal EXCEPT ![key] = CP!MarkUnknown(s)] /\ runPc' = "idle"
  BY DEF CP!Effect, CP!Write
<1>2. runPc = "effect" /\ runPc \in CP!AtWork /\ UNCHANGED <<readings, cleanprMode, key, hint>>
  BY DEF CP!Effect, CP!AtWork
<1>3. /\ s \in CP!Step /\ CP!Receipt \in CP!ReceiptType
      /\ \A t \in CP!AtHand(CP!Receipt) : t = s
      /\ attempts \in [CP!Modes -> [CP!Step -> Nat]] /\ attempts[cleanprMode][s] \in Nat
      /\ live \in CP!WorldType /\ hint \in BOOLEAN /\ cleanprMode \in CP!Modes
  BY <1>2, AtHandIs
<1>4. live' \in CP!WorldType
  <2>1. CP!Applied(s, live) \in CP!WorldType
    BY <1>3, StepsAre DEF CP!Applied, CP!WorldType
  <2> QED BY <1>1, <1>3, <2>1
<1>5. CASE journal' = [journal EXCEPT ![key] = CP!MarkUnknown(s)] /\ runPc' = "idle"
  BY <1>1, <1>2, <1>4, <1>5, UnknownKeeps
<1>6. CASE runPc' = "readback" /\ UNCHANGED journal
  <2>1. CP!Receipt' = CP!Receipt
    BY <1>2, <1>6 DEF CP!Receipt
  <2>2. \A m \in CP!Modes : CP!CurrentKey(m)' = CP!CurrentKey(m)
    BY <1>6 DEF CP!CurrentKey
  <2>3. attempts' \in [CP!Modes -> [CP!Step -> Nat]]
        /\ (\A m \in CP!Modes, t \in CP!Step : <<m, t>> # <<cleanprMode, s>> => attempts'[m][t] = attempts[m][t])
        /\ attempts'[cleanprMode][s] = attempts[cleanprMode][s] + 1
    BY <1>1, <1>3
  <2>4. CP!CleanupShape'
    BY <1>2, <1>3, <1>4, <1>6, <2>3 DEF CP!CleanupInv, CP!CleanupShape, CP!CleanupTypeOK
  <2>5. CP!RunKnowsItsReceipt'
    BY <1>2, <1>3, <1>6, <2>1, <2>2 DEF CP!CleanupInv, CP!RunKnowsItsReceipt, CP!AtWork
  <2>6. CP!PlansAreWhole'
    BY <1>6 DEF CP!CleanupInv, CP!PlansAreWhole, CP!ReplyAfterClose
  <2>7. PICK n \in CP!Modes : n = cleanprMode
    BY <1>3
  <2>8. CP!Entering(n, s) /\ \A m \in CP!Modes, t \in CP!Step : ~CP!Entering(m, t)'
    BY <1>2, <1>6, <2>7 DEF CP!Entering
  <2>9. \A m \in CP!Modes, t \in CP!Step :
           CP!Tried(journal[CP!CurrentKey(m)], t)' <=> CP!Tried(journal[CP!CurrentKey(m)], t)
    BY <1>6, <2>2 DEF CP!Tried
  <2>10. attempts'[n][s] + (IF CP!Entering(n, s)' THEN 1 ELSE 0)
             + (IF CP!Tried(journal[CP!CurrentKey(n)], s) THEN 1 ELSE 0)
           <= attempts[n][s] + (IF CP!Entering(n, s) THEN 1 ELSE 0)
             + (IF CP!Tried(journal[CP!CurrentKey(n)], s)' THEN 1 ELSE 0)
    BY <1>3, <2>3, <2>7, <2>8, <2>9
  <2>11. \A m \in CP!Modes : (journal'[<<m, "continuation">>] = CP!NoReceipt)
                                <=> (journal[<<m, "continuation">>] = CP!NoReceipt)
    BY <1>6
  <2>12. CP!AsksAreMarked'
    BY <1>2, <1>3, <2>3, <2>7, <2>8, <2>9, <2>10, <2>11, AsksFollow
  <2> QED BY <2>4, <2>5, <2>6, <2>12 DEF CP!CleanupInv
<1> QED BY <1>1, <1>5, <1>6

LEMMA ReadBackKeeps == CP!CleanupInv /\ CP!ReadBack => CP!CleanupInv'
<1> SUFFICES ASSUME CP!CleanupInv, CP!ReadBack PROVE CP!CleanupInv'
  OBVIOUS
<1>1. PICK s \in CP!AtHand(CP!Receipt) :
         \/ journal' = [journal EXCEPT ![key] = [CP!Receipt EXCEPT !.steps[s] = "completed"]] /\ runPc' = "step"
         \/ journal' = [journal EXCEPT ![key] = CP!MarkUnknown(s)] /\ runPc' = "idle"
  BY DEF CP!ReadBack, CP!Write, CP!Mark
<1>2. runPc = "readback" /\ runPc \in CP!AtWork /\ UNCHANGED <<live, readings, cleanprMode, key, hint, attempts>>
  BY DEF CP!ReadBack, CP!AtWork
<1>3. /\ s \in CP!Step /\ CP!Receipt \in CP!ReceiptType
      /\ \A t \in CP!AtHand(CP!Receipt) : t = s
      /\ CP!Receipt.steps \in [CP!Step -> CP!StepStatus]
      /\ attempts \in [CP!Modes -> [CP!Step -> Nat]] /\ attempts[cleanprMode][s] \in Nat
      /\ live \in CP!WorldType /\ hint \in BOOLEAN
  BY <1>2, AtHandIs
<1>4. CASE journal' = [journal EXCEPT ![key] = CP!MarkUnknown(s)] /\ runPc' = "idle"
  BY <1>1, <1>2, <1>3, <1>4, UnknownKeeps
<1>5. CASE journal' = [journal EXCEPT ![key] = [CP!Receipt EXCEPT !.steps[s] = "completed"]] /\ runPc' = "step"
  <2>q. PICK q : q = [CP!Receipt EXCEPT !.steps[s] = "completed"]
    OBVIOUS
  <2>1. /\ q \in CP!ReceiptType /\ q.steps = [CP!Receipt.steps EXCEPT ![s] = "completed"]
        /\ q.plan = CP!Receipt.plan /\ q.residue = CP!Receipt.residue /\ q.status = CP!Receipt.status
        /\ q.unknown = CP!Receipt.unknown
    BY <1>3, <2>q, StepsAre DEF CP!ReceiptType
  <2>9. q.status # "ambiguous" /\ q.unknown = {}
    BY <1>2, <2>1 DEF CP!CleanupInv, CP!RunKnowsItsReceipt
  <2>2. journal' = [journal EXCEPT ![key] = q]
    BY <1>5, <2>q
  <2>3. \A t \in CP!Step : CP!Receipt.steps[t] \in CP!Unknown => t = s
    BY <1>2, <1>3 DEF CP!CleanupInv, CP!RunKnowsItsReceipt
  <2>4. \A t \in CP!Step : q.steps[t] \notin CP!Unknown
    BY <1>3, <2>1, <2>3, StepsAre
  <2>5. CP!Tried(q, s) /\ "completed" \in CP!StepStatus \ {"none"}
    BY <1>3, <2>1, StepsAre DEF CP!Tried
  <2>6. attempts'[cleanprMode][s] + (IF runPc' = "effect" THEN 1 ELSE 0) + (IF CP!Tried(CP!Receipt, s) THEN 1 ELSE 0)
           <= attempts[cleanprMode][s] + (IF runPc = "effect" THEN 1 ELSE 0) + (IF CP!Tried(q, s) THEN 1 ELSE 0)
    BY <1>2, <1>3, <1>5, <2>5
  <2>7. /\ q.status \in {CP!Receipt.status, "processing", "ambiguous"}
        /\ UNCHANGED <<readings, cleanprMode, key>> /\ live' \in CP!WorldType /\ hint' \in BOOLEAN
        /\ runPc' \in CP!AtWork \cup {"idle"} /\ attempts' \in [CP!Modes -> [CP!Step -> Nat]]
        /\ \A m \in CP!Modes, t \in CP!Step :
              <<m, t>> # <<cleanprMode, s>> => attempts'[m][t] = attempts[m][t]
        /\ runPc' \notin {"effect", "readback"}
    BY <1>2, <1>3, <1>5, <2>1 DEF CP!AtWork
  <2>8. CP!CleanupInv /\ s \in CP!AtHand(CP!Receipt)
    OBVIOUS
  <2> QED BY ONLY <1>2, <2>1, <2>2, <2>4, <2>5, <2>6, <2>7, <2>8, <2>9, WriteKeeps
<1> QED BY <1>1, <1>4, <1>5

(* The closing write: every step of the plan was read back.                 *)
LEMMA CompleteKeeps == CP!CleanupInv /\ CP!Complete => CP!CleanupInv'
<1> SUFFICES ASSUME CP!CleanupInv, CP!Complete PROVE CP!CleanupInv'
  OBVIOUS
<1>1. /\ runPc = "step" /\ runPc \in CP!AtWork /\ runPc' = "idle" /\ CP!Pending(CP!Receipt) = {}
      /\ UNCHANGED <<live, readings, cleanprMode, key, hint, attempts>>
  BY DEF CP!Complete, CP!End, CP!AtWork
<1>2. PICK x \in {"completed", "ambiguous"} : journal' = [journal EXCEPT ![key] = [CP!Receipt EXCEPT !.status = x]]
  BY DEF CP!Complete, CP!Write
<1>q. PICK q : q = [CP!Receipt EXCEPT !.status = x]
  OBVIOUS
<1>3. /\ cleanprMode \in CP!Modes /\ key \in CP!Key /\ key = CP!CurrentKey(cleanprMode)
      /\ CP!Receipt \in CP!ReceiptType /\ CP!Receipt # CP!NoReceipt /\ CP!Receipt = journal[key]
  BY <1>1, AtWorkOn
<1>4. /\ q \in CP!ReceiptType /\ q.steps = CP!Receipt.steps /\ q.plan = CP!Receipt.plan
      /\ q.residue = CP!Receipt.residue /\ q.status = x
  BY <1>q, <1>3 DEF CP!ReceiptType
<1>5. q # CP!NoReceipt
  BY <1>4, StepsAre
<1>6. /\ journal \in [CP!Key -> CP!ReceiptType] /\ journal' \in [CP!Key -> CP!ReceiptType] /\ journal'[key] = q
      /\ \A k \in CP!Key : k # key => journal'[k] = journal[k]
  BY <1>2, <1>q, <1>3, <1>4 DEF CP!CleanupInv, CP!CleanupShape
<1>7. \A k \in CP!Key : /\ (journal'[k] = CP!NoReceipt) <=> (journal[k] = CP!NoReceipt)
                        /\ journal'[k].steps = journal[k].steps /\ journal'[k].plan = journal[k].plan
                        /\ journal'[k].residue = journal[k].residue
  BY <1>3, <1>4, <1>5, <1>6
<1>8. CP!CleanupShape'
  <2>1. \A m \in CP!Modes : journal'[<<m, "first">>] = CP!NoReceipt => journal'[<<m, "continuation">>] = CP!NoReceipt
    BY <1>7, KeysAre DEF CP!CleanupInv, CP!CleanupShape
  <2>2. \A k \in CP!Key : /\ journal'[k].steps \in [CP!Step -> CP!StepStatus]
                          /\ journal'[k].unknown \in SUBSET CP!Step
                          /\ \A i \in DOMAIN journal'[k].plan : journal'[k].plan[i] \in CP!Step
    BY <1>6 DEF CP!ReceiptType
  <2> QED BY <1>1, <1>6, <2>1, <2>2 DEF CP!CleanupInv, CP!CleanupShape, CP!CleanupTypeOK
<1>9. CP!RunKnowsItsReceipt'
  BY <1>1 DEF CP!RunKnowsItsReceipt, CP!AtWork
<1>10. CP!AsksAreMarked'
  <2> SUFFICES ASSUME NEW m \in CP!Modes, NEW t \in CP!Step
               PROVE  attempts'[m][t] + (IF CP!Entering(m, t)' THEN 1 ELSE 0)
                        <= (IF CP!Tried(journal[CP!CurrentKey(m)], t)' THEN 1 ELSE 0)
                             + (IF /\ journal'[<<m, "continuation">>] # CP!NoReceipt
                                   /\ t = "pr_add" /\ CP!ReadAbsent(m)' THEN 1 ELSE 0)
    BY DEF CP!AsksAreMarked
  <2>1. ~CP!Entering(m, t)' /\ ~CP!Entering(m, t)
    BY <1>1 DEF CP!Entering
  <2>2. CP!ReadAbsent(m)' = CP!ReadAbsent(m)
    BY <1>1 DEF CP!ReadAbsent
  <2>3. /\ CP!CurrentKey(m)' = CP!CurrentKey(m) /\ CP!CurrentKey(m) \in CP!Key
        /\ (journal'[<<m, "continuation">>] = CP!NoReceipt) <=> (journal[<<m, "continuation">>] = CP!NoReceipt)
    BY <1>7, KeysAre DEF CP!CurrentKey
  <2>4. CP!Tried(journal[CP!CurrentKey(m)], t)' <=> CP!Tried(journal[CP!CurrentKey(m)], t)
    BY <1>7, <2>3 DEF CP!Tried
  <2>5. attempts[m][t] \in Nat
    BY DEF CP!CleanupInv, CP!CleanupShape
  <2>6. attempts[m][t] + (IF CP!Entering(m, t) THEN 1 ELSE 0)
         <= (IF CP!Tried(journal[CP!CurrentKey(m)], t) THEN 1 ELSE 0)
              + (IF /\ journal[<<m, "continuation">>] # CP!NoReceipt
                    /\ t = "pr_add" /\ CP!ReadAbsent(m) THEN 1 ELSE 0)
    BY DEF CP!CleanupInv, CP!AsksAreMarked
  <2> QED BY <1>1, <2>1, <2>2, <2>3, <2>4, <2>5, <2>6
<1>11. CP!PlansAreWhole'
  <2>1. \A i \in DOMAIN CP!Receipt.plan : CP!Receipt.steps[CP!Receipt.plan[i]] = "completed"
    <3> SUFFICES ASSUME NEW i \in DOMAIN CP!Receipt.plan, CP!Receipt.steps[CP!Receipt.plan[i]] # "completed"
                 PROVE  FALSE
      OBVIOUS
    <3>1. \A j \in DOMAIN CP!Receipt.plan : ~CP!Waits(CP!Receipt, CP!Receipt.plan[j])
      BY <1>1 DEF CP!Pending
    <3>2. CP!Receipt.plan[i] = "thread_reply" /\ CP!Receipt.steps["issue_close"] # "completed"
      BY <3>1 DEF CP!Waits
    <3>3. PICK j \in DOMAIN CP!Receipt.plan : CP!Receipt.plan[j] = "issue_close"
      BY <1>3, <3>2 DEF CP!CleanupInv, CP!PlansAreWhole
    <3>4. "issue_close" # "thread_reply"
      OBVIOUS
    <3> QED BY <3>1, <3>2, <3>3, <3>4 DEF CP!Waits
  <2>2. \A k \in CP!Key : journal'[k].status = "completed" =>
             \A i \in DOMAIN journal'[k].plan : journal'[k].steps[journal'[k].plan[i]] = "completed"
    <3> SUFFICES ASSUME NEW k \in CP!Key
                 PROVE  journal'[k].status = "completed" =>
                          \A i \in DOMAIN journal'[k].plan : journal'[k].steps[journal'[k].plan[i]] = "completed"
      OBVIOUS
    <3>1. CASE k = key
      BY <1>4, <1>6, <2>1, <3>1
    <3>2. CASE k # key
      BY <1>6, <3>2 DEF CP!CleanupInv, CP!PlansAreWhole, CP!ReplyAfterClose
    <3> QED BY <3>1, <3>2
  <2> SUFFICES ASSUME NEW k \in CP!Key
               PROVE  LET o == journal'[k]
                          Planned == {o.plan[i] : i \in DOMAIN o.plan}
                      IN  /\ o.steps["thread_reply"] # "none" => o.steps["issue_close"] = "completed"
                          /\ o.residue => \A t \in CP!IssueSteps : o.steps[t] = "none"
                          /\ o.residue => Planned \subseteq CP!PRSteps
                          /\ "thread_reply" \in Planned => "issue_close" \in Planned
    BY <2>2 DEF CP!PlansAreWhole, CP!ReplyAfterClose
  <2> QED BY <1>7 DEF CP!CleanupInv, CP!PlansAreWhole, CP!ReplyAfterClose
<1> QED BY <1>8, <1>9, <1>10, <1>11 DEF CP!CleanupInv

(* The calls and the moves of others, which write no receipt.               *)
LEMMA CallsKeep ==
  CP!CleanupInv /\ (CP!Ask \/ CP!Resume \/ CP!ProbeResidue \/ CP!Crash \/ CP!PRMove) => CP!CleanupInv'
<1> SUFFICES ASSUME CP!CleanupInv, CP!Ask \/ CP!Resume \/ CP!ProbeResidue \/ CP!Crash \/ CP!PRMove
             PROVE  CP!CleanupInv'
  OBVIOUS
<1>1. /\ live \in CP!WorldType /\ hint \in BOOLEAN /\ cleanprMode \in CP!Modes /\ key \in CP!Key
      /\ CP!RunKnowsItsReceipt
  BY DEF CP!CleanupInv, CP!CleanupShape, CP!CleanupTypeOK
<1>2. CASE CP!Ask
  <2>1. /\ UNCHANGED <<journal, readings, attempts, live, hint, key>> /\ runPc' = "load"
        /\ cleanprMode' \in CP!Modes
    <3>1. PICK raw \in Requests : cleanprMode' \in {raw, CP!ResolveMopIssue(raw)}
      BY <1>2 DEF CP!Ask
    <3>2. cleanprMode' \in CP!Modes
      BY <3>1, CleanupAssumption DEF CP!ResolveMopIssue, CP!Modes
    <3> QED BY <1>2, <3>2 DEF CP!Ask
  <2>2. CP!RunKnowsItsReceipt'
    BY <2>1 DEF CP!RunKnowsItsReceipt, CP!AtWork
  <2> QED BY <1>1, <2>1, <2>2, QuietKeeps
<1>3. CASE CP!Resume
  <2>1. /\ UNCHANGED <<journal, readings, attempts, live, hint, key, cleanprMode>>
        /\ runPc = "resume" /\ runPc' \in {"idle", "step"}
    BY <1>3 DEF CP!Resume, CP!End
  <2>2. CP!RunKnowsItsReceipt'
    BY <1>1, <2>1 DEF CP!RunKnowsItsReceipt, CP!AtWork, CP!CurrentKey, CP!Receipt
  <2> QED BY <1>1, <2>1, <2>2, QuietKeeps
<1>4. CASE CP!ProbeResidue
  <2>1. /\ UNCHANGED <<journal, readings, attempts, live, cleanprMode>>
        /\ journal[CP!CurrentKey(cleanprMode)] = CP!NoReceipt
    BY <1>4 DEF CP!ProbeResidue, CP!End
  <2>2. \/ runPc' = "idle" /\ UNCHANGED <<key, hint>>
        \/ runPc' = "plan" /\ key' = <<cleanprMode, "first">> /\ hint' \in BOOLEAN
    <3>1. PICK residue \in {FALSE, cleanprMode = "linked" /\ ~CP!NamesIssue(live)} :
             \/ runPc' = "idle" /\ UNCHANGED <<key, hint>>
             \/ runPc' = "plan" /\ key' = <<cleanprMode, "first">> /\ hint' = residue
      BY <1>4 DEF CP!ProbeResidue, CP!End
    <3>2. residue \in BOOLEAN
      OBVIOUS
    <3> QED BY <3>1, <3>2
  <2>3. CASE runPc' = "idle" /\ UNCHANGED <<key, hint>>
    <3>1. CP!RunKnowsItsReceipt'
      BY <2>3 DEF CP!RunKnowsItsReceipt, CP!AtWork
    <3> QED BY <1>1, <2>1, <2>3, <3>1, QuietKeeps
  <2>4. CASE runPc' = "plan" /\ key' = <<cleanprMode, "first">> /\ hint' \in BOOLEAN
    <3>1. CP!CurrentKey(cleanprMode) = <<cleanprMode, "first">>
      BY <2>1 DEF CP!CurrentKey
    <3>2. CP!CurrentKey(cleanprMode)' = CP!CurrentKey(cleanprMode) /\ key' \in CP!Key
      BY <1>1, <2>1, <2>4, KeysAre DEF CP!CurrentKey
    <3>3. CP!RunKnowsItsReceipt'
      BY <2>1, <2>4, <3>1, <3>2 DEF CP!RunKnowsItsReceipt, CP!AtWork, CP!Receipt
    <3> QED BY <1>1, <2>1, <2>4, <3>2, <3>3, QuietKeeps
  <2> QED BY <2>2, <2>3, <2>4
<1>5. CASE CP!Crash
  <2>1. /\ UNCHANGED <<journal, readings, attempts, live, hint, key, cleanprMode>> /\ runPc' = "idle"
    BY <1>5 DEF CP!Crash, CP!End
  <2>2. CP!RunKnowsItsReceipt'
    BY <2>1 DEF CP!RunKnowsItsReceipt, CP!AtWork
  <2> QED BY <1>1, <2>1, <2>2, QuietKeeps
<1>6. CASE CP!PRMove
  <2>1. UNCHANGED <<journal, readings, attempts, hint, key, cleanprMode, runPc>> /\ live' \in CP!WorldType
    BY <1>1, <1>6 DEF CP!PRMove, CP!WorldType
  <2>2. CP!RunKnowsItsReceipt'
    BY <1>1, <2>1 DEF CP!RunKnowsItsReceipt, CP!CurrentKey, CP!Receipt
  <2> QED BY <1>1, <2>1, <2>2, QuietKeeps
<1> QED BY <1>2, <1>3, <1>4, <1>5, <1>6

(* The receipt is written before anything is asked for.                     *)
LEMMA PrepareKeeps == CP!CleanupInv /\ CP!PrepareReceipt => CP!CleanupInv'
<1> SUFFICES ASSUME CP!CleanupInv, CP!PrepareReceipt PROVE CP!CleanupInv'
  OBVIOUS
<1> DEFINE residue == cleanprMode = "linked" /\ ~CP!NamesIssue(live)
<1>1. /\ live \in CP!WorldType /\ hint \in BOOLEAN /\ cleanprMode \in CP!Modes /\ key \in CP!Key
      /\ CP!RunKnowsItsReceipt /\ runPc = "plan"
      /\ UNCHANGED <<live, readings, attempts, cleanprMode, key, hint>>
      /\ \/ runPc' = "idle" /\ UNCHANGED journal
         \/ /\ runPc' = "step"
            /\ journal' = [journal EXCEPT ![key] =
                     [CP!NoReceipt EXCEPT !.status = "prepared", !.residue = residue,
                                          !.plan = CP!PlanOf(cleanprMode, residue, live),
                                          !.thread = cleanprMode = "linked" /\ ~hint]]
  BY DEF CP!CleanupInv, CP!CleanupShape, CP!CleanupTypeOK, CP!PrepareReceipt, CP!End
<1>2. CASE runPc' = "idle" /\ UNCHANGED journal
  <2>1. CP!RunKnowsItsReceipt'
    BY <1>2 DEF CP!RunKnowsItsReceipt, CP!AtWork
  <2> QED BY <1>1, <1>2, <2>1, QuietKeeps
<1>3. CASE /\ runPc' = "step"
           /\ journal' = [journal EXCEPT ![key] =
                     [CP!NoReceipt EXCEPT !.status = "prepared", !.residue = residue,
                                          !.plan = CP!PlanOf(cleanprMode, residue, live),
                                          !.thread = cleanprMode = "linked" /\ ~hint]]
  <2>n. PICK n \in CP!Modes : n = cleanprMode
    BY <1>1
  <2>v. PICK w : w = live
    OBVIOUS
  <2>w. PICK rs \in BOOLEAN : rs = residue
    OBVIOUS
  <2>p. PICK p : p = CP!PlanOf(n, rs, w)
    OBVIOUS
  <2>q. PICK q : q = [CP!NoReceipt EXCEPT !.status = "prepared", !.residue = rs, !.plan = p,
                                          !.thread = cleanprMode = "linked" /\ ~hint]
    OBVIOUS
  <2>1. /\ p \in Seq(CP!Step) /\ (rs => {p[i] : i \in DOMAIN p} \subseteq CP!PRSteps)
        /\ "thread_reply" \in {p[i] : i \in DOMAIN p} => "issue_close" \in {p[i] : i \in DOMAIN p}
    BY <2>p, PlanIsWhole
  <2>2. journal' = [journal EXCEPT ![key] = q]
    BY <1>3, <2>n, <2>v, <2>w, <2>p, <2>q
  <2>3. /\ q \in CP!ReceiptType /\ q.status = "prepared" /\ q.residue = rs /\ q.plan = p
        /\ q.steps = CP!NoReceipt.steps /\ q.unknown = {}
    BY <2>1, <2>q, StepsAre DEF CP!ReceiptType, CP!NoReceipt
  <2> HIDE DEF residue
  <2>4. q # CP!NoReceipt /\ \A t \in CP!Step : q.steps[t] = "none" /\ ~CP!Tried(q, t)
    BY <2>3, StepsAre DEF CP!Tried
  <2>5. key = <<n, "first">> /\ journal[key] = CP!NoReceipt /\ journal[<<n, "continuation">>] = CP!NoReceipt
        /\ <<n, "first">> # <<n, "continuation">> /\ CP!CurrentKey(n) = key
    BY <1>1, <2>n DEF CP!RunKnowsItsReceipt, CP!CurrentKey, CP!Receipt, CP!CleanupInv, CP!CleanupShape
  <2>6. /\ journal \in [CP!Key -> CP!ReceiptType] /\ journal' \in [CP!Key -> CP!ReceiptType] /\ journal'[key] = q
        /\ \A k \in CP!Key : k # key => journal'[k] = journal[k]
    BY <1>1, <2>2, <2>3 DEF CP!CleanupInv, CP!CleanupShape
  <2>7. \A m \in CP!Modes : /\ <<m, "continuation">> # key /\ (m # n => <<m, "first">> # key)
                            /\ <<m, "continuation">> \in CP!Key /\ <<m, "first">> \in CP!Key
    <3>1. \A m : <<m, "continuation">> # <<n, "first">> /\ (m # n => <<m, "first">> # <<n, "first">>)
      OBVIOUS
    <3> QED BY <2>5, <3>1, KeysAre
  <2>8. \A m \in CP!Modes : /\ journal'[<<m, "continuation">>] = journal[<<m, "continuation">>]
                            /\ CP!CurrentKey(m)' = CP!CurrentKey(m)
                            /\ m # n => journal'[CP!CurrentKey(m)] = journal[CP!CurrentKey(m)]
    BY <2>6, <2>7 DEF CP!CurrentKey
  <2>9. CP!CleanupShape'
    <3>1. \A m \in CP!Modes : journal'[<<m, "first">>] = CP!NoReceipt => journal'[<<m, "continuation">>] = CP!NoReceipt
      BY <2>4, <2>5, <2>6, <2>7, <2>8 DEF CP!CleanupInv, CP!CleanupShape
    <3>2. \A k \in CP!Key : /\ journal'[k].steps \in [CP!Step -> CP!StepStatus]
                            /\ journal'[k].unknown \in SUBSET CP!Step
                            /\ \A i \in DOMAIN journal'[k].plan : journal'[k].plan[i] \in CP!Step
      BY <2>6 DEF CP!ReceiptType
    <3> QED BY <1>1, <1>3, <2>6, <3>1, <3>2 DEF CP!CleanupInv, CP!CleanupShape, CP!CleanupTypeOK
  <2>10. CP!Receipt' = q
    BY <1>1, <2>6 DEF CP!Receipt
  <2>11. CP!RunKnowsItsReceipt'
    BY <1>1, <1>3, <2>n, <2>3, <2>4, <2>5, <2>8, <2>10, StepsAre DEF CP!RunKnowsItsReceipt, CP!AtWork
  <2>12. CP!AsksAreMarked'
    <3>1. PICK s \in CP!Step : s = "pr_add"
      BY StepsAre
    <3>2. \A m \in CP!Modes, t \in CP!Step : ~CP!Entering(m, t)' /\ ~CP!Entering(m, t)
      BY <1>1, <1>3 DEF CP!Entering
    <3>3. \A t \in CP!Step : ~CP!Tried(journal[CP!CurrentKey(n)], t)
      BY <2>5, StepsAre DEF CP!Tried
    <3>4. \A m \in CP!Modes, t \in CP!Step :
              CP!Tried(journal[CP!CurrentKey(m)], t) => CP!Tried(journal[CP!CurrentKey(m)], t)'
      BY <2>8, <3>3 DEF CP!Tried
    <3>5. attempts' = attempts /\ attempts \in [CP!Modes -> [CP!Step -> Nat]] /\ attempts[n][s] \in Nat
      BY <1>1 DEF CP!CleanupInv, CP!CleanupShape
    <3>6. attempts'[n][s] + (IF CP!Entering(n, s)' THEN 1 ELSE 0)
             + (IF CP!Tried(journal[CP!CurrentKey(n)], s) THEN 1 ELSE 0)
           <= attempts[n][s] + (IF CP!Entering(n, s) THEN 1 ELSE 0)
             + (IF CP!Tried(journal[CP!CurrentKey(n)], s)' THEN 1 ELSE 0)
      BY <3>2, <3>3, <3>5
    <3>7. readings' = readings
      BY <1>1
    <3> QED BY <2>8, <3>2, <3>4, <3>5, <3>6, <3>7, AsksFollow
  <2>13. CP!PlansAreWhole'
    <3> SUFFICES ASSUME NEW k \in CP!Key
                 PROVE  LET o == journal'[k]
                            Planned == {o.plan[i] : i \in DOMAIN o.plan}
                        IN  /\ o.steps["thread_reply"] # "none" => o.steps["issue_close"] = "completed"
                            /\ o.residue => \A t \in CP!IssueSteps : o.steps[t] = "none"
                            /\ o.status = "completed" => \A i \in DOMAIN o.plan : o.steps[o.plan[i]] = "completed"
                            /\ o.residue => Planned \subseteq CP!PRSteps
                            /\ "thread_reply" \in Planned => "issue_close" \in Planned
      BY DEF CP!PlansAreWhole, CP!ReplyAfterClose
    <3>1. CASE k # key
      BY <2>6, <3>1 DEF CP!CleanupInv, CP!PlansAreWhole, CP!ReplyAfterClose
    <3>2. CASE k = key
      <4>1. \A t \in CP!IssueSteps : t \in CP!Step
        BY DEF CP!Step
      <4>2. journal'[k] = q
        BY <2>6, <3>2
      <4>3. {q.plan[i] : i \in DOMAIN q.plan} = {p[i] : i \in DOMAIN p}
        BY <2>3
      <4> QED BY <2>1, <2>3, <2>4, <4>1, <4>2, <4>3, StepsAre
    <3> QED BY <3>1, <3>2
  <2> QED BY <2>9, <2>11, <2>12, <2>13 DEF CP!CleanupInv
<1> QED BY <1>1, <1>2, <1>3

(* A receipt of the call is there: what a readback settled is continued in  *)
(* a copy, and only what is wholly known is resumed.                        *)
LEMMA FoundKeeps == CP!CleanupInv /\ CP!FoundPrior => CP!CleanupInv'
<1> SUFFICES ASSUME CP!CleanupInv, CP!FoundPrior PROVE CP!CleanupInv'
  OBVIOUS
<1>n. PICK n \in CP!Modes : n = cleanprMode
  BY DEF CP!CleanupInv, CP!CleanupShape, CP!CleanupTypeOK
<1>k. PICK k : k = CP!CurrentKey(n)
  OBVIOUS
<1>r. PICK r : r = journal[k]
  OBVIOUS
<1>s. PICK told : told = IF readings[k] # <<>> THEN readings[k][Len(readings[k])] ELSE "none"
  OBVIOUS
<1>1. /\ k \in CP!Key /\ k \in {<<n, "first">>, <<n, "continuation">>}
      /\ live \in CP!WorldType /\ hint \in BOOLEAN /\ key \in CP!Key
      /\ runPc = "load" /\ r # CP!NoReceipt /\ UNCHANGED <<live, attempts>>
      /\ journal \in [CP!Key -> CP!ReceiptType] /\ r \in CP!ReceiptType
  BY <1>n, <1>k, <1>r, KeysAre DEF CP!CleanupInv, CP!CleanupShape, CP!CleanupTypeOK, CP!FoundPrior
<1>2. \/ runPc' = "idle" /\ UNCHANGED <<journal, readings, cleanprMode, key, hint>>
      \/ /\ ~CP!Blocked(r) /\ key' = k /\ runPc' = "resume"
         /\ UNCHANGED <<journal, readings, cleanprMode, hint>>
      \/ /\ CP!OnlyLabelUnknown(r) /\ told \in {"absent", "present"}
         /\ journal' = [journal EXCEPT ![<<n, "continuation">>] =
               [r EXCEPT !.steps["pr_add"] = IF told = "present" THEN "completed" ELSE "reserved",
                         !.unknown = {}, !.status = "processing"]]
         /\ readings' = [readings EXCEPT ![k] = Append(@, "consumed")]
         /\ key' = <<n, "continuation">> /\ runPc' = "resume" /\ UNCHANGED <<cleanprMode, hint>>
  BY <1>n, <1>k, <1>r, <1>s DEF CP!FoundPrior, CP!End
<1>3. CASE runPc' = "idle" /\ UNCHANGED <<journal, readings, cleanprMode, key, hint>>
  <2>1. CP!RunKnowsItsReceipt'
    BY <1>3 DEF CP!RunKnowsItsReceipt, CP!AtWork
  <2>2. live' \in CP!WorldType /\ hint' \in BOOLEAN /\ cleanprMode' \in CP!Modes /\ key' \in CP!Key
    BY <1>n, <1>1, <1>3
  <2> QED BY <1>1, <1>3, <2>1, <2>2, QuietKeeps
<1>4. CASE /\ ~CP!Blocked(r) /\ key' = k /\ runPc' = "resume"
           /\ UNCHANGED <<journal, readings, cleanprMode, hint>>
  <2>1. CP!Receipt' = r /\ CP!CurrentKey(cleanprMode)' = k
    BY <1>n, <1>k, <1>r, <1>4 DEF CP!Receipt, CP!CurrentKey
  <2>2. (\A s \in CP!Step : r.steps[s] \notin CP!Unknown) /\ r.status # "ambiguous" /\ r.unknown = {}
    BY <1>4 DEF CP!Blocked
  <2>3. CP!RunKnowsItsReceipt'
    BY <1>1, <1>4, <2>1, <2>2, StepsAre DEF CP!RunKnowsItsReceipt, CP!AtWork
  <2>4. live' \in CP!WorldType /\ hint' \in BOOLEAN /\ cleanprMode' \in CP!Modes /\ key' \in CP!Key
    BY <1>n, <1>1, <1>4
  <2> QED BY <1>1, <1>4, <2>3, <2>4, QuietKeeps
<1>5. CASE /\ CP!OnlyLabelUnknown(r) /\ told \in {"absent", "present"}
           /\ journal' = [journal EXCEPT ![<<n, "continuation">>] =
                 [r EXCEPT !.steps["pr_add"] = IF told = "present" THEN "completed" ELSE "reserved",
                           !.unknown = {}, !.status = "processing"]]
           /\ readings' = [readings EXCEPT ![k] = Append(@, "consumed")]
           /\ key' = <<n, "continuation">> /\ runPc' = "resume" /\ UNCHANGED <<cleanprMode, hint>>
  <2>c. PICK c : c = <<n, "continuation">>
    OBVIOUS
  <2>q. PICK q : q = [r EXCEPT !.steps["pr_add"] = IF told = "present" THEN "completed" ELSE "reserved",
                               !.unknown = {}, !.status = "processing"]
    OBVIOUS
  <2>1. readings[k] # <<>> /\ readings[c] = <<>> /\ k = <<n, "first">> /\ k # c /\ c \in CP!Key
    <3>1. told # "none"
      BY <1>5
    <3>2. readings[k] # <<>> /\ readings[<<n, "continuation">>] = <<>>
      BY <1>s, <3>1 DEF CP!CleanupInv, CP!CleanupShape
    <3>3. <<n, "first">> # <<n, "continuation">>
      OBVIOUS
    <3> QED BY <1>1, <2>c, <3>2, <3>3, KeysAre
  <2>2. journal[c] = CP!NoReceipt /\ journal[k] = r
    BY <1>k, <1>r, <2>1, <2>c DEF CP!CurrentKey
  <2>3. /\ r.steps \in [CP!Step -> CP!StepStatus] /\ "pr_add" \in CP!Step
        /\ \A s \in CP!Step : r.steps[s] \in CP!Unknown => s = "pr_add"
    BY <1>1, <1>5, StepsAre DEF CP!ReceiptType, CP!OnlyLabelUnknown
  <2>4. /\ q \in CP!ReceiptType /\ q.status = "processing" /\ q.plan = r.plan /\ q.residue = r.residue
        /\ q.unknown = {}
        /\ q.steps = [r.steps EXCEPT !["pr_add"] = IF told = "present" THEN "completed" ELSE "reserved"]
    BY <1>1, <2>3, <2>q, StepsAre DEF CP!ReceiptType
  <2>5. q # CP!NoReceipt
    BY <2>4, StepsAre
  <2>6. /\ journal' \in [CP!Key -> CP!ReceiptType] /\ journal'[c] = q
        /\ \A j \in CP!Key : j # c => journal'[j] = journal[j]
    BY <1>1, <1>5, <2>1, <2>4, <2>c, <2>q
  <2>7. /\ readings \in [CP!Key -> Seq({"absent", "present", "consumed"})]
        /\ readings' \in [CP!Key -> Seq({"absent", "present", "consumed"})]
        /\ readings'[k] = Append(readings[k], "consumed")
        /\ \A j \in CP!Key : j # k => readings'[j] = readings[j]
    BY <1>1, <1>5 DEF CP!CleanupInv, CP!CleanupShape
  <2>8. \A m \in CP!Modes : /\ <<m, "continuation">> # k /\ <<m, "first">> # c
                            /\ (m # n => <<m, "first">> # k /\ <<m, "continuation">> # c)
                            /\ <<m, "continuation">> \in CP!Key /\ <<m, "first">> \in CP!Key
    <3>1. \A m : /\ <<m, "continuation">> # <<n, "first">> /\ <<m, "first">> # <<n, "continuation">>
                 /\ (m # n => <<m, "first">> # <<n, "first">> /\ <<m, "continuation">> # <<n, "continuation">>)
      OBVIOUS
    <3> QED BY <2>1, <2>c, <3>1, KeysAre
  <2>9. CP!CurrentKey(n)' = c /\ CP!CurrentKey(n) = k
        /\ \A m \in CP!Modes : m # n => /\ CP!CurrentKey(m)' = CP!CurrentKey(m)
                                        /\ CP!CurrentKey(m) \in CP!Key /\ CP!CurrentKey(m) # c
                                        /\ journal'[<<m, "continuation">>] = journal[<<m, "continuation">>]
    BY <1>k, <2>5, <2>6, <2>8, <2>c, KeysAre DEF CP!CurrentKey
  <2>10. CP!CleanupShape'
    <3>1. \A m \in CP!Modes : /\ readings'[<<m, "continuation">>] = <<>>
                              /\ journal'[<<m, "first">>] = CP!NoReceipt
                                   => journal'[<<m, "continuation">>] = CP!NoReceipt
      <4> SUFFICES ASSUME NEW m \in CP!Modes
                   PROVE  /\ readings'[<<m, "continuation">>] = <<>>
                          /\ journal'[<<m, "first">>] = CP!NoReceipt
                               => journal'[<<m, "continuation">>] = CP!NoReceipt
        OBVIOUS
      <4>1. /\ readings[<<m, "continuation">>] = <<>>
            /\ journal[<<m, "first">>] = CP!NoReceipt => journal[<<m, "continuation">>] = CP!NoReceipt
        BY DEF CP!CleanupInv, CP!CleanupShape
      <4>2. CASE m = n
        BY <1>1, <2>1, <2>2, <2>6, <2>7, <2>8, <4>1, <4>2
      <4>3. CASE m # n
        BY <2>6, <2>7, <2>8, <4>1, <4>3
      <4> QED BY <4>2, <4>3
    <3>2. \A j \in CP!Key : /\ journal'[j].steps \in [CP!Step -> CP!StepStatus]
                            /\ journal'[j].unknown \in SUBSET CP!Step
                            /\ \A i \in DOMAIN journal'[j].plan : journal'[j].plan[i] \in CP!Step
      BY <2>6 DEF CP!ReceiptType
    <3>3. cleanprMode' \in CP!Modes /\ key' \in CP!Key /\ hint' \in BOOLEAN /\ live' \in CP!WorldType
      BY <1>n, <1>1, <1>5, <2>1, <2>c
    <3> QED BY <1>1, <1>5, <2>6, <2>7, <3>1, <3>2, <3>3 DEF CP!CleanupInv, CP!CleanupShape, CP!CleanupTypeOK
  <2>11. CP!RunKnowsItsReceipt'
    <3>1. CP!Receipt' = q /\ key' = c /\ CP!CurrentKey(cleanprMode)' = c
      BY <1>n, <1>5, <2>6, <2>9, <2>c DEF CP!Receipt
    <3>2. \A s \in CP!Step : q.steps[s] \notin CP!Unknown
      BY <2>3, <2>4, StepsAre
    <3> QED BY <1>5, <2>4, <2>5, <3>1, <3>2, StepsAre DEF CP!RunKnowsItsReceipt, CP!AtWork
  <2>12. CP!AsksAreMarked'
    <3> SUFFICES ASSUME NEW m \in CP!Modes, NEW t \in CP!Step
                 PROVE  attempts'[m][t] + (IF CP!Entering(m, t)' THEN 1 ELSE 0)
                          <= (IF CP!Tried(journal[CP!CurrentKey(m)], t)' THEN 1 ELSE 0)
                               + (IF /\ journal'[<<m, "continuation">>] # CP!NoReceipt
                                     /\ t = "pr_add" /\ CP!ReadAbsent(m)' THEN 1 ELSE 0)
      BY DEF CP!AsksAreMarked
    <3>1. ~CP!Entering(m, t)' /\ ~CP!Entering(m, t) /\ attempts'[m][t] = attempts[m][t] /\ attempts[m][t] \in Nat
      BY <1>1, <1>5 DEF CP!Entering, CP!CleanupInv, CP!CleanupShape
    <3>2. attempts[m][t] <= (IF CP!Tried(journal[CP!CurrentKey(m)], t) THEN 1 ELSE 0)
                              + (IF /\ journal[<<m, "continuation">>] # CP!NoReceipt
                                    /\ t = "pr_add" /\ CP!ReadAbsent(m) THEN 1 ELSE 0)
      BY <3>1 DEF CP!CleanupInv, CP!AsksAreMarked
    <3>3. CASE m # n
      <4>1. CP!Tried(journal[CP!CurrentKey(m)], t)' <=> CP!Tried(journal[CP!CurrentKey(m)], t)
        BY <2>6, <2>9, <3>3 DEF CP!Tried
      <4>2. readings'[<<m, "first">>] = readings[<<m, "first">>]
        BY <2>7, <2>8, <3>3
      <4>3. CP!ReadAbsent(m)' <=> CP!ReadAbsent(m)
        BY <4>2 DEF CP!ReadAbsent
      <4>4. journal'[<<m, "continuation">>] = journal[<<m, "continuation">>]
        BY <2>9, <3>3
      <4> QED BY <3>1, <3>2, <4>1, <4>3, <4>4
    <3>4. CASE m = n
      <4>1. attempts[n][t] <= (IF CP!Tried(r, t) THEN 1 ELSE 0)
        BY <2>2, <2>9, <2>c, <3>2, <3>4
      <4>2. /\ (CP!Tried(journal[CP!CurrentKey(n)], t)' <=> CP!Tried(q, t))
            /\ journal'[<<n, "continuation">>] # CP!NoReceipt
        BY <2>5, <2>6, <2>9, <2>c DEF CP!Tried
      <4>3. CASE t # "pr_add"
        <5>1. q.steps[t] = r.steps[t]
          BY <2>3, <2>4, <4>3
        <5>2. CP!Tried(q, t) <=> CP!Tried(r, t)
          BY <5>1 DEF CP!Tried
        <5> QED BY <3>1, <3>4, <4>1, <4>2, <4>3, <5>2
      <4>4. CASE t = "pr_add" /\ told = "present"
        <5>1. CP!Tried(q, t)
          BY <2>3, <2>4, <4>4 DEF CP!Tried
        <5> QED BY <3>1, <3>4, <4>1, <4>2, <5>1
      <4>5. CASE t = "pr_add" /\ told = "absent"
        <5>1. readings[k] \in Seq({"absent", "present", "consumed"}) /\ Len(readings[k]) \in DOMAIN readings[k]
              /\ readings[k][Len(readings[k])] = "absent"
          BY <1>1, <1>s, <2>1, <2>7, <4>5
        <5>2. /\ Len(readings[k]) \in DOMAIN readings'[k]
              /\ readings'[k][Len(readings[k])] = "absent"
          BY <2>7, <5>1
        <5>3. CP!ReadAbsent(n)'
          BY <2>1, <5>2 DEF CP!ReadAbsent
        <5> QED BY <3>1, <3>4, <4>1, <4>2, <4>5, <5>3
      <4> QED BY <1>5, <4>3, <4>4, <4>5
    <3> QED BY <3>3, <3>4
  <2>13. CP!PlansAreWhole'
    <3> SUFFICES ASSUME NEW j \in CP!Key
                 PROVE  LET o == journal'[j]
                            Planned == {o.plan[i] : i \in DOMAIN o.plan}
                        IN  /\ o.steps["thread_reply"] # "none" => o.steps["issue_close"] = "completed"
                            /\ o.residue => \A t \in CP!IssueSteps : o.steps[t] = "none"
                            /\ o.status = "completed" => \A i \in DOMAIN o.plan : o.steps[o.plan[i]] = "completed"
                            /\ o.residue => Planned \subseteq CP!PRSteps
                            /\ "thread_reply" \in Planned => "issue_close" \in Planned
      BY DEF CP!PlansAreWhole, CP!ReplyAfterClose
    <3>1. CASE j # c
      BY <2>6, <3>1 DEF CP!CleanupInv, CP!PlansAreWhole, CP!ReplyAfterClose
    <3>2. CASE j = c
      <4>1. journal'[j] = q
        BY <2>6, <3>2
      <4>2. \A t \in CP!Step \ {"pr_add"} : q.steps[t] = r.steps[t]
        BY <2>3, <2>4
      <4>3. /\ "thread_reply" \in CP!Step \ {"pr_add"} /\ "issue_close" \in CP!Step \ {"pr_add"}
            /\ CP!IssueSteps \subseteq CP!Step \ {"pr_add"}
        BY StepsAre DEF CP!IssueSteps
      <4>4. {q.plan[i] : i \in DOMAIN q.plan} = {r.plan[i] : i \in DOMAIN r.plan}
        BY <2>4
      <4>5. /\ r.steps["thread_reply"] # "none" => r.steps["issue_close"] = "completed"
            /\ r.residue => \A t \in CP!IssueSteps : r.steps[t] = "none"
            /\ r.residue => {r.plan[i] : i \in DOMAIN r.plan} \subseteq CP!PRSteps
            /\ "thread_reply" \in {r.plan[i] : i \in DOMAIN r.plan} =>
                  "issue_close" \in {r.plan[i] : i \in DOMAIN r.plan}
        BY <1>1, <1>r DEF CP!CleanupInv, CP!PlansAreWhole, CP!ReplyAfterClose
      <4>6. /\ q.steps["thread_reply"] # "none" => q.steps["issue_close"] = "completed"
            /\ q.residue => \A t \in CP!IssueSteps : q.steps[t] = "none"
        BY <2>4, <4>2, <4>3, <4>5
      <4>7. /\ q.status # "completed"
            /\ q.residue => {q.plan[i] : i \in DOMAIN q.plan} \subseteq CP!PRSteps
            /\ "thread_reply" \in {q.plan[i] : i \in DOMAIN q.plan} =>
                  "issue_close" \in {q.plan[i] : i \in DOMAIN q.plan}
        BY <2>4, <4>4, <4>5
      <4> QED BY ONLY <4>1, <4>6, <4>7
    <3> QED BY <3>1, <3>2
  <2> QED BY <2>10, <2>11, <2>12, <2>13 DEF CP!CleanupInv
<1> QED BY <1>2, <1>3, <1>4, <1>5

(* A readback only adds to what was read.                                   *)
LEMMA DecisionKeeps == CP!CleanupInv /\ CP!Reconcile => CP!CleanupInv'
<1> SUFFICES ASSUME CP!CleanupInv, CP!Reconcile PROVE CP!CleanupInv'
  OBVIOUS
<1>1. PICK k \in CP!Key, x \in {"present", "absent"} :
         /\ CP!OnlyLabelUnknown(journal[k]) /\ journal[<<k[1], "continuation">>] = CP!NoReceipt
         /\ readings' = [readings EXCEPT ![k] = Append(@, x)]
  BY DEF CP!Reconcile
<1>2. UNCHANGED <<live, journal, runPc, cleanprMode, key, hint, attempts>>
  BY DEF CP!Reconcile
<1>3. /\ readings \in [CP!Key -> Seq({"absent", "present", "consumed"})]
      /\ readings' \in [CP!Key -> Seq({"absent", "present", "consumed"})]
      /\ readings'[k] = Append(readings[k], x)
      /\ \A j \in CP!Key : j # k => readings'[j] = readings[j]
  BY <1>1 DEF CP!CleanupInv, CP!CleanupShape
<1>4. k[2] = "first"
  <2>1. journal[k] # CP!NoReceipt
    BY <1>1, StepsAre DEF CP!OnlyLabelUnknown
  <2> QED BY <1>1, <2>1, KeysAre
<1>5. CP!CleanupShape'
  <2>1. \A m \in CP!Modes : <<m, "continuation">> \in CP!Key /\ <<m, "continuation">> # k
    BY <1>4, KeysAre
  <2>2. \A m \in CP!Modes : readings'[<<m, "continuation">>] = <<>>
    BY <1>3, <2>1 DEF CP!CleanupInv, CP!CleanupShape
  <2> QED BY <1>2, <1>3, <2>2 DEF CP!CleanupInv, CP!CleanupShape, CP!CleanupTypeOK
<1>6. CP!RunKnowsItsReceipt'
  BY <1>2 DEF CP!CleanupInv, CP!RunKnowsItsReceipt, CP!CurrentKey, CP!Receipt
<1>7. \A m \in CP!Modes : CP!ReadAbsent(m) => CP!ReadAbsent(m)'
  <2> SUFFICES ASSUME NEW m \in CP!Modes, NEW i \in DOMAIN readings[<<m, "first">>],
                      readings[<<m, "first">>][i] = "absent"
               PROVE  i \in DOMAIN readings'[<<m, "first">>] /\ readings'[<<m, "first">>][i] = "absent"
    BY DEF CP!ReadAbsent
  <2>1. PICK j \in CP!Key : j = <<m, "first">>
    BY KeysAre
  <2>2. readings[j] \in Seq({"absent", "present", "consumed"}) /\ i \in DOMAIN readings[j]
        /\ readings[j][i] = "absent"
    BY <1>3, <2>1
  <2>3. i \in DOMAIN Append(readings[j], x) /\ Append(readings[j], x)[i] = "absent"
    BY <2>2
  <2>4. readings'[j] = readings[j] \/ readings'[j] = Append(readings[j], x)
    BY <1>3
  <2> QED BY <2>1, <2>2, <2>3, <2>4
<1>8. CP!AsksAreMarked'
  <2> SUFFICES ASSUME NEW m \in CP!Modes, NEW t \in CP!Step
               PROVE  attempts'[m][t] + (IF CP!Entering(m, t)' THEN 1 ELSE 0)
                        <= (IF CP!Tried(journal[CP!CurrentKey(m)], t)' THEN 1 ELSE 0)
                             + (IF /\ journal'[<<m, "continuation">>] # CP!NoReceipt
                                   /\ t = "pr_add" /\ CP!ReadAbsent(m)' THEN 1 ELSE 0)
    BY DEF CP!AsksAreMarked
  <2>1. /\ CP!Entering(m, t)' <=> CP!Entering(m, t)
        /\ CP!Tried(journal[CP!CurrentKey(m)], t)' <=> CP!Tried(journal[CP!CurrentKey(m)], t)
    BY <1>2 DEF CP!Entering, CP!Receipt, CP!Tried, CP!CurrentKey
  <2>2. attempts[m][t] \in Nat
    BY DEF CP!CleanupInv, CP!CleanupShape
  <2>3. attempts[m][t] + (IF CP!Entering(m, t) THEN 1 ELSE 0)
         <= (IF CP!Tried(journal[CP!CurrentKey(m)], t) THEN 1 ELSE 0)
              + (IF /\ journal[<<m, "continuation">>] # CP!NoReceipt
                    /\ t = "pr_add" /\ CP!ReadAbsent(m) THEN 1 ELSE 0)
    BY DEF CP!CleanupInv, CP!AsksAreMarked
  <2> QED BY <1>2, <1>7, <2>1, <2>2, <2>3
<1>9. CP!PlansAreWhole'
  BY <1>2 DEF CP!CleanupInv, CP!PlansAreWhole, CP!ReplyAfterClose
<1> QED BY <1>5, <1>6, <1>8, <1>9 DEF CP!CleanupInv

LEMMA CleanupGoes == CP!CleanupInv /\ (CP!CleanupNext \/ UNCHANGED cleanprVars) => CP!CleanupInv'
<1> SUFFICES ASSUME CP!CleanupInv, CP!CleanupNext \/ UNCHANGED cleanprVars PROVE CP!CleanupInv'
  OBVIOUS
<1>1. CASE UNCHANGED cleanprVars
  <2>1. UNCHANGED <<live, journal, readings, runPc, cleanprMode, key, hint, attempts>>
    BY <1>1 DEF cleanprVars
  <2>2. CP!RunKnowsItsReceipt'
    BY <2>1 DEF CP!CleanupInv, CP!RunKnowsItsReceipt, CP!CurrentKey, CP!Receipt
  <2>3. live' \in CP!WorldType /\ hint' \in BOOLEAN /\ cleanprMode' \in CP!Modes /\ key' \in CP!Key
    BY <2>1 DEF CP!CleanupInv, CP!CleanupShape, CP!CleanupTypeOK
  <2> QED BY <2>1, <2>2, <2>3, QuietKeeps
<1>2. CASE CP!CleanupNext
  BY <1>2, CallsKeep, FoundKeeps, PrepareKeeps, ReserveKeeps, StartKeeps, EffectKeeps, ReadBackKeeps,
     CompleteKeeps, DecisionKeeps DEF CP!CleanupNext
<1> QED BY <1>1, <1>2

(* What the receipts show bounds what was asked for.                        *)
LEMMA AsksAreBounded == CP!CleanupInv => CP!EffectOnce /\ CP!ReplyAfterClose
<1> SUFFICES ASSUME CP!CleanupInv, NEW m \in CP!Modes, NEW s \in CP!Step
             PROVE  attempts[m][s] <= IF \E i \in DOMAIN readings[<<m, "first">>] :
                                            s = "pr_add" /\ readings[<<m, "first">>][i] = "absent"
                                      THEN 2 ELSE 1
  BY DEF CP!EffectOnce, CP!CleanupInv, CP!PlansAreWhole
<1>1. attempts[m][s] \in Nat
  BY DEF CP!CleanupInv, CP!CleanupShape
<1>2. attempts[m][s] + (IF CP!Entering(m, s) THEN 1 ELSE 0)
         <= (IF CP!Tried(journal[CP!CurrentKey(m)], s) THEN 1 ELSE 0)
              + (IF /\ journal[<<m, "continuation">>] # CP!NoReceipt
                    /\ s = "pr_add" /\ CP!ReadAbsent(m) THEN 1 ELSE 0)
  BY DEF CP!CleanupInv, CP!AsksAreMarked
<1> QED BY <1>1, <1>2 DEF CP!ReadAbsent

LEMMA NothingBlocked == ~CP!Blocked(CP!NoReceipt)
BY StepsAre DEF CP!Blocked, CP!NoReceipt

(* A run writes only the receipt it has at hand, and works on none that is  *)
(* blocked; a copy is made where there was no receipt.                      *)
LEMMA WritesAreKnown ==
  ASSUME CP!CleanupInv, NEW q, journal' = [journal EXCEPT ![key] = q],
         runPc \in {"step", "reserved"} \/ runPc \in {"effect", "readback"} \/ runPc = "plan"
  PROVE  CP!UnknownKeptStep
<1> SUFFICES ASSUME NEW k \in CP!Key, CP!Blocked(journal[k]), ~CP!AtHandOf(k), k = key
             PROVE  FALSE
  BY DEF CP!UnknownKeptStep, CP!CleanupInv, CP!CleanupShape
<1>1. runPc \notin {"effect", "readback"}
  BY DEF CP!AtHandOf
<1>2. CASE runPc \in {"step", "reserved"}
  <2>1. /\ CP!Receipt.status # "ambiguous" /\ CP!Receipt.unknown = {}
        /\ \A s \in CP!Step : CP!Receipt.steps[s] \notin CP!Unknown
    BY <1>2 DEF CP!CleanupInv, CP!RunKnowsItsReceipt, CP!AtWork
  <2> QED BY <2>1 DEF CP!Blocked, CP!Receipt
<1>3. CASE runPc = "plan"
  <2>1. journal[key] = CP!NoReceipt
    BY <1>3 DEF CP!CleanupInv, CP!RunKnowsItsReceipt, CP!Receipt
  <2> QED BY <2>1, NothingBlocked
<1> QED BY <1>1, <1>2, <1>3

(* A step that may be done is not tried again by anyone who comes later.    *)
LEMMA UnknownsAreKept ==
  CP!CleanupInv /\ (CP!CleanupNext \/ UNCHANGED cleanprVars) => CP!UnknownKeptStep
<1> SUFFICES ASSUME CP!CleanupInv, CP!CleanupNext \/ UNCHANGED cleanprVars PROVE CP!UnknownKeptStep
  OBVIOUS
<1>1. CASE UNCHANGED journal
  BY <1>1 DEF CP!UnknownKeptStep
<1>2. CASE CP!PrepareReceipt \/ CP!Reserve \/ CP!MarkStarted \/ CP!Effect \/ CP!ReadBack \/ CP!Complete
  <2>1. CASE CP!PrepareReceipt
    BY <1>1, <2>1, WritesAreKnown DEF CP!PrepareReceipt
  <2>2. CASE CP!Reserve
    BY <2>2, WritesAreKnown DEF CP!Reserve, CP!Write
  <2>3. CASE CP!MarkStarted
    BY <2>3, WritesAreKnown DEF CP!MarkStarted, CP!Write
  <2>4. CASE CP!Effect
    BY <1>1, <2>4, WritesAreKnown DEF CP!Effect, CP!Write
  <2>5. CASE CP!ReadBack
    BY <2>5, WritesAreKnown DEF CP!ReadBack, CP!Write
  <2>6. CASE CP!Complete
    BY <2>6, WritesAreKnown DEF CP!Complete, CP!Write
  <2> QED BY <1>2, <2>1, <2>2, <2>3, <2>4, <2>5, <2>6
<1>3. CASE CP!FoundPrior
  <2>n. PICK n \in CP!Modes : n = cleanprMode
    BY DEF CP!CleanupInv, CP!CleanupShape, CP!CleanupTypeOK
  <2>1. PICK c : c = <<n, "continuation">>
    OBVIOUS
  <2>2. PICK q : UNCHANGED journal \/ /\ readings[CP!CurrentKey(n)] # <<>>
                                      /\ journal' = [journal EXCEPT ![c] = q]
    BY <1>3, <2>n, <2>1 DEF CP!FoundPrior
  <2>3. CASE readings[CP!CurrentKey(n)] # <<>> /\ journal' = [journal EXCEPT ![c] = q]
    <3>1. readings[c] = <<>>
      BY <2>1 DEF CP!CleanupInv, CP!CleanupShape
    <3>2. journal[c] = CP!NoReceipt
      BY <2>1, <2>3, <3>1 DEF CP!CurrentKey
    <3>3. ~CP!Blocked(journal[c])
      BY <3>2, NothingBlocked
    <3>4. \A k \in CP!Key : k # c => journal'[k] = journal[k]
      BY <2>3 DEF CP!CleanupInv, CP!CleanupShape
    <3> QED BY <3>3, <3>4 DEF CP!UnknownKeptStep
  <2> QED BY <1>1, <2>2, <2>3
<1>4. CASE UNCHANGED cleanprVars \/ CP!Ask \/ CP!Resume \/ CP!ProbeResidue \/ CP!Crash \/ CP!Reconcile \/ CP!PRMove
  BY <1>1, <1>4 DEF cleanprVars, CP!Ask, CP!Resume, CP!ProbeResidue, CP!Crash, CP!Reconcile, CP!PRMove
<1> QED BY <1>2, <1>3, <1>4 DEF CP!CleanupNext

-----------------------------------------------------------------------------
(* The promotion of the backlog (BacklogPromotion).                         *)

(* An issue that may be relabelled, and one that the last look lets through. *)
Admissible(t) == t \in BP!TicketType /\ t.status # {} /\ t.runnable /\ ~t.pr
FoundClean(t) == BP!Verified(t) /\ ~t.slot /\ t.handoff

LEMMA PromotionStarts == BP!PromotionInit => BP!PromotionInv
<1> SUFFICES ASSUME BP!PromotionInit PROVE BP!PromotionInv
  OBVIOUS
<1> USE PromotionAssumption
<1>1. /\ tickets \in [Ticket -> BP!TicketType] /\ listed = [i \in Ticket |-> NULL] /\ selected = {}
      /\ unread = {} /\ tpc = "idle" /\ doing = NULL /\ admitted = NULL /\ looked = NULL /\ review = NULL
      /\ outcome = [i \in Ticket |-> NULL] /\ rejection = [i \in Ticket |-> NULL]
      /\ fresh = Ticket /\ sinceLook = TRUE /\ ticketMoves = 0 /\ promotions = 0
  BY DEF BP!PromotionInit
<1>2. BP!PromotionTypeOK
  BY <1>1 DEF BP!PromotionTypeOK
<1>3. BP!Taken = {}
  BY <1>1 DEF BP!Taken, BP!Working
<1>4. BP!RowsAreOpen
  BY <1>1, <1>3 DEF BP!RowsAreOpen, BP!Working
<1>5. BP!TakenIsAllowed /\ BP!PromotedIsClean
  BY <1>1 DEF BP!TakenIsAllowed, BP!PromotedIsClean
<1>6. BP!StatusIsKept
  BY DEF BP!PromotionInit, BP!StatusIsKept
<1> QED BY <1>2, <1>4, <1>5, <1>6 DEF BP!PromotionInv

(* What is known of a row at work.                                          *)
LEMMA RowIsOpen ==
  ASSUME BP!PromotionInv, tpc \in BP!Working
  PROVE  /\ doing \in Ticket /\ outcome[doing] = NULL /\ doing \notin selected /\ doing \in BP!Taken
         /\ promotions # 0 /\ tickets[doing] \in BP!TicketType /\ tickets[doing].status # {}
         /\ tpc # "admit" => Admissible(admitted)
         /\ tpc \in {"clean", "verify"} => looked \in BP!TicketType
BY DEF Admissible, BP!StatusIsKept, BP!PromotionInv, BP!PromotionTypeOK, BP!RowsAreOpen, BP!Working, BP!Taken

(* A step within a run takes nothing more, and changes only what is taken.  *)
LEMMA TakenStays ==
  ASSUME BP!PromotionInv, UNCHANGED <<listed, unread, fresh, promotions, rejection>>, BP!Taken' = BP!Taken,
         \A i \in Ticket :
            /\ i \notin BP!Taken => tickets'[i] = tickets[i]
            /\ tickets'[i].pr = tickets[i].pr /\ tickets'[i].waits = tickets[i].waits
            /\ tickets'[i].high = tickets[i].high
  PROVE  BP!TakenIsAllowed'
<1>1. /\ promotions' = promotions /\ listed' = listed /\ fresh' = fresh /\ rejection' = rejection
      /\ unread' = unread /\ BP!TakenIsAllowed
  BY DEF BP!PromotionInv
<1>2. PICK T : T = BP!Taken
  OBVIOUS
<1>3. BP!Taken' = T
  BY <1>2
<1>4. /\ promotions > 0 => \A i \in T : ~BP!StillRejected(i, listed[i])
      /\ fresh = Ticket /\ promotions > 0 => \A i \in Ticket :
          /\ i \notin T => tickets[i] = listed[i]
          /\ tickets[i].pr = listed[i].pr /\ tickets[i].waits = listed[i].waits
          /\ tickets[i].high = listed[i].high
      /\ fresh = Ticket /\ unread = {} /\ promotions > 0 /\ (\E i \in T : ~listed[i].high /\ ~listed[i].waits) =>
          BP!Cardinality({i \in Ticket : BP!Claimable(listed[i])})
            + BP!Cardinality({i \in T : ~listed[i].waits}) <= Target
  BY <1>1, <1>2 DEF BP!TakenIsAllowed
<1>5. promotions > 0 => \A i \in T : ~BP!StillRejected(i, listed[i])'
  BY <1>1, <1>4 DEF BP!StillRejected
<1>6. fresh = Ticket /\ promotions > 0 => \A i \in Ticket :
          /\ i \notin T => tickets'[i] = listed[i]
          /\ tickets'[i].pr = listed[i].pr /\ tickets'[i].waits = listed[i].waits
          /\ tickets'[i].high = listed[i].high
  BY <1>2, <1>4
<1> QED BY <1>1, <1>3, <1>4, <1>5, <1>6 DEF BP!TakenIsAllowed

(* A row that ends has an outcome, and is taken as before.                  *)
LEMMA RowEnds ==
  ASSUME BP!PromotionInv, tpc \in BP!Working, UNCHANGED <<selected, doing>>,
         NEW how \in {"promoted", "failed", "rolled_back"}, BP!Fails(how)
  PROVE  /\ BP!Taken' = BP!Taken /\ tpc' = "rows" /\ outcome'[doing] = how
         /\ outcome' \in [Ticket -> {NULL, "promoted", "failed", "rolled_back"}]
         /\ \A i \in Ticket \ {doing} : outcome'[i] = outcome[i]
<1> USE PromotionAssumption
<1>1. /\ outcome \in [Ticket -> {NULL, "promoted", "failed", "rolled_back"}]
      /\ doing \in Ticket /\ outcome' = [outcome EXCEPT ![doing] = how] /\ tpc' = "rows"
  BY RowIsOpen DEF BP!PromotionInv, BP!PromotionTypeOK, BP!Fails
<1>2. /\ outcome'[doing] = how /\ how # NULL /\ \A i \in Ticket \ {doing} : outcome'[i] = outcome[i]
      /\ outcome' \in [Ticket -> {NULL, "promoted", "failed", "rolled_back"}]
  BY <1>1
<1> QED BY <1>1, <1>2 DEF BP!Taken, BP!Working

(* Within a row the set of what is taken stays.                             *)
LEMMA RowGoesOn ==
  ASSUME BP!PromotionInv, tpc \in BP!Working, tpc' \in BP!Working, UNCHANGED <<selected, doing, outcome>>
  PROVE  BP!Taken' = BP!Taken
BY DEF BP!Taken

(* A row goes on, or it ends: what an action of it must respect.            *)
LEMMA RowKeeps ==
  ASSUME BP!PromotionInv, tpc \in BP!Working,
         UNCHANGED <<listed, selected, unread, doing, fresh, promotions, review, rejection, ticketMoves>>,
         tickets' \in [Ticket -> BP!TicketType], sinceLook' \in BOOLEAN,
         \A i \in Ticket \ {doing} : tickets'[i] = tickets[i],
         tickets'[doing].pr = tickets[doing].pr, tickets'[doing].waits = tickets[doing].waits,
         tickets'[doing].high = tickets[doing].high, tickets'[doing].status # {},
         admitted' \in BP!TicketType \cup {NULL}, looked' \in BP!TicketType \cup {NULL},
         \/ /\ UNCHANGED outcome /\ tpc' \in BP!Working \ {"admit"} /\ Admissible(admitted')
            /\ tpc' \in {"clean", "verify"} => looked' \in BP!TicketType
            /\ tpc' = "verify" /\ sinceLook' => tickets'[doing] = looked'
         \/ BP!Fails("failed") \/ BP!Fails("rolled_back")
         \/ /\ BP!Fails("promoted") /\ Admissible(admitted')
            /\ sinceLook' => FoundClean(tickets'[doing])
  PROVE  BP!PromotionInv'
<1> USE PromotionAssumption
<1>1. /\ doing \in Ticket /\ outcome[doing] = NULL /\ doing \notin selected /\ doing \in BP!Taken
      /\ promotions # 0 /\ BP!StatusIsKept
  BY RowIsOpen DEF BP!PromotionInv
<1>2. /\ listed \in [Ticket -> BP!TicketType \cup {NULL}] /\ selected \subseteq Ticket /\ unread \subseteq Ticket
      /\ outcome \in [Ticket -> {NULL, "promoted", "failed", "rolled_back"}]
      /\ review \in {NULL} \cup [pins : [Ticket -> 0 .. MaxTicketMoves \cup {NULL}], accepted : SUBSET Ticket]
      /\ \A i \in Ticket : rejection[i] = NULL \/ rejection[i].text \in 0 .. MaxTicketMoves
      /\ fresh \subseteq Ticket /\ ticketMoves \in 0 .. MaxTicketMoves /\ promotions \in 0 .. MaxPromotions
      /\ listed \in [Ticket -> BP!TicketType] /\ \A i \in selected : outcome[i] = NULL
  BY <1>1 DEF BP!PromotionInv, BP!PromotionTypeOK, BP!RowsAreOpen
<1>3. /\ listed' = listed /\ selected' = selected /\ doing' = doing /\ fresh' = fresh /\ promotions' = promotions
      /\ review' = review /\ rejection' = rejection /\ ticketMoves' = ticketMoves /\ unread' = unread
  OBVIOUS
<1>7. BP!StatusIsKept'
  BY <1>1 DEF BP!StatusIsKept
<1>4. BP!Taken' = BP!Taken /\ BP!TakenIsAllowed'
  <2>1. BP!Taken' = BP!Taken
    BY RowEnds, RowGoesOn, <1>3
  <2>2. \A i \in Ticket :
            /\ i \notin BP!Taken => tickets'[i] = tickets[i]
            /\ tickets'[i].pr = tickets[i].pr /\ tickets'[i].waits = tickets[i].waits
            /\ tickets'[i].high = tickets[i].high
    BY <1>1
  <2> QED BY <2>1, <2>2, <1>3, TakenStays
<1>5. CASE /\ UNCHANGED outcome /\ tpc' \in BP!Working \ {"admit"} /\ Admissible(admitted')
           /\ tpc' \in {"clean", "verify"} => looked' \in BP!TicketType
           /\ tpc' = "verify" /\ sinceLook' => tickets'[doing] = looked'
  <2>1. BP!PromotionTypeOK'
    BY <1>1, <1>2, <1>3, <1>5 DEF BP!PromotionTypeOK, BP!Working
  <2>2. BP!RowsAreOpen'
    BY <1>1, <1>2, <1>3, <1>5 DEF Admissible, BP!RowsAreOpen, BP!Working
  <2>3. BP!PromotedIsClean'
    BY <1>1, <1>3, <1>5 DEF BP!PromotedIsClean
  <2> QED BY <1>4, <1>7, <2>1, <2>2, <2>3 DEF BP!PromotionInv
<1>6. CASE \E how \in {"failed", "promoted", "rolled_back"} :
             /\ BP!Fails(how)
             /\ how = "promoted" => /\ Admissible(admitted')
                                   /\ (sinceLook' => FoundClean(tickets'[doing]))
  <2>1. PICK how \in {"failed", "promoted", "rolled_back"} :
             /\ BP!Fails(how)
             /\ how = "promoted" => /\ Admissible(admitted')
                                   /\ (sinceLook' => FoundClean(tickets'[doing]))
    BY <1>6
  <2>2. /\ tpc' = "rows" /\ outcome'[doing] = how
        /\ outcome' \in [Ticket -> {NULL, "promoted", "failed", "rolled_back"}]
        /\ \A i \in Ticket \ {doing} : outcome'[i] = outcome[i]
    BY <1>3, <2>1, RowEnds
  <2>3. BP!PromotionTypeOK'
    BY <1>1, <1>2, <1>3, <2>2 DEF BP!PromotionTypeOK
  <2>4. BP!RowsAreOpen'
    BY <1>1, <1>2, <1>3, <2>2 DEF BP!RowsAreOpen, BP!Working
  <2>5. BP!PromotedIsClean'
    BY <1>3, <2>1, <2>2 DEF Admissible, FoundClean, BP!PromotedIsClean, BP!Verified
  <2> QED BY <1>4, <1>7, <2>3, <2>4, <2>5 DEF BP!PromotionInv
<1> QED BY <1>5, <1>6

LEMMA AdmitKeeps == ASSUME BP!PromotionInv, BP!Admit PROVE BP!PromotionInv'
<1>1. tpc \in BP!Working
  BY DEF BP!Admit, BP!Working
<1>2. doing \in Ticket /\ tickets[doing] \in BP!TicketType /\ tickets[doing].status # {}
  BY <1>1, RowIsOpen
<1>3. /\ tickets' = tickets /\ sinceLook' = sinceLook /\ looked' = looked /\ selected' = selected /\ doing' = doing
      /\ UNCHANGED <<listed, unread, fresh, promotions, review, rejection, ticketMoves>>
      /\ \/ /\ UNCHANGED outcome /\ tpc' = "relabel" /\ admitted' = tickets[doing]
            /\ tickets[doing].runnable /\ ~tickets[doing].pr
         \/ BP!Fails("failed") /\ UNCHANGED admitted
  BY DEF BP!Admit, BP!Runnable, BP!rest
<1>4. /\ tickets \in [Ticket -> BP!TicketType] /\ sinceLook \in BOOLEAN
      /\ admitted \in BP!TicketType \cup {NULL} /\ looked \in BP!TicketType \cup {NULL}
  BY DEF BP!PromotionInv, BP!PromotionTypeOK
<1>5. /\ admitted' \in BP!TicketType \cup {NULL}
      /\ \/ UNCHANGED outcome /\ tpc' = "relabel" /\ "relabel" \in BP!Working /\ Admissible(admitted')
         \/ BP!Fails("failed")
  BY <1>2, <1>3, <1>4 DEF BP!Working, Admissible
<1> QED BY <1>1, <1>2, <1>3, <1>4, <1>5, RowKeeps

LEMMA RelabelKeeps == ASSUME BP!PromotionInv, BP!Relabel PROVE BP!PromotionInv'
<1>1. tpc \in BP!Working /\ tpc # "admit"
  BY DEF BP!Relabel, BP!Working
<1>2. /\ doing \in Ticket /\ tickets[doing] \in BP!TicketType /\ Admissible(admitted)
      /\ admitted \in BP!TicketType /\ tickets[doing].status # {}
  BY <1>1, RowIsOpen DEF Admissible
<1>3. /\ admitted' = admitted /\ sinceLook' = sinceLook /\ looked' = looked /\ selected' = selected /\ doing' = doing
      /\ UNCHANGED <<listed, unread, fresh, promotions, review, rejection, ticketMoves>>
      /\ \/ tickets' = [tickets EXCEPT ![doing].status = (@ \ admitted.status) \cup {"todo"},
                                       ![doing].label = TRUE, ![doing].hold = admitted.waits]
         \/ UNCHANGED tickets
      /\ (UNCHANGED outcome /\ tpc' = "look") \/ BP!Fails("failed")
  BY DEF BP!Relabel, BP!rest
<1>4. /\ tickets \in [Ticket -> BP!TicketType] /\ sinceLook \in BOOLEAN
      /\ looked \in BP!TicketType \cup {NULL}
  BY DEF BP!PromotionInv, BP!PromotionTypeOK
<1>5. PICK t : t = [tickets[doing] EXCEPT !.status = (@ \ admitted.status) \cup {"todo"},
                                          !.label = TRUE, !.hold = admitted.waits]
  OBVIOUS
<1>6. /\ t \in BP!TicketType /\ t.pr = tickets[doing].pr /\ t.waits = tickets[doing].waits
      /\ t.high = tickets[doing].high /\ t.status # {}
  BY <1>2, <1>5 DEF BP!TicketType
<1>7. tickets' = [tickets EXCEPT ![doing] = t] \/ UNCHANGED tickets
  BY <1>3, <1>5
<1>8. /\ tickets' \in [Ticket -> BP!TicketType] /\ \A i \in Ticket \ {doing} : tickets'[i] = tickets[i]
      /\ tickets'[doing].pr = tickets[doing].pr /\ tickets'[doing].waits = tickets[doing].waits
      /\ tickets'[doing].high = tickets[doing].high /\ tickets'[doing].status # {}
  BY <1>2, <1>4, <1>6, <1>7
<1>9. (UNCHANGED outcome /\ tpc' = "look" /\ "look" \in BP!Working) \/ BP!Fails("failed")
  BY <1>3 DEF BP!Working
<1> QED BY <1>1, <1>2, <1>3, <1>4, <1>8, <1>9, RowKeeps

LEMMA LookKeeps == ASSUME BP!PromotionInv, BP!Look PROVE BP!PromotionInv'
<1>1. tpc \in BP!Working /\ tpc # "admit"
  BY DEF BP!Look, BP!Working
<1>2. /\ doing \in Ticket /\ tickets[doing] \in BP!TicketType /\ Admissible(admitted)
      /\ admitted \in BP!TicketType /\ tickets[doing].status # {}
  BY <1>1, RowIsOpen DEF Admissible
<1>3. /\ tickets' = tickets /\ admitted' = admitted /\ sinceLook' = TRUE /\ selected' = selected /\ doing' = doing
      /\ UNCHANGED <<listed, unread, fresh, promotions, review, rejection, ticketMoves>>
      /\ \/ looked' = tickets[doing] /\ tpc' \in {"clean", "verify"} /\ UNCHANGED outcome
         \/ BP!Fails("failed") /\ UNCHANGED looked
  BY DEF BP!Look, BP!rest
<1>4. tickets \in [Ticket -> BP!TicketType] /\ looked \in BP!TicketType \cup {NULL}
  BY DEF BP!PromotionInv, BP!PromotionTypeOK
<1>5. /\ looked' \in BP!TicketType \cup {NULL}
      /\ \/ /\ UNCHANGED outcome /\ tpc' \in BP!Working \ {"admit"} /\ looked' \in BP!TicketType
            /\ tickets'[doing] = looked'
         \/ BP!Fails("failed")
  BY <1>2, <1>3, <1>4 DEF BP!Working
<1> QED BY <1>1, <1>2, <1>3, <1>4, <1>5, RowKeeps

LEMMA CleanKeeps == ASSUME BP!PromotionInv, BP!CleanPriority PROVE BP!PromotionInv'
<1>1. tpc \in BP!Working /\ tpc # "admit"
  BY DEF BP!CleanPriority, BP!Working
<1>2. /\ doing \in Ticket /\ tickets[doing] \in BP!TicketType /\ Admissible(admitted)
      /\ admitted \in BP!TicketType /\ tickets[doing].status # {}
  BY <1>1, RowIsOpen DEF Admissible
<1>3. /\ admitted' = admitted /\ sinceLook' = TRUE /\ selected' = selected /\ doing' = doing
      /\ UNCHANGED <<listed, unread, fresh, promotions, review, rejection, ticketMoves>>
      /\ \/ /\ tickets' = [tickets EXCEPT ![doing].extra = FALSE] /\ looked' = tickets'[doing]
            /\ UNCHANGED outcome /\ tpc' = "verify"
         \/ /\ BP!Fails("failed") /\ UNCHANGED looked
            /\ UNCHANGED tickets \/ tickets' = [tickets EXCEPT ![doing].extra = FALSE]
  BY DEF BP!CleanPriority, BP!rest
<1>4. tickets \in [Ticket -> BP!TicketType] /\ looked \in BP!TicketType \cup {NULL}
  BY DEF BP!PromotionInv, BP!PromotionTypeOK
<1>5. PICK t : t = [tickets[doing] EXCEPT !.extra = FALSE]
  OBVIOUS
<1>6. /\ t \in BP!TicketType /\ t.pr = tickets[doing].pr /\ t.waits = tickets[doing].waits
      /\ t.high = tickets[doing].high /\ t.status = tickets[doing].status
  BY ONLY <1>2, <1>5 DEF BP!TicketType
<1>7. \/ /\ tickets' = [tickets EXCEPT ![doing] = t] /\ looked' = tickets'[doing]
         /\ UNCHANGED outcome /\ tpc' = "verify"
      \/ /\ BP!Fails("failed") /\ UNCHANGED looked
         /\ UNCHANGED tickets \/ tickets' = [tickets EXCEPT ![doing] = t]
  BY <1>3, <1>5
<1>8. /\ tickets' \in [Ticket -> BP!TicketType] /\ \A i \in Ticket \ {doing} : tickets'[i] = tickets[i]
      /\ tickets'[doing].pr = tickets[doing].pr /\ tickets'[doing].waits = tickets[doing].waits
      /\ tickets'[doing].high = tickets[doing].high /\ tickets'[doing].status # {}
  BY <1>2, <1>4, <1>6, <1>7
<1>9. /\ looked' \in BP!TicketType \cup {NULL}
      /\ \/ /\ UNCHANGED outcome /\ tpc' = "verify" /\ "verify" \in BP!Working /\ looked' \in BP!TicketType
            /\ tickets'[doing] = looked'
         \/ BP!Fails("failed")
  BY <1>2, <1>4, <1>7, <1>8 DEF BP!Working
<1> QED BY <1>1, <1>2, <1>3, <1>8, <1>9, RowKeeps

(* What a promotion says, and what a roll back leaves.                      *)
LEMMA VerifyKeeps == ASSUME BP!PromotionInv, BP!Verify PROVE BP!PromotionInv'
<1> USE PromotionAssumption
<1>1. tpc = "verify" /\ tpc \in BP!Working
  BY DEF BP!Verify, BP!Working
<1>2. /\ doing \in Ticket /\ tickets[doing] \in BP!TicketType /\ Admissible(admitted)
      /\ looked \in BP!TicketType /\ admitted \in BP!TicketType /\ tickets[doing].status # {}
      /\ sinceLook => tickets[doing] = looked
  BY <1>1, RowIsOpen DEF Admissible, BP!PromotionInv, BP!RowsAreOpen
<1>3. /\ admitted' = admitted /\ looked' = looked /\ sinceLook' = sinceLook /\ selected' = selected /\ doing' = doing
      /\ UNCHANGED <<listed, unread, fresh, promotions, review, rejection, ticketMoves>>
      /\ \/ BP!Fails("failed") /\ UNCHANGED tickets
         \/ /\ BP!Verified(looked) /\ BP!DispatchReady(doing, looked, FALSE)
            /\ BP!Fails("promoted") /\ UNCHANGED tickets
         \/ /\ BP!Fails("rolled_back")
            /\ tickets' \in {tickets, [tickets EXCEPT ![doing] = BP!Restored(tickets[doing])]}
  BY DEF BP!Verify, BP!rest
<1>4. tickets \in [Ticket -> BP!TicketType] /\ sinceLook \in BOOLEAN
  BY DEF BP!PromotionInv, BP!PromotionTypeOK
<1>5. PICK t : t = BP!Restored(tickets[doing])
  OBVIOUS
<1>6. /\ t \in BP!TicketType /\ t.pr = tickets[doing].pr /\ t.waits = tickets[doing].waits
      /\ t.high = tickets[doing].high
      /\ t.status # {}
  BY <1>2, <1>5 DEF Admissible, BP!Restored, BP!TicketType
<1>7. \/ BP!Fails("failed") /\ UNCHANGED tickets
      \/ BP!Verified(looked) /\ BP!DispatchReady(doing, looked, FALSE) /\ BP!Fails("promoted") /\ UNCHANGED tickets
      \/ BP!Fails("rolled_back") /\ tickets' \in {tickets, [tickets EXCEPT ![doing] = t]}
  BY <1>3, <1>5
<1>8. /\ tickets' \in [Ticket -> BP!TicketType] /\ \A i \in Ticket \ {doing} : tickets'[i] = tickets[i]
      /\ tickets'[doing].pr = tickets[doing].pr /\ tickets'[doing].waits = tickets[doing].waits
      /\ tickets'[doing].high = tickets[doing].high /\ tickets'[doing].status # {}
  BY <1>2, <1>4, <1>6, <1>7
<1>9. ASSUME BP!Verified(looked), BP!DispatchReady(doing, looked, FALSE), UNCHANGED tickets, sinceLook'
      PROVE  FoundClean(tickets'[doing])
  <2>1. tickets'[doing] = looked /\ tickets[doing] = looked
    BY <1>2, <1>3, <1>9
  <2>2. ~looked.slot /\ tickets[doing].handoff
    BY <1>9 DEF BP!DispatchReady, BP!ContractOK, BP!HandoffOK
  <2> QED BY <1>9, <2>1, <2>2 DEF FoundClean
<1>10. \/ BP!Fails("failed") \/ BP!Fails("rolled_back")
       \/ /\ BP!Fails("promoted")
          /\ sinceLook' => FoundClean(tickets'[doing])
  BY <1>7, <1>9
<1>11. BP!PromotionInv'
  BY <1>1, <1>2, <1>3, <1>4, <1>8, <1>10, RowKeeps
<1> QED BY <1>11

LEMMA ListKeeps == ASSUME BP!PromotionInv, BP!List PROVE BP!PromotionInv'
<1> USE PromotionAssumption
<1>1. /\ tickets' = tickets /\ listed' = tickets /\ tpc' = "classify" /\ fresh' = Ticket /\ selected' = {}
      /\ outcome' = [i \in Ticket |-> NULL] /\ promotions < MaxPromotions /\ promotions' = promotions + 1
      /\ UNCHANGED <<doing, admitted, looked, sinceLook, review, rejection, ticketMoves>>
      /\ unread' \subseteq Ticket
  BY DEF BP!List, BP!rest
<1>2. BP!PromotionTypeOK /\ promotions \in Nat
  BY DEF BP!PromotionInv, BP!PromotionTypeOK
<1>3. BP!PromotionTypeOK'
  BY <1>1, <1>2 DEF BP!PromotionTypeOK
<1>4. BP!Taken' = {}
  BY <1>1 DEF BP!Taken, BP!Working
<1>5. BP!RowsAreOpen'
  BY <1>1, <1>2, <1>4 DEF BP!RowsAreOpen, BP!Working, BP!PromotionTypeOK
<1>6. BP!TakenIsAllowed'
  BY <1>1, <1>4 DEF BP!TakenIsAllowed
<1>7. BP!PromotedIsClean' /\ BP!StatusIsKept'
  BY <1>1, <1>2 DEF BP!PromotedIsClean, BP!StatusIsKept, BP!PromotionInv, BP!PromotionTypeOK
<1> QED BY <1>3, <1>5, <1>6, <1>7 DEF BP!PromotionInv

LEMMA NextRowKeeps == ASSUME BP!PromotionInv, BP!NextRow PROVE BP!PromotionInv'
<1> USE PromotionAssumption
<1>1. /\ tpc = "rows"
      /\ UNCHANGED <<tickets, listed, unread, admitted, looked, outcome, fresh, sinceLook, promotions, review,
                     rejection, ticketMoves>>
      /\ \/ selected = {} /\ tpc' = "idle" /\ selected' = selected /\ doing' = doing
         \/ \E i \in selected : doing' = i /\ selected' = selected \ {i} /\ tpc' = "admit"
  BY DEF BP!NextRow, BP!rest
<1>2. /\ BP!PromotionTypeOK /\ promotions # 0 /\ listed \in [Ticket -> BP!TicketType]
      /\ \A i \in selected : outcome[i] = NULL
  BY <1>1 DEF BP!PromotionInv, BP!RowsAreOpen
<1>3. BP!PromotionTypeOK'
  BY <1>1, <1>2 DEF BP!PromotionTypeOK
<1>4. BP!Taken' = BP!Taken
  BY <1>1, <1>2 DEF BP!Taken, BP!Working, BP!PromotionTypeOK
<1>5. BP!RowsAreOpen'
  BY <1>1, <1>2 DEF BP!RowsAreOpen, BP!Working, BP!PromotionTypeOK
<1>6. BP!TakenIsAllowed'
  BY <1>1, <1>4, TakenStays
<1>7. BP!PromotedIsClean' /\ BP!StatusIsKept'
  BY <1>1, <1>2 DEF BP!PromotionInv, BP!PromotedIsClean, BP!StatusIsKept
<1> QED BY <1>3, <1>5, <1>6, <1>7 DEF BP!PromotionInv

LEMMA MovesKeep == ASSUME BP!PromotionInv, NEW i \in Ticket, BP!TicketMoves(i) PROVE BP!PromotionInv'
<1> USE PromotionAssumption
<1>1. /\ ticketMoves' \in 0 .. MaxTicketMoves /\ fresh' = fresh \ {i} /\ sinceLook' = (sinceLook /\ i # doing)
      /\ UNCHANGED <<listed, selected, unread, tpc, doing, admitted, looked, outcome, review, rejection, promotions>>
      /\ BP!PromotionTypeOK /\ BP!RowsAreOpen
  BY DEF BP!TicketMoves, BP!PromotionInv, BP!PromotionTypeOK
<1>2. PICK how \in {"text", "meta", "status", "slot", "pr", "runnable", "handoff", "extra", "waits"} :
               tickets' = [tickets EXCEPT ![i] = BP!Moved(tickets[i], how)]
  BY DEF BP!TicketMoves
<1>3. PICK t : t = BP!Moved(tickets[i], how)
  OBVIOUS
<1>4. t \in BP!TicketType
  <2>1. PICK u \in BP!TicketType, n \in 0 .. MaxTicketMoves : u = tickets[i] /\ n = ticketMoves'
    BY <1>1 DEF BP!PromotionTypeOK
  <2>2. \/ t = [u EXCEPT !.text = n]
        \/ t = [u EXCEPT !.text = n, !.meta = "part"]
        \/ t = [u EXCEPT !.status = @ \cup {"progress"}]
        \/ t = [u EXCEPT !.status = {"progress"}, !.slot = TRUE]
        \/ t = [u EXCEPT !.pr = ~@]
        \/ t = [u EXCEPT !.runnable = ~@]
        \/ t = [u EXCEPT !.handoff = ~@]
        \/ t = [u EXCEPT !.extra = TRUE]
        \/ t = [u EXCEPT !.waits = ~@]
    BY ONLY <1>2, <1>3, <2>1 DEF BP!Moved
  <2>3. /\ [u EXCEPT !.text = n] \in BP!TicketType
        /\ [u EXCEPT !.text = n, !.meta = "part"] \in BP!TicketType
        /\ [u EXCEPT !.status = @ \cup {"progress"}] \in BP!TicketType
        /\ [u EXCEPT !.status = {"progress"}, !.slot = TRUE] \in BP!TicketType
        /\ [u EXCEPT !.extra = TRUE] \in BP!TicketType
    BY ONLY <2>1, u \in BP!TicketType, n \in 0 .. MaxTicketMoves DEF BP!TicketType
  <2>4. /\ [u EXCEPT !.pr = ~@] \in BP!TicketType /\ [u EXCEPT !.runnable = ~@] \in BP!TicketType
        /\ [u EXCEPT !.handoff = ~@] \in BP!TicketType /\ [u EXCEPT !.waits = ~@] \in BP!TicketType
    BY ONLY u \in BP!TicketType DEF BP!TicketType
  <2> QED BY ONLY <2>2, <2>3, <2>4
<1>12. t.status # {}
  <2>1. PICK u \in BP!TicketType, n \in 0 .. MaxTicketMoves : u = tickets[i] /\ n = ticketMoves'
    BY <1>1 DEF BP!PromotionTypeOK
  <2>2. u.status # {}
    BY <2>1 DEF BP!PromotionInv, BP!StatusIsKept
  <2> QED BY ONLY <1>2, <1>3, <2>1, <2>2 DEF BP!Moved, BP!TicketType
<1>5. tickets' = [tickets EXCEPT ![i] = t]
  BY ONLY <1>2, <1>3
<1>6. tickets' \in [Ticket -> BP!TicketType] /\ \A j \in Ticket \ {i} : tickets'[j] = tickets[j]
  BY <1>1, <1>4, <1>5 DEF BP!PromotionTypeOK
<1>7. BP!PromotionTypeOK'
  BY <1>1, <1>6 DEF BP!PromotionTypeOK
<1>8. BP!Taken' = BP!Taken
  BY <1>1 DEF BP!Taken
<1>9. BP!RowsAreOpen'
  BY <1>1, <1>6, <1>8 DEF BP!RowsAreOpen, BP!Working
<1>10. BP!TakenIsAllowed'
  <2>1. fresh' # Ticket /\ listed' = listed /\ promotions' = promotions /\ rejection' = rejection
    BY <1>1
  <2>2. promotions > 0 => \A j \in BP!Taken : ~BP!StillRejected(j, listed[j])
    BY DEF BP!PromotionInv, BP!TakenIsAllowed
  <2>3. PICK T : T = BP!Taken
    OBVIOUS
  <2>4. BP!Taken' = T
    BY <1>8, <2>3
  <2>5. promotions > 0 => \A j \in T : ~BP!StillRejected(j, listed[j])'
    BY <2>1, <2>2, <2>3 DEF BP!StillRejected
  <2> QED BY <2>1, <2>4, <2>5 DEF BP!TakenIsAllowed
<1>11. BP!PromotedIsClean'
  <2>1. BP!PromotedIsClean /\ doing \in Ticket \cup {NULL}
    BY <1>1 DEF BP!PromotionInv, BP!PromotionTypeOK
  <2>2. ASSUME doing # NULL, outcome[doing] = "promoted", sinceLook, i # doing
        PROVE  BP!Verified(tickets'[doing]) /\ ~tickets'[doing].slot /\ tickets'[doing].handoff
    <3>1. tickets'[doing] = tickets[doing]
      BY <1>6, <2>1, <2>2
    <3> QED BY <2>1, <2>2, <3>1 DEF BP!PromotedIsClean
  <2> QED BY <1>1, <2>1, <2>2 DEF BP!PromotedIsClean, BP!Verified
<1>13. BP!StatusIsKept'
  BY <1>1, <1>5, <1>6, <1>12 DEF BP!StatusIsKept, BP!PromotionInv, BP!PromotionTypeOK
<1> QED BY <1>7, <1>9, <1>10, <1>11, <1>13 DEF BP!PromotionInv

(* Counting, the same within the module of the promotion and here.          *)
LEMMA CardIsCard == \A S : BP!Cardinality(S) = Cardinality(S)
BY DEF BP!Cardinality, Cardinality

(* Whoever has fewer than K before it is one of at most K.                  *)
LEMMA RanksFit ==
  ASSUME NEW low \in SUBSET Ticket, NEW K \in Nat
  PROVE  /\ IsFiniteSet({i \in low : Cardinality({j \in low : j < i}) < K})
         /\ Cardinality({i \in low : Cardinality({j \in low : j < i}) < K}) <= K
<1> USE PromotionAssumption
<1> DEFINE Before(i) == {j \in low : j < i}
           P == {i \in low : Cardinality(Before(i)) < K}
           rank == [i \in P |-> Cardinality(Before(i))]
<1>1. IsFiniteSet(low) /\ low \subseteq Nat
  BY FS_Subset
<1>2. \A i \in low : IsFiniteSet(Before(i)) /\ Cardinality(Before(i)) \in Nat
  BY <1>1, FS_Subset, FS_CardinalityType
<1>3. ASSUME NEW i \in low, NEW j \in low, i < j PROVE Cardinality(Before(i)) < Cardinality(Before(j))
  <2>1. i \notin Before(i) /\ Before(i) \cup {i} \subseteq Before(j)
    <3>1. i \in Nat /\ j \in Nat /\ \A k \in low : k \in Nat
      BY <1>1
    <3>2. ~(i < i) /\ \A k \in low : k < i => k < j
      BY <1>3, <3>1
    <3> QED BY <1>3, <3>2
  <2>2. Cardinality(Before(i) \cup {i}) = Cardinality(Before(i)) + 1 /\ IsFiniteSet(Before(i) \cup {i})
    BY <1>2, <2>1, FS_AddElement
  <2>3. Cardinality(Before(i) \cup {i}) <= Cardinality(Before(j))
    BY <1>2, <2>1, FS_Subset
  <2> QED BY <1>2, <2>2, <2>3
<1>4. rank \in Injection(P, 0 .. K - 1)
  <2>1. rank \in [P -> 0 .. K - 1]
    <3>1. ASSUME NEW i \in P PROVE Cardinality(Before(i)) \in 0 .. K - 1
      <4>1. PICK n \in Nat : n = Cardinality(Before(i))
        BY <1>2
      <4>2. n < K
        BY <4>1
      <4>3. n \in 0 .. K - 1
        BY <4>2
      <4> QED BY <4>1, <4>3
    <3> QED BY <3>1
  <2>2. ASSUME NEW i \in P, NEW j \in P, rank[i] = rank[j] PROVE i = j
    <3>1. ~(i < j) /\ ~(j < i)
      BY <1>2, <1>3, <2>2
    <3> QED BY <1>1, <3>1
  <2>3. IsInjective(rank)
    BY <2>2 DEF IsInjective
  <2> HIDE DEF rank
  <2> QED BY <2>1, <2>3 DEF Injection
<1>5. IsFiniteSet(0 .. K - 1) /\ Cardinality(0 .. K - 1) = K
  BY FS_Interval
<1>6. IsFiniteSet(P) /\ Cardinality(P) <= K
  BY <1>4, <1>5, FS_Injection
<1> QED BY <1>6

(* What is selected of the clean ones: all of high priority and those that  *)
(* wait, and as many of the others as the target lacks.                     *)
LEMMA PickedFits ==
  ASSUME NEW clean \in SUBSET Ticket, listed \in [Ticket -> BP!TicketType],
         \A i \in Ticket : tickets[i] = listed[i]
  PROVE  /\ BP!Picked(clean, {}) \subseteq clean
         /\ (\E i \in BP!Picked(clean, {}) : ~listed[i].high /\ ~listed[i].waits) =>
              Cardinality({i \in Ticket : BP!Claimable(listed[i])})
                + Cardinality({i \in BP!Picked(clean, {}) : ~listed[i].waits}) <= Target
<1> USE PromotionAssumption
<1> DEFINE higher == {i \in clean : listed[i].high}
           ready == {i \in higher : ~listed[i].waits}
           low == {i \in clean : ~listed[i].high /\ ~listed[i].waits}
           open == {i \in Ticket : BP!Claimable(listed[i])}
           used == Cardinality(open) + Cardinality(ready)
           few == {i \in low : used + Cardinality({j \in low : j < i}) < Target}
<1>1. BP!PoolCount(listed, {}) = Cardinality(open)
  <2>1. ASSUME NEW i \in Ticket PROVE [listed[i] EXCEPT !.pr = tickets[i].pr] = listed[i]
    <3>1. PICK t \in BP!TicketType : t = listed[i] /\ tickets[i] = t
      OBVIOUS
    <3>2. [t EXCEPT !.pr = t.pr] = t
      BY ONLY t \in BP!TicketType DEF BP!TicketType
    <3> QED BY <3>1, <3>2
  <2>2. {i \in Ticket \ {} : BP!Claimable([listed[i] EXCEPT !.pr = tickets[i].pr])} = open
    BY <2>1
  <2> QED BY <2>2, CardIsCard DEF BP!PoolCount
<1>2. BP!Picked(clean, {}) = higher \cup {i \in clean : ~listed[i].high /\ listed[i].waits} \cup few
  BY <1>1, CardIsCard DEF BP!Picked
<1>3. BP!Picked(clean, {}) \subseteq clean
  BY <1>2
<1>4. {i \in BP!Picked(clean, {}) : ~listed[i].waits} = ready \cup few
  BY <1>2
<1>5. /\ IsFiniteSet(open) /\ IsFiniteSet(ready) /\ IsFiniteSet(low) /\ low \in SUBSET Ticket
      /\ Cardinality(open) \in Nat /\ Cardinality(ready) \in Nat
  <2>1. open \subseteq Ticket /\ ready \subseteq Ticket /\ low \subseteq Ticket
    OBVIOUS
  <2> HIDE DEF open, ready, low
  <2>2. IsFiniteSet(open) /\ IsFiniteSet(ready) /\ IsFiniteSet(low)
    BY <2>1, FS_Subset
  <2> QED BY <2>1, <2>2, FS_CardinalityType
<1>6. ASSUME NEW i \in BP!Picked(clean, {}), ~listed[i].high, ~listed[i].waits
      PROVE  Cardinality(open) + Cardinality(ready \cup few) <= Target
  <2>1. i \in few
    BY <1>2, <1>6
  <2>2. IsFiniteSet({j \in low : j < i})
    BY <1>5, FS_Subset
  <2>3. Cardinality({j \in low : j < i}) \in Nat
    BY <2>2, FS_CardinalityType
  <2>4. PICK K \in Nat : K = Target - used
    <3>1. used \in Nat /\ used + Cardinality({j \in low : j < i}) < Target
      BY <1>5, <2>1
    <3> HIDE DEF used
    <3> QED BY <2>3, <3>1
  <2>5. few = {j \in low : Cardinality({k \in low : k < j}) < K}
    <3>1. ASSUME NEW j \in low
          PROVE  (used + Cardinality({k \in low : k < j}) < Target) <=> (Cardinality({k \in low : k < j}) < K)
      <4>1. IsFiniteSet({k \in low : k < j})
        BY <1>5, FS_Subset
      <4>2. PICK n \in Nat : n = Cardinality({k \in low : k < j})
        BY <4>1, FS_CardinalityType
      <4>3. used \in Nat
        BY <1>5
      <4> HIDE DEF used
      <4> QED BY <2>4, <4>2, <4>3
    <3> QED BY <3>1
  <2>6. IsFiniteSet(few) /\ Cardinality(few) <= K
    <3> HIDE DEF low, few
    <3> QED BY <1>5, <2>5, RanksFit
  <2>7. Cardinality(ready \cup few) <= Cardinality(ready) + Cardinality(few)
    <3> HIDE DEF ready, few
    <3>1. /\ Cardinality(ready \cup few) = Cardinality(ready) + Cardinality(few) - Cardinality(ready \cap few)
          /\ Cardinality(ready \cap few) \in Nat
      <4>1. IsFiniteSet(ready \cap few)
        BY <1>5, FS_Subset
      <4> QED BY <1>5, <2>6, <4>1, FS_Union, FS_CardinalityType
    <3>2. Cardinality(few) \in Nat
      BY <2>6, FS_CardinalityType
    <3> QED BY <1>5, <3>1, <3>2
  <2>8. Cardinality(few) \in Nat /\ Cardinality(ready \cup few) \in Nat
    <3> HIDE DEF ready, few
    <3> QED BY <1>5, <2>6, FS_Union, FS_CardinalityType
  <2> HIDE DEF few, ready, open
  <2> QED BY <1>5, <2>4, <2>6, <2>7, <2>8 DEF used
<1> QED BY <1>3, <1>4, <1>6

LEMMA ClassifyKeeps == ASSUME BP!PromotionInv, BP!Classify PROVE BP!PromotionInv'
<1> USE PromotionAssumption
<1>1. PICK clean : clean = {i \in Ticket : BP!Class(i, listed[i]) = "clean"}
  OBVIOUS
<1>2. PICK S : S = BP!Picked(clean, unread)
  OBVIOUS
<1>3. /\ tpc = "classify" /\ BP!PromotionTypeOK /\ promotions # 0 /\ listed \in [Ticket -> BP!TicketType]
      /\ BP!Taken = {} /\ selected = {} /\ \A i \in Ticket : outcome[i] = NULL
  BY DEF BP!Classify, BP!PromotionInv, BP!RowsAreOpen, BP!Taken, BP!PromotionTypeOK
<1>4. /\ UNCHANGED <<tickets, listed, unread, doing, admitted, looked, outcome, fresh, sinceLook, ticketMoves, promotions>>
      /\ \/ review = NULL /\ selected' = S /\ tpc' = "rows" /\ UNCHANGED review
         \/ /\ review = NULL /\ tpc' = "idle" /\ selected' = selected
            /\ \E accepted \in SUBSET S :
                  review' = [accepted |-> accepted,
                             pins |-> [i \in Ticket |-> IF i \in S THEN listed[i].text ELSE NULL]]
         \/ /\ review # NULL /\ review' = NULL
            /\ \/ selected' = S /\ tpc' = "rows"
               \/ tpc' = "idle" /\ selected' = selected
      /\ rejection' = IF review = NULL /\ review' # NULL
                      THEN [i \in Ticket |-> IF review'.pins[i] # NULL /\ i \notin review'.accepted
                                             THEN BP!Evidence(listed[i]) ELSE rejection[i]]
                      ELSE rejection
  BY <1>1, <1>2 DEF BP!Classify
<1>5. S \subseteq clean /\ clean \subseteq Ticket
  BY <1>1, <1>2 DEF BP!Picked
<1>6. \A i \in Ticket : listed[i] \in BP!TicketType /\ listed[i].text \in 0 .. MaxTicketMoves
  BY <1>3 DEF BP!TicketType
<1>7. review' \in {NULL} \cup [pins : [Ticket -> 0 .. MaxTicketMoves \cup {NULL}], accepted : SUBSET Ticket]
  <2>1. [i \in Ticket |-> IF i \in S THEN listed[i].text ELSE NULL] \in [Ticket -> 0 .. MaxTicketMoves \cup {NULL}]
    BY <1>6
  <2>2. \A A \in SUBSET S : A \in SUBSET Ticket
    BY <1>5
  <2> QED BY <1>3, <1>4, <2>1, <2>2 DEF BP!PromotionTypeOK
<1>8. \A i \in Ticket : rejection'[i] = NULL \/ rejection'[i].text \in 0 .. MaxTicketMoves
  <2>1. ASSUME NEW i \in Ticket
        PROVE  rejection'[i] \in {rejection[i], BP!Evidence(listed[i])}
    BY <1>4, <2>1
  <2>2. ASSUME NEW i \in Ticket PROVE BP!Evidence(listed[i]).text \in 0 .. MaxTicketMoves
    BY <1>6 DEF BP!Evidence
  <2> QED BY <1>3, <2>1, <2>2 DEF BP!PromotionTypeOK
<1>9. tpc' \in {"rows", "idle"} /\ selected' \in {S, {}}
  BY <1>3, <1>4
<1>10. BP!PromotionTypeOK'
  BY <1>3, <1>4, <1>5, <1>7, <1>8, <1>9 DEF BP!PromotionTypeOK
<1>11. BP!Taken' = selected'
  BY <1>3, <1>4, <1>5, <1>9 DEF BP!Taken, BP!Working
<1>12. BP!RowsAreOpen'
  BY <1>3, <1>4, <1>5, <1>9 DEF BP!RowsAreOpen, BP!Working
<1>13. BP!TakenIsAllowed'
  <2>1. CASE selected' = {}
    <3>1. fresh' = Ticket /\ promotions' > 0 => \A i \in Ticket : tickets'[i] = listed'[i]
      BY <1>3, <1>4 DEF BP!PromotionInv, BP!TakenIsAllowed
    <3> QED BY <1>11, <2>1, <3>1 DEF BP!TakenIsAllowed
  <2>2. CASE selected' = S /\ rejection' = rejection
    <3>1. \A i \in S : ~BP!StillRejected(i, listed[i])
      BY <1>1, <1>5 DEF BP!Class
    <3>2. \A i \in S : ~BP!StillRejected(i, listed[i])'
      BY <1>4, <2>2, <3>1 DEF BP!StillRejected
    <3>3. fresh = Ticket => \A i \in Ticket : tickets[i] = listed[i]
      <4>1. promotions > 0
        BY <1>3 DEF BP!PromotionTypeOK
      <4> QED BY <1>3, <4>1 DEF BP!PromotionInv, BP!TakenIsAllowed
    <3>4. fresh = Ticket /\ unread = {} /\ (\E i \in S : ~listed[i].high /\ ~listed[i].waits) =>
             BP!Cardinality({i \in Ticket : BP!Claimable(listed[i])})
               + BP!Cardinality({i \in S : ~listed[i].waits}) <= Target
      BY <1>2, <1>3, <1>5, <3>3, PickedFits, CardIsCard
    <3>5. BP!Taken' = S
      BY <1>11, <2>2
    <3>6. /\ fresh' = fresh /\ promotions' = promotions /\ listed' = listed /\ tickets' = tickets
          /\ unread' = unread
      BY <1>4
    <3> QED BY <3>2, <3>3, <3>4, <3>5, <3>6 DEF BP!TakenIsAllowed
  <2>3. selected' = {} \/ (selected' = S /\ rejection' = rejection)
    BY <1>3, <1>4
  <2> QED BY <2>1, <2>2, <2>3
<1>14. BP!PromotedIsClean' /\ BP!StatusIsKept'
  <2>1. doing \in Ticket \cup {NULL}
    BY <1>3 DEF BP!PromotionTypeOK
  <2> QED BY <1>3, <1>4, <2>1 DEF BP!PromotedIsClean, BP!StatusIsKept, BP!PromotionInv
<1> QED BY <1>10, <1>12, <1>13, <1>14 DEF BP!PromotionInv

LEMMA PromotionGoes ==
  ASSUME BP!PromotionInv, BP!PromotionNext \/ UNCHANGED promoteVars
  PROVE  BP!PromotionInv'
<1>1. CASE BP!PromotionNext
  BY <1>1, ListKeeps, ClassifyKeeps, NextRowKeeps, AdmitKeeps, RelabelKeeps, LookKeeps, CleanKeeps, VerifyKeeps,
     MovesKeep DEF BP!PromotionNext
<1>2. CASE UNCHANGED promoteVars
  <2>1. /\ UNCHANGED <<tickets, listed, selected, unread, tpc, doing, admitted, looked, outcome, review, rejection, fresh,
                       sinceLook, ticketMoves, promotions>>
    BY <1>2 DEF promoteVars
  <2>2. BP!PromotionTypeOK'
    BY <2>1 DEF BP!PromotionInv, BP!PromotionTypeOK
  <2>3. BP!Taken' = BP!Taken
    BY <2>1 DEF BP!Taken
  <2>4. BP!RowsAreOpen'
    BY <2>1, <2>3 DEF BP!PromotionInv, BP!RowsAreOpen
  <2>5. BP!TakenIsAllowed'
    BY <2>1, <2>3, TakenStays
  <2>6. BP!PromotedIsClean' /\ BP!StatusIsKept'
    BY <2>1 DEF BP!PromotionInv, BP!PromotedIsClean, BP!Verified, BP!StatusIsKept
  <2> QED BY <2>2, <2>4, <2>5, <2>6 DEF BP!PromotionInv
<1> QED BY <1>1, <1>2

(* What is promoted is clean, fills the floor only, and was not rejected.   *)
LEMMA PromotionsAreClean ==
  ASSUME BP!PromotionInv PROVE BP!PromotedIsClean /\ BP!FillsTheFloorOnly /\ BP!RejectedStaysOut /\ BP!StatusIsKept
<1> USE PromotionAssumption
<1>1. BP!PromotionTypeOK /\ BP!RowsAreOpen /\ BP!TakenIsAllowed /\ BP!PromotedIsClean /\ BP!StatusIsKept
  BY DEF BP!PromotionInv
<1>2. \A i \in Ticket : outcome[i] = "promoted" => i \in BP!Taken /\ promotions > 0
  <2>1. \A i \in Ticket : outcome[i] = "promoted" => i \in BP!Taken
    BY DEF BP!Taken
  <2> QED BY <1>1, <2>1 DEF BP!PromotionTypeOK, BP!RowsAreOpen
<1>3. BP!RejectedStaysOut
  BY <1>1, <1>2 DEF BP!RejectedStaysOut, BP!TakenIsAllowed, BP!StillRejected
<1>4. ASSUME fresh = Ticket, unread = {}, NEW i \in Ticket, outcome[i] = "promoted", ~tickets[i].high, ~tickets[i].waits
      PROVE  BP!PoolCount(tickets, {}) <= Target
  <2> DEFINE open == {j \in Ticket : BP!Claimable(listed[j])}
             took == {j \in BP!Taken : ~listed[j].waits}
             now == {j \in Ticket : BP!Claimable(tickets[j])}
  <2>1. /\ \A j \in Ticket :
              /\ j \notin BP!Taken => tickets[j] = listed[j]
              /\ tickets[j].waits = listed[j].waits /\ tickets[j].high = listed[j].high
        /\ i \in BP!Taken /\ promotions > 0
    BY <1>1, <1>2, <1>4 DEF BP!TakenIsAllowed
  <2>2. Cardinality(open) + Cardinality(took) <= Target
    BY <1>1, <1>4, <2>1, CardIsCard DEF BP!TakenIsAllowed
  <2>3. now \subseteq open \cup took
    <3> SUFFICES ASSUME NEW j \in Ticket, BP!Claimable(tickets[j]) PROVE j \in open \cup took
      OBVIOUS
    <3>1. CASE j \notin BP!Taken
      BY <2>1, <3>1
    <3>2. CASE j \in BP!Taken
      <4>1. ~tickets[j].waits
        BY DEF BP!Claimable
      <4>2. ~listed[j].waits
        BY <2>1, <4>1
      <4> QED BY <3>2, <4>2
    <3> QED BY <3>1, <3>2
  <2>4. BP!PoolCount(tickets, {}) = Cardinality(now)
    <3>1. ASSUME NEW j \in Ticket PROVE [tickets[j] EXCEPT !.pr = tickets[j].pr] = tickets[j]
      <4>1. PICK t \in BP!TicketType : t = tickets[j]
        BY <1>1 DEF BP!PromotionTypeOK
      <4>2. [t EXCEPT !.pr = t.pr] = t
        BY ONLY t \in BP!TicketType DEF BP!TicketType
      <4> QED BY <4>1, <4>2
    <3>2. {j \in Ticket \ {} : BP!Claimable([tickets[j] EXCEPT !.pr = tickets[j].pr])} = now
      BY <3>1
    <3> QED BY <3>2, CardIsCard DEF BP!PoolCount
  <2>5. open \subseteq Ticket /\ took \subseteq Ticket
    BY DEF BP!Taken
  <2> HIDE DEF open, took, now
  <2>6. IsFiniteSet(open) /\ IsFiniteSet(took) /\ IsFiniteSet(open \cap took)
    BY <2>5, FS_Subset
  <2>7. /\ IsFiniteSet(open \cup took)
        /\ Cardinality(open \cup took) = Cardinality(open) + Cardinality(took) - Cardinality(open \cap took)
    BY <2>6, FS_Union
  <2>8. Cardinality(now) <= Cardinality(open \cup took) /\ IsFiniteSet(now)
    BY <2>3, <2>7, FS_Subset
  <2>9. /\ Cardinality(open) \in Nat /\ Cardinality(took) \in Nat /\ Cardinality(open \cap took) \in Nat
        /\ Cardinality(now) \in Nat
    BY <2>6, <2>8, FS_CardinalityType
  <2> QED BY <2>2, <2>4, <2>7, <2>8, <2>9
<1>5. BP!FillsTheFloorOnly
  BY <1>4 DEF BP!FillsTheFloorOnly
<1> QED BY <1>1, <1>3, <1>5

-----------------------------------------------------------------------------
(* The repair of the ready pool (TodoRepair).                               *)

LEMMA TodoStarts == TD!TodoRepairInit => TD!TodoRepairInv
<1> SUFFICES ASSUME TD!TodoRepairInit PROVE TD!TodoRepairInv
  OBVIOUS
<1>1. /\ dpc = "dry" /\ left = {} /\ card = NULL /\ looked2 = NULL /\ swept = FALSE /\ settled = Card
      /\ cardMoves = 0 /\ \A f \in {proposals, cardRead, results} : f = [c \in Card |-> NULL]
  BY DEF TD!TodoRepairInit
<1>2. cards \in [Card -> TD!CardType]
  <2>1. PICK S : S = [todo : {TRUE}, missing : BOOLEAN, prio : BOOLEAN, text : {0}, patched : {FALSE}, owned : {FALSE}]
    OBVIOUS
  <2>2. S \subseteq TD!CardType
    <3>1. {0} \subseteq TD!Version
      BY CardAssumption DEF TD!Version
    <3>2. ASSUME NEW r \in S PROVE r \in TD!CardType
      BY <2>1, <3>1 DEF TD!CardType
    <3> QED BY <3>2
  <2>3. cards \in [Card -> S]
    BY <2>1 DEF TD!TodoRepairInit
  <2> QED BY <2>2, <2>3
<1>3. 0 \in 0 .. MaxCardMoves
  BY CardAssumption
<1>4. /\ proposals \in [Card -> TD!Version \cup {NULL}] /\ cardRead \in [Card -> TD!CardType \cup {NULL}]
      /\ results \in [Card -> TD!Results]
  BY <1>1 DEF TD!Results
<1>5. TD!TodoRepairTypeOK /\ TD!RowIsRead
  BY <1>1, <1>2, <1>3, <1>4 DEF TD!TodoRepairTypeOK, TD!RowIsRead, TD!RowAtWork
<1>6. TD!ResultsAreDue /\ TD!ListedHolds /\ TD!RepairedIsMember
  BY <1>1, CardAssumption DEF TD!ResultsAreDue, TD!ListedHolds, TD!RepairedIsMember, TD!RowAtWork, TD!OkResults
<1> QED BY <1>5, <1>6 DEF TD!TodoRepairInv

(* What the row at work was read as, and the text that an edit leaves.      *)
LEMMA TodoReads ==
  ASSUME TD!TodoRepairInv, TD!TodoRepairNext \/ UNCHANGED todoVars
  PROVE  TD!TodoRepairTypeOK' /\ TD!RowIsRead' /\ TD!ProposedTextKeptStep
<1> USE CardAssumption DEF TD!RowAtWork
<1>1. /\ cards \in [Card -> TD!CardType] /\ proposals \in [Card -> TD!Version \cup {NULL}]
      /\ cardRead \in [Card -> TD!CardType \cup {NULL}] /\ left \subseteq Card
      /\ card \in Card \cup {NULL} /\ looked2 \in TD!CardType \cup {NULL}
      /\ results \in [Card -> TD!Results] /\ swept \in BOOLEAN /\ settled \subseteq Card
      /\ cardMoves \in 0 .. MaxCardMoves
      /\ dpc \in {"dry", "agent", "list", "rows", "fresh", "owned", "body", "labels", "verify", "end", "done"}
      /\ dpc # "dry" => cardRead \in [Card -> TD!CardType]
      /\ dpc \in TD!RowAtWork => card \in Card /\ cardRead[card].text = proposals[card]
      /\ dpc \in {"owned", "body"} => looked2 \in TD!CardType /\ looked2.text = cardRead[card].text
  BY DEF TD!TodoRepairInv, TD!RowIsRead, TD!TodoRepairTypeOK
<1>r. \A c \in Card, r \in TD!Results : [results EXCEPT ![c] = r] \in [Card -> TD!Results]
  BY <1>1
<1>2. CASE UNCHANGED todoVars
  BY <1>1, <1>2 DEF todoVars, TD!RowIsRead, TD!TodoRepairTypeOK, TD!ProposedTextKeptStep
<1>3. CASE TD!DryRun
  BY <1>1, <1>3 DEF TD!DryRun, TD!RowIsRead, TD!TodoRepairTypeOK, TD!ProposedTextKeptStep
<1>4. CASE TD!AgentProposes
  <2>1. proposals' \in [Card -> TD!Version \cup {NULL}]
    BY <1>1, <1>4 DEF TD!AgentProposes, TD!CardType
  <2> QED BY <1>1, <1>4, <2>1 DEF TD!AgentProposes, TD!RowIsRead, TD!TodoRepairTypeOK, TD!ProposedTextKeptStep
<1>5. CASE TD!ApplyList
  BY <1>1, <1>5 DEF TD!ApplyList, TD!RowIsRead, TD!TodoRepairTypeOK, TD!ProposedTextKeptStep
<1>6. CASE TD!NextCard
  <2>1. /\ UNCHANGED <<cards, proposals, cardRead, looked2, swept, cardMoves>> /\ dpc = "rows"
        /\ left' \subseteq Card /\ card' \in Card \cup {NULL} /\ dpc' \in {"rows", "end", "fresh"}
        /\ results' \in [Card -> TD!Results] /\ settled' \subseteq Card
    BY <1>1, <1>6, <1>r DEF TD!NextCard, TD!Result, TD!NoResult, TD!Results
  <2>2. dpc' = "fresh" => card' \in Card /\ cardRead[card'].text = proposals[card']
    BY <1>1, <1>6 DEF TD!NextCard, TD!Result, TD!NoResult
  <2> QED BY <1>1, <2>1, <2>2 DEF TD!RowIsRead, TD!TodoRepairTypeOK, TD!ProposedTextKeptStep
<1>7. CASE TD!FreshLook
  BY <1>1, <1>7, <1>r DEF TD!FreshLook, TD!Result, TD!NoResult, TD!Results, TD!RowIsRead, TD!TodoRepairTypeOK,
     TD!ProposedTextKeptStep
<1>8. CASE TD!OwnedLook
  BY <1>1, <1>8, <1>r DEF TD!OwnedLook, TD!Result, TD!NoResult, TD!Results, TD!RowIsRead, TD!TodoRepairTypeOK,
     TD!ProposedTextKeptStep
<1>9. CASE TD!EditBody
  <2>1. cards' \in [Card -> TD!CardType]
    BY <1>1, <1>9 DEF TD!EditBody, TD!CardType
  <2>2. TD!ProposedTextKeptStep
    BY <1>1, <1>9 DEF TD!EditBody, TD!CardType, TD!ProposedTextKeptStep
  <2> QED BY <1>1, <1>9, <1>r, <2>1, <2>2 DEF TD!EditBody, TD!Result, TD!NoResult, TD!Results, TD!RowIsRead,
             TD!TodoRepairTypeOK
<1>10. CASE TD!FixLabels
  <2>1. cards' \in [Card -> TD!CardType] /\ \A c \in Card : cards'[c].patched = cards[c].patched
    <3>1. UNCHANGED cards \/ cards' = [cards EXCEPT ![card].prio = TRUE]
      BY <1>10 DEF TD!FixLabels
    <3>2. PICK t : t = [cards[card] EXCEPT !.prio = TRUE]
      OBVIOUS
    <3>3. card \in Card
      BY <1>1, <1>10 DEF TD!FixLabels
    <3>4. t \in TD!CardType /\ t.patched = cards[card].patched
      BY <1>1, <3>2, <3>3 DEF TD!CardType
    <3> QED BY <1>1, <3>1, <3>2, <3>3, <3>4
  <2> QED BY <1>1, <1>10, <1>r, <2>1 DEF TD!FixLabels, TD!Result, TD!NoResult, TD!Results, TD!RowIsRead,
             TD!TodoRepairTypeOK, TD!ProposedTextKeptStep
<1>11. CASE TD!VerifyRepair
  BY <1>1, <1>11, <1>r DEF TD!VerifyRepair, TD!Result, TD!Results, TD!RowIsRead, TD!TodoRepairTypeOK,
     TD!ProposedTextKeptStep
<1>12. CASE TD!Finish
  <2>1. swept' \in BOOLEAN
    BY <1>12 DEF TD!Finish
  <2> QED BY <1>1, <1>12, <2>1 DEF TD!Finish, TD!RowIsRead, TD!TodoRepairTypeOK, TD!ProposedTextKeptStep
<1>13. ASSUME NEW c \in Card, TD!CardMoves(c) PROVE TD!TodoRepairTypeOK' /\ TD!RowIsRead' /\ TD!ProposedTextKeptStep
  <2>1. cards' \in [Card -> TD!CardType] /\ \A d \in Card : cards'[d].patched => cards[d].patched
    <3>1. PICK t \in TD!Changes(cards[c]) : cards' = [cards EXCEPT ![c] = t]
      BY <1>13 DEF TD!CardMoves
    <3>2. PICK u \in TD!CardType, n \in TD!Version : u = cards[c] /\ n = cardMoves'
      BY <1>1, <1>13 DEF TD!CardMoves, TD!Version
    <3>3. \/ \E gone \in BOOLEAN : t = [u EXCEPT !.text = n, !.patched = FALSE, !.missing = gone]
          \/ t = [u EXCEPT !.todo = ~@] \/ t = [u EXCEPT !.prio = ~@] \/ t = [u EXCEPT !.owned = ~@]
      BY ONLY <3>2, t \in TD!Changes(cards[c]) DEF TD!Changes
    <3>4. t \in TD!CardType /\ (t.patched => u.patched)
      BY ONLY <3>3, u \in TD!CardType, n \in TD!Version DEF TD!CardType
    <3> QED BY <1>1, <3>1, <3>2, <3>4
  <2>2. /\ UNCHANGED <<proposals, cardRead, left, card, dpc, looked2, results, swept>> /\ settled' = settled \ {c}
        /\ cardMoves' \in 0 .. MaxCardMoves
    BY <1>1, <1>13 DEF TD!CardMoves
  <2> QED BY <1>1, <2>1, <2>2 DEF TD!RowIsRead, TD!TodoRepairTypeOK, TD!ProposedTextKeptStep
<1> QED BY <1>2, <1>3, <1>4, <1>5, <1>6, <1>7, <1>8, <1>9, <1>10, <1>11, <1>12, <1>13 DEF TD!TodoRepairNext

(* What is written of a row is so, unless somebody touched it.              *)
LEMMA TodoResults ==
  ASSUME TD!TodoRepairInv, TD!TodoRepairNext \/ UNCHANGED todoVars
  PROVE  TD!ResultsAreDue' /\ TD!ListedHolds' /\ TD!RepairedIsMember'
<1> USE CardAssumption DEF TD!RowAtWork, TD!OkResults
<1>1. /\ cards \in [Card -> TD!CardType] /\ left \subseteq Card /\ settled \subseteq Card
      /\ results \in [Card -> TD!Results]
      /\ dpc \in {"dry", "agent", "list", "rows", "fresh", "owned", "body", "labels", "verify", "end", "done"}
      /\ dpc \in TD!RowAtWork => card \in Card
      /\ TD!ResultsAreDue /\ TD!ListedHolds /\ TD!RepairedIsMember
  BY DEF TD!TodoRepairInv, TD!TodoRepairTypeOK, TD!RowIsRead
<1>2. CASE UNCHANGED todoVars
  BY <1>1, <1>2 DEF todoVars, TD!ResultsAreDue, TD!ListedHolds, TD!RepairedIsMember, TD!Member
<1>3. CASE TD!DryRun \/ TD!AgentProposes \/ TD!ApplyList
  <2>1. /\ UNCHANGED <<cards, results, swept>> /\ dpc \in {"dry", "agent", "list"}
        /\ dpc' \in {"agent", "list"} \/ (dpc' = "rows" /\ cardRead' = cards)
    BY <1>3 DEF TD!DryRun, TD!AgentProposes, TD!ApplyList
  <2>2. left' \subseteq Card /\ settled' \subseteq Card
    BY <1>1, <1>3 DEF TD!DryRun, TD!AgentProposes, TD!ApplyList
  <2>3. \A c \in Card : results'[c] = NULL
    BY <1>1, <2>1 DEF TD!ResultsAreDue
  <2>4. ~swept'
    BY <1>1, <2>1 DEF TD!ResultsAreDue
  <2> QED BY <1>1, <2>1, <2>2, <2>3, <2>4 DEF TD!ResultsAreDue, TD!ListedHolds, TD!RepairedIsMember
<1>4. CASE TD!NextCard
  <2>1. /\ UNCHANGED <<cards, cardRead, swept>> /\ dpc = "rows" /\ settled' = settled /\ ~swept
    BY <1>1, <1>4 DEF TD!NextCard, TD!Result, TD!NoResult, TD!ResultsAreDue
  <2>2. CASE left = {}
    <3>1. results' = results /\ dpc' = "end"
      BY <1>4, <2>2 DEF TD!NextCard, TD!NoResult
    <3> QED BY <1>1, <2>1, <3>1 DEF TD!ResultsAreDue, TD!ListedHolds, TD!RepairedIsMember, TD!Member
  <2>3. CASE left # {}
    <3>1. PICK c \in left :
             /\ left' = left \ {c} /\ card' = c
             /\ \/ results' = results /\ dpc' = "fresh"
                \/ /\ dpc' = "rows"
                   /\ \/ results' = [results EXCEPT ![c] = "superseded"] /\ ~cardRead[c].todo
                      \/ results' = [results EXCEPT ![c] = "already_valid"] /\ ~cardRead[c].missing
                      \/ \E r \in {"missing_proposal", "refused"} : results' = [results EXCEPT ![c] = r]
      BY <1>4, <2>1, <2>3 DEF TD!NextCard, TD!Result, TD!NoResult
    <3>2. /\ \A d \in left : results[d] = NULL
          /\ \A d \in settled : d \in left => cards[d] = cardRead[d]
      BY <1>1, <2>1 DEF TD!ResultsAreDue, TD!ListedHolds
    <3>3. TD!ResultsAreDue'
      BY <1>1, <2>1, <3>1, <3>2 DEF TD!ResultsAreDue
    <3>4. TD!ListedHolds'
      BY <1>1, <2>1, <3>1, <3>2 DEF TD!ListedHolds
    <3>5. TD!RepairedIsMember'
      BY <1>1, <2>1, <3>1, <3>2 DEF TD!RepairedIsMember, TD!Member
    <3> QED BY <3>3, <3>4, <3>5
  <2> QED BY <2>2, <2>3
<1>5. CASE TD!FreshLook \/ TD!OwnedLook \/ TD!EditBody \/ TD!FixLabels \/ TD!VerifyRepair
  <2>1. /\ dpc \in TD!RowAtWork /\ UNCHANGED <<cardRead, left, card, swept>> /\ dpc' \in TD!RowAtWork \cup {"rows"}
        /\ \/ dpc' \in TD!RowAtWork /\ results' = results /\ settled' = settled
           \/ /\ dpc' = "rows" /\ settled' = settled
              /\ \E r \in {"refused", "edit_failed", "not_verified"} : results' = [results EXCEPT ![card] = r]
           \/ /\ dpc' = "rows" /\ settled' = settled \cup {card} /\ results' = [results EXCEPT ![card] = "repaired"]
              /\ TD!Member(cards[card]) /\ cards[card].patched /\ cards' = cards
    BY <1>5 DEF TD!FreshLook, TD!OwnedLook, TD!EditBody, TD!FixLabels, TD!VerifyRepair, TD!Result, TD!NoResult
  <2>2. \A c \in Card \ {card} : cards'[c] = cards[c]
    BY <1>1, <1>5, <2>1 DEF TD!FreshLook, TD!OwnedLook, TD!EditBody, TD!FixLabels, TD!VerifyRepair
  <2>3. card \in Card /\ results[card] = NULL /\ card \notin left /\ ~swept /\ \A c \in left : results[c] = NULL
    BY <1>1, <2>1 DEF TD!ResultsAreDue
  <2>4. /\ \A c \in Card \ {card} : results'[c] = results[c]
        /\ results'[card] \notin {"superseded", "already_valid"}
        /\ results'[card] = "repaired" => TD!Member(cards'[card]) /\ cards'[card].patched
        /\ dpc' \in TD!RowAtWork => results'[card] = NULL
    BY <1>1, <2>1, <2>3
  <2>5. TD!ResultsAreDue'
    BY <1>1, <2>1, <2>3, <2>4 DEF TD!ResultsAreDue
  <2>6. TD!ListedHolds'
    BY <1>1, <2>1, <2>2, <2>3, <2>4 DEF TD!ListedHolds
  <2>7. TD!RepairedIsMember'
    BY <1>1, <2>1, <2>2, <2>3, <2>4 DEF TD!RepairedIsMember, TD!Member
  <2> QED BY <2>5, <2>6, <2>7
<1>6. CASE TD!Finish
  BY <1>1, <1>6 DEF TD!Finish, TD!ResultsAreDue, TD!ListedHolds, TD!RepairedIsMember, TD!Member
<1>7. ASSUME NEW c \in Card, TD!CardMoves(c) PROVE TD!ResultsAreDue' /\ TD!ListedHolds' /\ TD!RepairedIsMember'
  <2>1. /\ UNCHANGED <<cardRead, left, card, dpc, results, swept>> /\ settled' = settled \ {c}
        /\ \A d \in Card \ {c} : cards'[d] = cards[d]
    BY <1>1, <1>7 DEF TD!CardMoves
  <2> QED BY <1>1, <2>1 DEF TD!ResultsAreDue, TD!ListedHolds, TD!RepairedIsMember, TD!Member
<1> QED BY <1>2, <1>3, <1>4, <1>5, <1>6, <1>7 DEF TD!TodoRepairNext

(* Every step, with the text that an edit leaves.                           *)
LEMMA TodoGoes ==
  ASSUME TD!TodoRepairInv, TD!TodoRepairNext \/ UNCHANGED todoVars
  PROVE  TD!TodoRepairInv' /\ TD!ProposedTextKeptStep
BY TodoReads, TodoResults DEF TD!TodoRepairInv

(* What is reported repaired is a member, and a sweep follows full success. *)
LEMMA RepairsAreMembers == ASSUME TD!TodoRepairInv PROVE TD!RepairedIsMember /\ TD!SweepAfterAll
<1>1. /\ TD!RepairedIsMember /\ settled \subseteq Card
      /\ swept => \A c \in Card : results[c] \in TD!OkResults
      /\ \A c \in settled :
            /\ results[c] = "superseded" => ~cards[c].todo
            /\ results[c] = "already_valid" => ~cards[c].missing
  BY DEF TD!TodoRepairInv, TD!TodoRepairTypeOK, TD!ResultsAreDue, TD!ListedHolds
<1> QED BY <1>1 DEF TD!RepairedIsMember, TD!SweepAfterAll, TD!OkResults, TD!Member

-----------------------------------------------------------------------------
(* The report on the issues that wait (DependencyHell).                     *)

LEMMA LenOfPath ==
  ASSUME NEW m \in Nat, NEW p \in [1 .. m -> Node]
  PROVE  p \in Seq(Node) /\ Len(p) = m /\ DOMAIN p = 1 .. m /\ DH!Last(p) = p[m]
BY DEF DH!Last

LEMMA HellStarts == DH!HellInit => DH!HellInv
<1> SUFFICES ASSUME DH!HellInit PROVE DH!HellInv
  OBVIOUS
<1> USE HellAssumption
<1>1. /\ graph \in [Node -> DH!IssueType] /\ edges = [n \in GatedNode |-> {}]
      /\ \A n \in Node : graph[n].state \in {"dead", "done"} => graph[n].refs = {}
      /\ \A n \in GatedNode : graph[n].state \in {"open", "stale"}
      /\ fetched = [n \in Node |-> DH!Unread] /\ frontier = {} /\ level = 0 /\ hpc = "pool"
      /\ reported = [n \in GatedNode |-> {}] /\ hotspots = {} /\ still = TRUE /\ graphMoves = 0
      /\ poolRead = TRUE
  BY DEF DH!HellInit
<1>2. DH!HellTypeOK
  BY <1>1 DEF DH!HellTypeOK
<1>3. DH!ChainsAreRead /\ DH!ReportIsOfTheReads
  BY <1>1 DEF DH!ChainsAreRead, DH!ReportIsOfTheReads
<1>4. DH!ReadsAreTheGraph
  BY <1>1 DEF DH!ReadsAreTheGraph
<1> QED BY <1>2, <1>3, <1>4 DEF DH!HellInv

(* The types of the reads, and that what waits for an issue are issues.     *)
LEMMA HellTypes ==
  ASSUME DH!HellTypeOK
  PROVE  /\ graph \in [Node -> DH!IssueType] /\ edges \in [GatedNode -> SUBSET Node]
         /\ fetched \in [Node -> DH!IssueType \cup {DH!Unread, DH!Failed}]
         /\ frontier \subseteq Node /\ level \in 0 .. MaxDepth + 1
         /\ \A n \in Node : DH!Waits(n) \subseteq Node /\ DH!OpenEdges(n) \subseteq DH!Waits(n)
         /\ \A n \in Node : DH!Blocks(n) \subseteq Node
         /\ DH!Unread \notin DH!IssueType /\ DH!Failed # DH!Unread
<1> USE HellAssumption
<1>1. /\ graph \in [Node -> DH!IssueType] /\ edges \in [GatedNode -> SUBSET Node]
      /\ fetched \in [Node -> DH!IssueType \cup {DH!Unread, DH!Failed}]
      /\ frontier \subseteq Node /\ level \in 0 .. MaxDepth + 1
  BY DEF DH!HellTypeOK
<1>2. \A n \in Node : DH!DeclaredDeps(n) \subseteq Node
  BY <1>1 DEF DH!DeclaredDeps, DH!Known, DH!IssueType
<1>3. \A n \in Node : DH!Waits(n) \subseteq Node /\ DH!OpenEdges(n) \subseteq DH!Waits(n)
  BY <1>1, <1>2 DEF DH!Waits, DH!OpenEdges
<1>4. \A n \in Node : DH!Blocks(n) \subseteq Node
  BY <1>1 DEF DH!Blocks, DH!IssueType
<1>5. DH!Unread \notin DH!IssueType /\ DH!Failed # DH!Unread
  BY DEF DH!Unread, DH!Failed, DH!IssueType
<1> QED BY <1>1, <1>3, <1>4, <1>5

(* The open blockers of the gated issues are read with the pool.            *)
LEMMA ReadPoolKeeps == DH!HellInv /\ DH!ReadPool => DH!HellInv'
<1> SUFFICES ASSUME DH!HellInv, DH!ReadPool PROVE DH!HellInv'
  OBVIOUS
<1> USE HellAssumption
<1>1. DH!HellTypeOK /\ DH!ChainsAreRead /\ DH!ReadsAreTheGraph
  BY DEF DH!HellInv
<1>2. /\ hpc = "pool" /\ hpc' = "fetch"
      /\ edges' \in [GatedNode -> SUBSET Node] /\ poolRead' \in BOOLEAN
      /\ (poolRead' <=> edges' = [n \in GatedNode |-> {d \in graph[n].refs : graph[d].state # "done"}])
      /\ frontier' = GatedNode \cup UNION {edges'[n] : n \in GatedNode}
      /\ graph' = graph /\ fetched' = fetched /\ level' = level /\ reported' = reported
      /\ hotspots' = hotspots /\ still' = still /\ graphMoves' = graphMoves
  BY DEF DH!ReadPool
<1>3. /\ graph \in [Node -> DH!IssueType] /\ level = 0 /\ \A n \in Node : fetched[n] = DH!Unread
  BY <1>1, <1>2, HellTypes DEF DH!ChainsAreRead
<1>4. edges' \in [GatedNode -> SUBSET Node] /\ frontier' \subseteq Node
  BY <1>2, <1>3 DEF DH!IssueType
<1>5. DH!HellTypeOK'
  BY <1>1, <1>2, <1>4 DEF DH!HellTypeOK
<1>6. DH!ChainsAreRead'
  <2>1. \A n \in GatedNode : n \in frontier'
    BY <1>2
  <2>2. 1 .. level' = {}
    BY <1>2, <1>3
  <2>3. \A n \in Node : fetched'[n] = DH!Unread
    BY <1>2, <1>3
  <2> QED BY <1>2, <2>1, <2>2, <2>3 DEF DH!ChainsAreRead
<1>7. DH!ReadsAreTheGraph'
  <2>1. ASSUME still, poolRead', NEW n \in GatedNode PROVE edges'[n] = DH!Blocks(n)
    <3>1. graph[n].state \in {"open", "stale"}
      BY <1>1, <2>1 DEF DH!ReadsAreTheGraph
    <3>2. edges'[n] = {d \in graph[n].refs : graph[d].state # "done"}
      BY <1>2, <2>1
    <3> QED BY <3>1, <3>2 DEF DH!Blocks
  <2>2. \A n \in GatedNode : DH!Blocks(n)' = DH!Blocks(n)
    BY <1>2 DEF DH!Blocks
  <2> QED BY <1>1, <1>2, <2>1, <2>2 DEF DH!ReadsAreTheGraph
<1>8. DH!ReportIsOfTheReads'
  BY <1>2 DEF DH!ReportIsOfTheReads
<1> QED BY <1>5, <1>6, <1>7, <1>8 DEF DH!HellInv

(* One level: what was next is fetched, and what it waits for is next.      *)
LEMMA FetchLevelKeeps == DH!HellInv /\ DH!FetchLevel => DH!HellInv'
<1> SUFFICES ASSUME DH!HellInv, DH!FetchLevel PROVE DH!HellInv'
  OBVIOUS
<1> USE HellAssumption
<1>1. DH!HellTypeOK /\ DH!ChainsAreRead /\ DH!ReadsAreTheGraph
  BY DEF DH!HellInv
<1>2. /\ graph \in [Node -> DH!IssueType] /\ edges \in [GatedNode -> SUBSET Node]
      /\ fetched \in [Node -> DH!IssueType \cup {DH!Unread, DH!Failed}]
      /\ frontier \subseteq Node /\ level \in 0 .. MaxDepth + 1
      /\ \A n \in Node : DH!Waits(n) \subseteq Node
      /\ DH!Unread \notin DH!IssueType /\ DH!Failed # DH!Unread
  BY <1>1, HellTypes
<1> DEFINE todo == {n \in frontier : fetched[n] = DH!Unread}
<1>3. /\ hpc = "fetch" /\ hpc' = hpc /\ level <= MaxDepth /\ level' = level + 1 /\ graph' = graph
      /\ edges' = edges /\ reported' = reported /\ hotspots' = hotspots /\ still' = still
      /\ graphMoves' = graphMoves /\ poolRead' = poolRead /\ DH!Details(todo)
      /\ frontier' = {d \in UNION {IF n \in GatedNode THEN edges[n] ELSE DH!DeclaredDeps(n)' :
                                   n \in todo} : fetched'[d] = DH!Unread}
  BY DEF DH!FetchLevel
<1>4. PICK missed \in {{}, todo} :
        fetched' = [n \in Node |-> IF n \notin todo THEN fetched[n]
                                   ELSE IF n \in missed THEN DH!Failed ELSE graph[n]]
  BY <1>3 DEF DH!Details
<1>5. /\ fetched' \in [Node -> DH!IssueType \cup {DH!Unread, DH!Failed}]
      /\ \A n \in Node : /\ n \notin todo => fetched'[n] = fetched[n]
                         /\ n \in todo => fetched'[n] \in {DH!Failed, graph[n]} /\ fetched'[n] # DH!Unread
  BY <1>2, <1>4
<1>6. \A n \in Node : n \notin todo => DH!Waits(n)' = DH!Waits(n)
  BY <1>3, <1>5 DEF DH!Waits, DH!DeclaredDeps, DH!Known
<1>7. /\ \A n \in todo : DH!Waits(n)' = IF n \in GatedNode THEN edges[n] ELSE DH!DeclaredDeps(n)'
      /\ \A n \in Node : DH!Waits(n)' \subseteq Node
  <2>1. \A n \in Node : DH!Waits(n)' = IF n \in GatedNode THEN edges[n] ELSE DH!DeclaredDeps(n)'
    BY <1>3 DEF DH!Waits
  <2>2. \A n \in Node : DH!DeclaredDeps(n)' \subseteq Node
    BY <1>5 DEF DH!DeclaredDeps, DH!Known, DH!IssueType
  <2> QED BY <1>2, <2>1, <2>2
<1>8. /\ frontier' \subseteq Node
      /\ \A n \in todo : \A d \in DH!Waits(n)' : d \in frontier' \/ fetched'[d] # DH!Unread
  BY <1>2, <1>3, <1>7
<1>9. level' \in 0 .. MaxDepth + 1
  BY <1>2, <1>3
<1>10. DH!HellTypeOK'
  BY <1>1, <1>3, <1>5, <1>8, <1>9 DEF DH!HellTypeOK
<1>11. \A n \in Node : n \in frontier \/ fetched[n] # DH!Unread => fetched'[n] # DH!Unread
  BY <1>5
<1>12. /\ \A n \in Node : n \in GatedNode => n \in frontier \/ fetched[n] # DH!Unread
       /\ \A n \in Node : fetched[n] # DH!Unread =>
             \A d \in DH!Waits(n) : d \in frontier \/ fetched[d] # DH!Unread
       /\ \A m \in 1 .. level : \A p \in [1 .. m -> Node] :
             DH!Chain(p) => fetched[DH!Last(p)] # DH!Unread
  BY <1>1, <1>3 DEF DH!ChainsAreRead
<1>13. ASSUME NEW m \in 1 .. level + 1, NEW p \in [1 .. m -> Node], DH!Chain(p)'
       PROVE  fetched'[DH!Last(p)] # DH!Unread
  <2> DEFINE bad == {i \in 1 .. m : i <= level /\ fetched[p[i]] = DH!Unread}
  <2>1. m \in Nat /\ DOMAIN p = 1 .. m /\ DH!Last(p) = p[m] /\ level \in Nat
    BY <1>2, LenOfPath
  <2>2. /\ p[1] \in GatedNode
        /\ \A i \in 1 .. m : i + 1 \in 1 .. m => p[i + 1] \in DH!Waits(p[i])'
    BY <1>13, <2>1 DEF DH!Chain
  <2>3. bad = {}
    <3>1. SUFFICES ASSUME bad # {} PROVE FALSE
      OBVIOUS
    <3>2. PICK i \in bad : \A j \in bad : i <= j
      <4>1. bad \subseteq Nat
        OBVIOUS
      <4> HIDE DEF bad
      <4> QED BY <3>1, <4>1, LeastNumber
    <3>3. /\ i \in 1 .. m /\ i <= level /\ fetched[p[i]] = DH!Unread
          /\ \A j \in 1 .. m : j < i => fetched[p[j]] # DH!Unread
      BY <3>2, <2>1
    <3> DEFINE q == [j \in 1 .. i |-> p[j]]
    <3>4. q \in [1 .. i -> Node] /\ q[i] = p[i] /\ i \in 1 .. level
      BY <3>3, <2>1
    <3>5. \A j \in 1 .. i : j + 1 \in 1 .. i => q[j + 1] \in DH!Waits(q[j])
      <4> SUFFICES ASSUME NEW j \in 1 .. i, j + 1 \in 1 .. i PROVE q[j + 1] \in DH!Waits(q[j])
        OBVIOUS
      <4>1. j \in 1 .. m /\ j + 1 \in 1 .. m /\ j < i /\ q[j] = p[j] /\ q[j + 1] = p[j + 1]
        BY <3>3, <2>1
      <4>2. p[j] \in Node /\ p[j] \notin todo
        BY <3>3, <4>1
      <4> QED BY <1>6, <2>2, <4>1, <4>2
    <3>6. DH!Chain(q)
      <4>1. DOMAIN q = 1 .. i /\ q[1] = p[1]
        BY <3>3, <2>1
      <4> QED BY <2>2, <3>5, <4>1 DEF DH!Chain
    <3>7. DH!Last(q) = q[i]
      <4> HIDE DEF q
      <4> QED BY <3>4, <2>1, <3>3, LenOfPath
    <3>8. fetched[DH!Last(q)] # DH!Unread
      <4> HIDE DEF q
      <4> QED BY <1>12, <3>4, <3>6
    <3> QED BY <3>3, <3>4, <3>7, <3>8
  <2>4. CASE m <= level
    <3>1. fetched[p[m]] # DH!Unread /\ p[m] \in Node
      BY <2>1, <2>3, <2>4
    <3> QED BY <1>11, <2>1, <3>1
  <2>5. CASE m = 1
    BY <1>11, <1>12, <2>1, <2>2, <2>5
  <2>6. CASE m = level + 1 /\ m # 1
    <3>1. m - 1 \in 1 .. m /\ m - 1 <= level /\ (m - 1) + 1 = m /\ p[m - 1] \in Node /\ p[m] \in Node
      BY <2>1, <2>6
    <3>2. fetched[p[m - 1]] # DH!Unread
      BY <2>3, <3>1
    <3>3. p[m] \in DH!Waits(p[m - 1])'
      BY <2>1, <2>2, <3>1
    <3>4. p[m] \in DH!Waits(p[m - 1])
      BY <1>6, <3>1, <3>2, <3>3
    <3> QED BY <1>11, <1>12, <2>1, <3>1, <3>2, <3>4
  <2> QED BY <2>1, <2>4, <2>5, <2>6
<1>14. DH!ChainsAreRead'
  <2>1. \A n \in Node : n \in GatedNode \/ fetched'[n] # DH!Unread => n \in frontier' \/ fetched'[n] # DH!Unread
    BY <1>11, <1>12
  <2>2. \A n \in Node : fetched'[n] # DH!Unread =>
           \A d \in DH!Waits(n)' : d \in frontier' \/ fetched'[d] # DH!Unread
    <3> SUFFICES ASSUME NEW n \in Node, fetched'[n] # DH!Unread, NEW d \in DH!Waits(n)'
                 PROVE  d \in frontier' \/ fetched'[d] # DH!Unread
      OBVIOUS
    <3>1. CASE n \in todo
      BY <1>8, <3>1
    <3>2. CASE n \notin todo
      <4>1. fetched[n] # DH!Unread /\ d \in DH!Waits(n) /\ d \in Node
        BY <1>5, <1>6, <1>7, <3>2
      <4> QED BY <1>11, <1>12, <4>1
    <3> QED BY <3>1, <3>2
  <2>3. \A m \in 1 .. level' : \A p \in [1 .. m -> Node] :
           DH!Chain(p)' => fetched'[DH!Last(p)] # DH!Unread
    BY <1>3, <1>13
  <2> QED BY <1>3, <2>1, <2>2, <2>3 DEF DH!ChainsAreRead, DH!Last
<1>15. DH!ReadsAreTheGraph'
  <2>1. \A n \in GatedNode : DH!Blocks(n)' = DH!Blocks(n)
    BY <1>3 DEF DH!Blocks
  <2> QED BY <1>1, <1>3, <1>5, <2>1 DEF DH!ReadsAreTheGraph
<1>16. DH!ReportIsOfTheReads'
  BY <1>3 DEF DH!ReportIsOfTheReads
<1> QED BY <1>10, <1>14, <1>15, <1>16 DEF DH!HellInv

(* The report is of the reads alone.                                        *)
LEMMA AssessStays ==
  ASSUME UNCHANGED <<edges, fetched>>
  PROVE  /\ \A n : DH!Assess(n)' = DH!Assess(n)
         /\ \A n : DH!Waits(n)' = DH!Waits(n)
         /\ \A p : DH!Chain(p)' <=> DH!Chain(p)
<1>1. edges' = edges /\ fetched' = fetched
  OBVIOUS
<1>2. /\ \A n : DH!OpenEdges(n)' = DH!OpenEdges(n) /\ DH!RootFlags(n)' = DH!RootFlags(n)
      /\ \A n : DH!Waits(n)' = DH!Waits(n)
  BY <1>1 DEF DH!OpenEdges, DH!DeclaredDeps, DH!NodeSatisfied, DH!Known, DH!RootFlags, DH!Waits
<1>3. \A n : DH!PathsFrom(n)' = DH!PathsFrom(n)
  <2>1. \A p : DH!Follows(p)' <=> DH!Follows(p)
    BY <1>2 DEF DH!Follows
  <2> QED BY <2>1 DEF DH!PathsFrom
<1>4. \A n, p : DH!Ends(n, p)' <=> DH!Ends(n, p)
  BY <1>2 DEF DH!Ends
<1>5. \A n : DH!Walk(n)' = DH!Walk(n)
  <2> SUFFICES ASSUME NEW n PROVE DH!Walk(n)' = DH!Walk(n)
    OBVIOUS
  <2>1. PICK P, E : P = DH!PathsFrom(n) /\ E = {p \in P : DH!Ends(n, p)}
    OBVIOUS
  <2>2. P = DH!PathsFrom(n)' /\ E = {p \in P : DH!Ends(n, p)'}
    BY <1>3, <1>4, <2>1
  <2>3. /\ (\E p \in P \ E : DH!OpenEdges(DH!Last(p)) \cap DH!On(p) # {}) <=>
             (\E p \in P \ E : DH!OpenEdges(DH!Last(p))' \cap DH!On(p) # {})
        /\ (\E p \in E : DH!OpenEdges(DH!Last(p)) # {}) <=>
             (\E p \in E : DH!OpenEdges(DH!Last(p))' # {})
    BY <1>2
  <2>4. DH!Walk(n) = [leaves |-> {DH!Last(p) : p \in E}, depths |-> {Len(p) - 1 : p \in E},
                      cycle |-> \E p \in P \ E : DH!OpenEdges(DH!Last(p)) \cap DH!On(p) # {},
                      truncated |-> \E p \in E : DH!OpenEdges(DH!Last(p)) # {}]
    BY <2>1 DEF DH!Walk
  <2>5. DH!Walk(n)' = [leaves |-> {DH!Last(p) : p \in E}, depths |-> {Len(p) - 1 : p \in E},
                      cycle |-> \E p \in P \ E : DH!OpenEdges(DH!Last(p))' \cap DH!On(p) # {},
                      truncated |-> \E p \in E : DH!OpenEdges(DH!Last(p))' # {}]
    BY <2>2 DEF DH!Walk, DH!Last, DH!On
  <2> QED BY <2>3, <2>4, <2>5
<1>6. \A n : DH!Assess(n)' = DH!Assess(n)
  BY <1>2, <1>5 DEF DH!Assess
<1>7. \A p : DH!Chain(p)' <=> DH!Chain(p)
  BY <1>2 DEF DH!Chain
<1> QED BY <1>2, <1>6, <1>7

LEMMA AssessIsReasons ==
  \A n : DH!Assess(n) \subseteq DH!Reasons
<1>1. \A r : DH!RootFlags(r) \subseteq DH!Reasons
  BY DEF DH!RootFlags, DH!Reasons
<1> QED BY <1>1 DEF DH!Assess, DH!Reasons

LEMMA ReportKeeps == DH!HellInv /\ DH!Report => DH!HellInv'
<1> SUFFICES ASSUME DH!HellInv, DH!Report PROVE DH!HellInv'
  OBVIOUS
<1>1. DH!HellTypeOK /\ DH!ChainsAreRead /\ DH!ReadsAreTheGraph
  BY DEF DH!HellInv
<1>2. /\ hpc = "fetch" /\ hpc' = "done"
      /\ level > MaxDepth \/ \A n \in frontier : fetched[n] # DH!Unread
      /\ reported' = [n \in GatedNode |-> DH!Assess(n)] /\ hotspots' \subseteq Node
      /\ graph' = graph /\ edges' = edges /\ fetched' = fetched /\ frontier' = frontier
      /\ level' = level /\ still' = still /\ graphMoves' = graphMoves /\ poolRead' = poolRead
  BY DEF DH!Report, DH!Hotspots
<1>3. /\ \A n : DH!Assess(n)' = DH!Assess(n) /\ DH!Waits(n)' = DH!Waits(n)
      /\ \A p : DH!Chain(p)' <=> DH!Chain(p)
  BY <1>2, AssessStays
<1>4. reported' \in [GatedNode -> SUBSET DH!Reasons]
  BY <1>2, AssessIsReasons
<1>5. DH!HellTypeOK'
  BY <1>1, <1>2, <1>4 DEF DH!HellTypeOK
<1>6. DH!ChainsAreRead'
  BY <1>1, <1>2, <1>3 DEF DH!ChainsAreRead, DH!Last
<1>7. DH!ReadsAreTheGraph'
  BY <1>1, <1>2 DEF DH!ReadsAreTheGraph, DH!Blocks
<1>8. DH!ReportIsOfTheReads'
  BY <1>2, <1>3 DEF DH!ReportIsOfTheReads
<1> QED BY <1>5, <1>6, <1>7, <1>8 DEF DH!HellInv

LEMMA GraphMovesKeep ==
  ASSUME DH!HellInv, NEW n \in Node, DH!GraphMoves(n) PROVE DH!HellInv'
<1> USE HellAssumption
<1>1. DH!HellTypeOK /\ DH!ChainsAreRead
  BY DEF DH!HellInv
<1>2. /\ hpc # "done" /\ graphMoves < MaxGraphMoves /\ graphMoves' = graphMoves + 1 /\ still' = FALSE
      /\ edges' = edges /\ fetched' = fetched /\ frontier' = frontier /\ level' = level /\ hpc' = hpc
      /\ reported' = reported /\ hotspots' = hotspots /\ poolRead' = poolRead
  BY DEF DH!GraphMoves
<1>3. graph' \in [Node -> DH!IssueType] /\ graphMoves' \in 0 .. MaxGraphMoves
  BY <1>1, <1>2 DEF DH!GraphMoves, DH!HellTypeOK, DH!IssueType
<1>4. DH!HellTypeOK'
  BY <1>1, <1>2, <1>3 DEF DH!HellTypeOK
<1>5. DH!ChainsAreRead'
  <2>1. (\A m : DH!Waits(m)' = DH!Waits(m)) /\ \A p : DH!Chain(p)' <=> DH!Chain(p)
    BY <1>2, AssessStays
  <2> QED BY <1>1, <1>2, <2>1 DEF DH!ChainsAreRead, DH!Last
<1>6. DH!ReadsAreTheGraph' /\ DH!ReportIsOfTheReads'
  BY <1>2 DEF DH!ReadsAreTheGraph, DH!ReportIsOfTheReads
<1> QED BY <1>4, <1>5, <1>6 DEF DH!HellInv

LEMMA HellGoes == DH!HellInv /\ (DH!HellNext \/ UNCHANGED hellVars) => DH!HellInv'
<1>1. DH!HellInv /\ DH!HellNext => DH!HellInv'
  BY ReadPoolKeeps, FetchLevelKeeps, ReportKeeps, GraphMovesKeep DEF DH!HellNext
<1>2. ASSUME DH!HellInv, UNCHANGED hellVars PROVE DH!HellInv'
  <2>1. /\ graph' = graph /\ edges' = edges /\ fetched' = fetched /\ frontier' = frontier
        /\ level' = level /\ hpc' = hpc /\ reported' = reported /\ hotspots' = hotspots
        /\ still' = still /\ graphMoves' = graphMoves /\ poolRead' = poolRead
    BY <1>2 DEF hellVars
  <2>2. /\ \A n : DH!Assess(n)' = DH!Assess(n) /\ DH!Waits(n)' = DH!Waits(n)
        /\ \A p : DH!Chain(p)' <=> DH!Chain(p)
    BY <2>1, AssessStays
  <2>3. DH!HellTypeOK' /\ DH!ReadsAreTheGraph'
    BY <1>2, <2>1 DEF DH!HellInv, DH!HellTypeOK, DH!ReadsAreTheGraph, DH!Blocks
  <2>4. DH!ChainsAreRead' /\ DH!ReportIsOfTheReads'
    BY <1>2, <2>1, <2>2 DEF DH!HellInv, DH!ChainsAreRead, DH!ReportIsOfTheReads, DH!Last
  <2> QED BY <2>3, <2>4 DEF DH!HellInv
<1> QED BY <1>1, <1>2

(* What the paths from an issue are.                                        *)
LEMMA PathIs ==
  ASSUME NEW n, NEW p \in DH!PathsFrom(n)
  PROVE  /\ Len(p) \in 1 .. MaxDepth + 1 /\ Len(p) \in Nat /\ p \in [1 .. Len(p) -> Node]
         /\ p[1] = n /\ DH!Last(p) = p[Len(p)] /\ DH!On(p) = {p[i] : i \in 1 .. Len(p)}
         /\ \A i \in 1 .. Len(p) : i + 1 \in 1 .. Len(p) => p[i + 1] \in DH!OpenEdges(p[i])
         /\ \A i, j \in 1 .. Len(p) : p[i] = p[j] => i = j
<1> USE HellAssumption
<1>1. PICK m \in 1 .. MaxDepth + 1 : p \in [1 .. m -> Node]
  BY DEF DH!PathsFrom
<1>2. m \in Nat /\ Len(p) = m /\ DOMAIN p = 1 .. m
  BY <1>1, LenOfPath
<1>3. p[1] = n /\ DH!Follows(p) /\ DH!Simple(p)
  BY DEF DH!PathsFrom
<1> QED BY <1>1, <1>2, <1>3 DEF DH!Last, DH!On, DH!Follows, DH!Simple

LEMMA PathOf ==
  ASSUME NEW n, NEW m \in 1 .. MaxDepth + 1, NEW p \in [1 .. m -> Node], p[1] = n,
         \A i \in 1 .. m : i + 1 \in 1 .. m => p[i + 1] \in DH!OpenEdges(p[i]),
         \A i, j \in 1 .. m : p[i] = p[j] => i = j
  PROVE  p \in DH!PathsFrom(n) /\ Len(p) = m /\ DH!Last(p) = p[m]
<1>1. m \in Nat /\ Len(p) = m /\ DOMAIN p = 1 .. m /\ DH!Last(p) = p[m]
  BY HellAssumption, LenOfPath
<1>2. DH!Follows(p) /\ DH!Simple(p)
  BY <1>1 DEF DH!Follows, DH!Simple
<1> QED BY <1>1, <1>2 DEF DH!PathsFrom

(* A beginning of a path is one, and a path goes on to what it waits for.   *)
LEMMA PathBegins ==
  ASSUME NEW n, NEW p \in DH!PathsFrom(n), NEW k \in 1 .. Len(p)
  PROVE  \E q \in DH!PathsFrom(n) : DH!Last(q) = p[k]
<1> USE HellAssumption
<1> DEFINE q == [i \in 1 .. k |-> p[i]]
<1>1. /\ Len(p) \in 1 .. MaxDepth + 1 /\ Len(p) \in Nat /\ p \in [1 .. Len(p) -> Node] /\ p[1] = n
      /\ \A i \in 1 .. Len(p) : i + 1 \in 1 .. Len(p) => p[i + 1] \in DH!OpenEdges(p[i])
      /\ \A i, j \in 1 .. Len(p) : p[i] = p[j] => i = j
  BY PathIs
<1>2. /\ k \in 1 .. MaxDepth + 1 /\ q \in [1 .. k -> Node] /\ q[1] = n /\ q[k] = p[k]
      /\ \A i \in 1 .. k : i \in 1 .. Len(p) /\ q[i] = p[i]
  BY <1>1
<1> HIDE DEF q
<1>3. \A i \in 1 .. k : i + 1 \in 1 .. k => q[i + 1] \in DH!OpenEdges(q[i])
  BY <1>1, <1>2
<1>4. \A i, j \in 1 .. k : q[i] = q[j] => i = j
  BY <1>1, <1>2
<1>5. q \in DH!PathsFrom(n) /\ DH!Last(q) = q[k]
  BY <1>2, <1>3, <1>4, PathOf
<1> QED BY <1>2, <1>5

LEMMA PathGoesOn ==
  ASSUME NEW n, NEW p \in DH!PathsFrom(n), NEW d \in Node, d \in DH!OpenEdges(DH!Last(p)),
         d \notin DH!On(p), Len(p) <= MaxDepth
  PROVE  \E q \in DH!PathsFrom(n) :
            /\ Len(q) = Len(p) + 1 /\ DH!Last(q) = d
            /\ \A i \in 1 .. Len(p) : q[i] = p[i]
<1> USE HellAssumption
<1>1. PICK m : m = Len(p)
  OBVIOUS
<1> DEFINE q == [i \in 1 .. m + 1 |-> IF i = m + 1 THEN d ELSE p[i]]
<1>2. /\ m \in 1 .. MaxDepth /\ m \in Nat /\ p \in [1 .. m -> Node] /\ p[1] = n
      /\ DH!Last(p) = p[m] /\ DH!On(p) = {p[i] : i \in 1 .. m}
      /\ \A i \in 1 .. m : i + 1 \in 1 .. m => p[i + 1] \in DH!OpenEdges(p[i])
      /\ \A i, j \in 1 .. m : p[i] = p[j] => i = j
  BY <1>1, PathIs
<1>3. /\ m + 1 \in 1 .. MaxDepth + 1 /\ q \in [1 .. m + 1 -> Node] /\ q[m + 1] = d
      /\ \A i \in 1 .. m : q[i] = p[i]
      /\ \A i \in 1 .. m + 1 : i \in 1 .. m \/ i = m + 1
  BY <1>2
<1> HIDE DEF q
<1>4. q[1] = n /\ \A i \in 1 .. m : p[i] # d
  BY <1>2, <1>3
<1>5. \A i \in 1 .. m + 1 : i + 1 \in 1 .. m + 1 => q[i + 1] \in DH!OpenEdges(q[i])
  <2> SUFFICES ASSUME NEW i \in 1 .. m + 1, i + 1 \in 1 .. m + 1 PROVE q[i + 1] \in DH!OpenEdges(q[i])
    OBVIOUS
  <2>1. i \in 1 .. m /\ q[i] = p[i]
    BY <1>2, <1>3
  <2>2. CASE i = m
    BY <1>2, <1>3, <2>1, <2>2
  <2>3. CASE i # m
    <3>1. i + 1 \in 1 .. m
      BY <1>2, <2>1, <2>3
    <3> QED BY <1>2, <1>3, <2>1, <3>1
  <2> QED BY <2>2, <2>3
<1>6. \A i, j \in 1 .. m + 1 : q[i] = q[j] => i = j
  BY <1>2, <1>3, <1>4
<1>7. q \in DH!PathsFrom(n) /\ Len(q) = m + 1 /\ DH!Last(q) = q[m + 1]
  BY <1>3, <1>4, <1>5, <1>6, PathOf
<1> QED BY <1>1, <1>3, <1>7

(* What the report says of the paths it walked.                             *)
LEMMA WalkSays ==
  ASSUME NEW n
  PROVE  /\ DH!Walk(n).cycle <=>
              \E p \in DH!PathsFrom(n) : ~DH!Ends(n, p) /\ DH!OpenEdges(DH!Last(p)) \cap DH!On(p) # {}
         /\ DH!Walk(n).truncated <=>
              \E p \in DH!PathsFrom(n) : DH!Ends(n, p) /\ DH!OpenEdges(DH!Last(p)) # {}
         /\ DH!Walk(n).leaves = {DH!Last(p) : p \in {q \in DH!PathsFrom(n) : DH!Ends(n, q)}}
BY DEF DH!Walk

LEMMA AssessSays ==
  ASSUME NEW n
  PROVE  /\ "CYCLE" \in DH!Assess(n) <=> DH!Walk(n).cycle
         /\ DH!Walk(n).truncated => "DEEP" \in DH!Assess(n)
         /\ "DEAD_ROOT" \in DH!Assess(n) <=>
              \E r \in DH!Walk(n).leaves : "DEAD_ROOT" \in DH!RootFlags(r)
<1>1. \A r : "CYCLE" \notin DH!RootFlags(r)
  BY DEF DH!RootFlags
<1>2. PICK w : w = DH!Walk(n)
  OBVIOUS
<1>3. DH!Assess(n) = {"CYCLE" : x \in IF w.cycle THEN {1} ELSE {}}
                     \cup {"DEEP" : x \in {d \in w.depths : d >= DeepFrom}}
                     \cup {"DEEP" : x \in IF w.truncated THEN {1} ELSE {}}
                     \cup UNION {DH!RootFlags(r) : r \in w.leaves}
  BY <1>2 DEF DH!Assess
<1>4. "CYCLE" \in DH!Assess(n) <=> w.cycle
  BY <1>1, <1>3
<1>5. w.truncated => "DEEP" \in DH!Assess(n)
  BY <1>3
<1>6. "DEAD_ROOT" \in DH!Assess(n) <=> \E r \in w.leaves : "DEAD_ROOT" \in DH!RootFlags(r)
  BY <1>3
<1> QED BY <1>2, <1>4, <1>5, <1>6

(* When the levels are read, so is all that a path from a gated issue meets. *)
LEMMA ChainRead ==
  ASSUME DH!HellInv, hpc = "done", NEW m \in 1 .. MaxDepth + 1, NEW p \in [1 .. m -> Node], DH!Chain(p)
  PROVE  fetched[p[m]] # DH!Unread
<1> USE HellAssumption
<1>1. /\ level \in 0 .. MaxDepth + 1 /\ GatedNode \subseteq Node
      /\ \A n \in Node : n \in GatedNode \/ fetched[n] # DH!Unread =>
            /\ n \in frontier \/ fetched[n] # DH!Unread
            /\ fetched[n] # DH!Unread => \A d \in DH!Waits(n) : d \in frontier \/ fetched[d] # DH!Unread
      /\ \A k \in 1 .. level : \A q \in [1 .. k -> Node] : DH!Chain(q) => fetched[DH!Last(q)] # DH!Unread
      /\ level > MaxDepth \/ \A n \in frontier : fetched[n] # DH!Unread
  BY DEF DH!HellInv, DH!HellTypeOK, DH!ChainsAreRead, DH!ReportIsOfTheReads
<1>2. /\ m \in Nat /\ DOMAIN p = 1 .. m /\ DH!Last(p) = p[m]
      /\ p[1] \in GatedNode
      /\ \A i \in 1 .. m : i + 1 \in 1 .. m => p[i + 1] \in DH!Waits(p[i])
  <2>1. m \in Nat /\ DOMAIN p = 1 .. m /\ DH!Last(p) = p[m]
    BY LenOfPath
  <2> QED BY <2>1 DEF DH!Chain
<1>3. CASE level > MaxDepth
  BY <1>1, <1>2, <1>3
<1>4. CASE \A n \in frontier : fetched[n] # DH!Unread
  <2> DEFINE bad == {i \in 1 .. m : fetched[p[i]] = DH!Unread}
  <2>1. SUFFICES ASSUME bad # {} PROVE FALSE
    BY <1>2
  <2>2. PICK i \in bad : \A j \in bad : i <= j
    <3>1. bad \subseteq Nat
      OBVIOUS
    <3> HIDE DEF bad
    <3> QED BY <2>1, <3>1, LeastNumber
  <2>3. /\ i \in 1 .. m /\ fetched[p[i]] = DH!Unread
        /\ \A j \in 1 .. m : j < i => fetched[p[j]] # DH!Unread
    BY <2>2, <1>2
  <2>4. CASE i = 1
    BY <1>1, <1>2, <1>4, <2>3, <2>4
  <2>5. CASE i # 1
    <3>1. i - 1 \in 1 .. m /\ i - 1 < i /\ (i - 1) + 1 = i /\ p[i - 1] \in Node
      BY <1>2, <2>3, <2>5
    <3>2. fetched[p[i - 1]] # DH!Unread /\ p[i] \in DH!Waits(p[i - 1])
      BY <1>2, <2>3, <3>1
    <3> QED BY <1>1, <1>4, <2>3, <3>1, <3>2
  <2> QED BY <2>4, <2>5
<1> QED BY <1>1, <1>3, <1>4

LEMMA PathRead ==
  ASSUME DH!HellInv, hpc = "done", NEW n \in GatedNode, NEW p \in DH!PathsFrom(n)
  PROVE  \A i \in 1 .. Len(p) : p[i] \in Node /\ fetched[p[i]] # DH!Unread
<1> USE HellAssumption
<1>1. ASSUME NEW q \in DH!PathsFrom(n) PROVE DH!Last(q) \in Node /\ fetched[DH!Last(q)] # DH!Unread
  <2>1. PICK m : m = Len(q)
    OBVIOUS
  <2>2. /\ m \in 1 .. MaxDepth + 1 /\ m \in Nat /\ q \in [1 .. m -> Node] /\ q[1] = n
        /\ DH!Last(q) = q[m] /\ DOMAIN q = 1 .. m
        /\ \A i \in 1 .. m : i + 1 \in 1 .. m => q[i + 1] \in DH!OpenEdges(q[i])
    BY <2>1, PathIs
  <2>3. \A i \in 1 .. m : i + 1 \in 1 .. m => q[i + 1] \in DH!Waits(q[i])
    <3>1. \A x \in Node : DH!OpenEdges(x) \subseteq DH!Waits(x)
      BY HellTypes DEF DH!HellInv
    <3> QED BY <2>2, <3>1
  <2>4. DH!Chain(q)
    BY <2>2, <2>3 DEF DH!Chain
  <2>5. fetched[q[m]] # DH!Unread
    BY <2>2, <2>4, ChainRead
  <2> QED BY <2>2, <2>5
<1> SUFFICES ASSUME NEW i \in 1 .. Len(p) PROVE p[i] \in Node /\ fetched[p[i]] # DH!Unread
  OBVIOUS
<1>2. PICK q \in DH!PathsFrom(n) : DH!Last(q) = p[i]
  BY PathBegins
<1> QED BY <1>1, <1>2

LEMMA RootsAreRead == DH!HellInv => DH!RootsWereRead
<1> SUFFICES ASSUME DH!HellInv, hpc = "done", NEW n \in GatedNode, NEW r \in DH!Walk(n).leaves
             PROVE  fetched[r] # DH!Unread
  BY DEF DH!RootsWereRead
<1>1. PICK p \in DH!PathsFrom(n) : r = DH!Last(p)
  BY WalkSays
<1>2. Len(p) \in 1 .. Len(p) /\ DH!Last(p) = p[Len(p)]
  BY PathIs
<1> QED BY <1>1, <1>2, PathRead

(* While GitHub stood still and answered, what was read is the graph.       *)
LEMMA ReadIsGraph ==
  ASSUME DH!HellInv, hpc = "done", still, poolRead, \A n \in Node : fetched[n] # DH!Failed
  PROVE  /\ \A x \in Node : fetched[x] # DH!Unread =>
              /\ fetched[x] = graph[x] /\ DH!Known(x)
              /\ DH!Blocks(x) \subseteq DH!OpenEdges(x)
              /\ \A d \in DH!OpenEdges(x) : d \in Node /\ fetched[d] # DH!Unread => d \in DH!Blocks(x)
         /\ \A n \in GatedNode : graph[n].state \in {"open", "stale"}
<1> USE HellAssumption
<1>1. /\ \A n \in Node : fetched[n] \in {DH!Unread, DH!Failed, graph[n]}
      /\ \A n \in GatedNode : graph[n].state \in {"open", "stale"} /\ edges[n] = DH!Blocks(n)
      /\ graph \in [Node -> DH!IssueType]
  BY DEF DH!HellInv, DH!HellTypeOK, DH!ReadsAreTheGraph
<1>2. DH!Unread \notin DH!IssueType /\ DH!Failed \notin DH!IssueType
  BY DEF DH!Unread, DH!Failed, DH!IssueType
<1>3. \A x \in Node : fetched[x] # DH!Unread => fetched[x] = graph[x]
  BY <1>1
<1>4. \A x \in Node : DH!Known(x) <=> fetched[x] # DH!Unread
  BY <1>1, <1>2, <1>3 DEF DH!Known
<1>5. ASSUME NEW x \in Node, fetched[x] # DH!Unread
      PROVE  /\ DH!Blocks(x) \subseteq DH!OpenEdges(x)
             /\ \A d \in DH!OpenEdges(x) : d \in Node /\ fetched[d] # DH!Unread => d \in DH!Blocks(x)
  <2>1. CASE x \in GatedNode
    BY <1>1, <2>1 DEF DH!OpenEdges
  <2>2. CASE x \notin GatedNode
    <3>1. DH!OpenEdges(x) = {d \in DH!DeclaredDeps(x) : ~DH!NodeSatisfied(d)}
      BY <2>2 DEF DH!OpenEdges
    <3>2. DH!DeclaredDeps(x) = IF graph[x].state \in {"open", "stale"} THEN graph[x].refs ELSE {}
      BY <1>3, <1>4, <1>5 DEF DH!DeclaredDeps
    <3>3. \A d \in Node : /\ graph[d].state # "done" => ~DH!NodeSatisfied(d)
                          /\ fetched[d] # DH!Unread /\ ~DH!NodeSatisfied(d) => graph[d].state # "done"
      BY <1>3, <1>4 DEF DH!NodeSatisfied
    <3>4. graph[x].refs \subseteq Node
      BY <1>1 DEF DH!IssueType
    <3>5. DH!Blocks(x) = IF graph[x].state \in {"open", "stale"}
                         THEN {d \in graph[x].refs : graph[d].state # "done"} ELSE {}
      BY DEF DH!Blocks
    <3> QED BY <3>1, <3>2, <3>3, <3>4, <3>5
  <2> QED BY <2>1, <2>2
<1> QED BY <1>1, <1>3, <1>4, <1>5

(* Upstream has the blockers, and their blockers, and is the least of such. *)
LEMMA UpstreamIs ==
  ASSUME DH!HellTypeOK, NEW n \in Node
  PROVE  /\ DH!Upstream(n) \subseteq Node /\ DH!Blocks(n) \subseteq DH!Upstream(n)
         /\ \A x \in DH!Upstream(n) : DH!Blocks(x) \subseteq DH!Upstream(n)
         /\ \A S \in SUBSET Node :
              DH!Blocks(n) \subseteq S /\ (\A x \in S : DH!Blocks(x) \subseteq S) => DH!Upstream(n) \subseteq S
<1>1. \A x \in Node : DH!Blocks(x) \subseteq Node
  BY HellTypes
<1> DEFINE closed == {S \in SUBSET Node : DH!Blocks(n) \subseteq S /\ \A x \in S : DH!Blocks(x) \subseteq S}
<1>2. \A d : d \in DH!Upstream(n) <=> d \in Node /\ \A S \in closed : d \in S
  BY DEF DH!Upstream
<1>3. /\ \A S \in closed : DH!Blocks(n) \subseteq S /\ \A x \in S : DH!Blocks(x) \subseteq S
      /\ \A S \in SUBSET Node :
              DH!Blocks(n) \subseteq S /\ (\A x \in S : DH!Blocks(x) \subseteq S) => S \in closed
  OBVIOUS
<1> HIDE DEF closed
<1> QED BY <1>1, <1>2, <1>3

(* What comes later on a path of blockers is upstream of what came before.  *)
LEMMA UpPath ==
  ASSUME DH!HellTypeOK, NEW m \in Nat, NEW p \in [1 .. m -> Node],
         \A i \in 1 .. m : i + 1 \in 1 .. m => p[i + 1] \in DH!Blocks(p[i]),
         NEW i \in 1 .. m, NEW k \in 1 .. m, i < k
  PROVE  p[k] \in DH!Upstream(p[i])
<1> DEFINE bad == {j \in 1 .. m : i < j /\ p[j] \notin DH!Upstream(p[i])}
<1> SUFFICES ASSUME bad # {} PROVE FALSE
  OBVIOUS
<1>1. PICK j \in bad : \A h \in bad : j <= h
  <2>1. bad \subseteq Nat
    OBVIOUS
  <2> HIDE DEF bad
  <2> QED BY <2>1, LeastNumber
<1>2. /\ j \in 1 .. m /\ i < j /\ p[j] \notin DH!Upstream(p[i]) /\ j - 1 \in 1 .. m /\ (j - 1) + 1 = j
      /\ i < j - 1 => p[j - 1] \in DH!Upstream(p[i])
  BY <1>1
<1>3. p[j] \in DH!Blocks(p[j - 1]) /\ p[i] \in Node
  BY <1>2
<1>4. CASE i = j - 1
  BY <1>2, <1>3, <1>4, UpstreamIs
<1>5. CASE i # j - 1
  <2>1. p[j - 1] \in DH!Upstream(p[i])
    BY <1>2, <1>5
  <2> QED BY <1>2, <1>3, <2>1, UpstreamIs
<1> QED BY <1>4, <1>5

(* A walk that was not cut short met everything upstream.                   *)
LEMMA WalkIsWhole ==
  ASSUME DH!HellInv, hpc = "done", still, poolRead, \A x \in Node : fetched[x] # DH!Failed,
         NEW n \in GatedNode, ~DH!Walk(n).truncated
  PROVE  /\ \A p \in DH!PathsFrom(n) : /\ DH!OpenEdges(DH!Last(p)) # {} => Len(p) <= MaxDepth /\ ~DH!Ends(n, p)
                                       /\ DH!OpenEdges(DH!Last(p)) \subseteq Node
                                       /\ DH!Blocks(DH!Last(p)) \subseteq DH!OpenEdges(DH!Last(p))
         /\ \A d \in DH!Upstream(n) \cup {n} : \E p \in DH!PathsFrom(n) : DH!Last(p) = d
<1> USE HellAssumption
<1>1. DH!HellTypeOK /\ n \in Node
  BY DEF DH!HellInv
<1>2. ASSUME NEW p \in DH!PathsFrom(n)
      PROVE  /\ DH!OpenEdges(DH!Last(p)) # {} => Len(p) <= MaxDepth /\ ~DH!Ends(n, p)
             /\ DH!OpenEdges(DH!Last(p)) \subseteq Node
             /\ DH!Blocks(DH!Last(p)) \subseteq DH!OpenEdges(DH!Last(p))
             /\ DH!Last(p) \in Node
  <2>1. PICK m : m = Len(p)
    OBVIOUS
  <2>2. /\ m \in 1 .. MaxDepth + 1 /\ m \in 1 .. m /\ p[1] = n /\ DH!Last(p) = p[m]
        /\ \A i, j \in 1 .. m : p[i] = p[j] => i = j
    BY <2>1, PathIs
  <2>3. p[m] \in Node /\ fetched[p[m]] # DH!Unread
    BY <2>1, <2>2, PathRead
  <2>4. DH!OpenEdges(p[m]) \subseteq Node /\ DH!Blocks(p[m]) \subseteq DH!OpenEdges(p[m])
    BY <1>1, <2>3, HellTypes, ReadIsGraph
  <2>5. DH!OpenEdges(DH!Last(p)) # {} => ~DH!Ends(n, p)
    BY WalkSays
  <2>6. ASSUME DH!OpenEdges(DH!Last(p)) # {}, ~(m <= MaxDepth) PROVE FALSE
    <3>1. m - 1 >= MaxDepth /\ m # 1 /\ 1 \in 1 .. m
      BY <2>2, <2>6
    <3>2. DH!Last(p) # n
      BY <2>2, <3>1
    <3> QED BY <2>1, <2>5, <2>6, <3>1, <3>2 DEF DH!Ends
  <2> QED BY <2>1, <2>2, <2>3, <2>4, <2>5, <2>6
<1> DEFINE R == {DH!Last(p) : p \in DH!PathsFrom(n)}
<1>3. n \in R
  <2> DEFINE p == [i \in 1 .. 1 |-> n]
  <2>1. p \in [1 .. 1 -> Node] /\ 1 \in 1 .. MaxDepth + 1 /\ p[1] = n /\ \A i \in 1 .. 1 : i = 1
    BY <1>1
  <2> HIDE DEF p
  <2>2. /\ \A i \in 1 .. 1 : i + 1 \in 1 .. 1 => p[i + 1] \in DH!OpenEdges(p[i])
        /\ \A i, j \in 1 .. 1 : p[i] = p[j] => i = j
    BY <2>1
  <2>3. p \in DH!PathsFrom(n) /\ DH!Last(p) = n
    BY <2>1, <2>2, PathOf
  <2> QED BY <2>3
<1>4. ASSUME NEW p \in DH!PathsFrom(n), NEW d \in DH!OpenEdges(DH!Last(p)) PROVE d \in R
  <2>1. d \in Node /\ Len(p) <= MaxDepth
    BY <1>2
  <2>2. CASE d \in DH!On(p)
    <3>1. PICK i \in 1 .. Len(p) : d = p[i]
      BY <2>2, PathIs
    <3>2. \E q \in DH!PathsFrom(n) : DH!Last(q) = p[i]
      BY PathBegins
    <3> QED BY <3>1, <3>2
  <2>3. CASE d \notin DH!On(p)
    <3>1. \E q \in DH!PathsFrom(n) : DH!Last(q) = d
      BY <2>1, <2>3, PathGoesOn
    <3> QED BY <3>1
  <2> QED BY <2>2, <2>3
<1>5. /\ R \in SUBSET Node
      /\ \A x \in R : DH!Blocks(x) \subseteq R
  <2>1. R \in SUBSET Node
    BY <1>2
  <2>2. ASSUME NEW x \in R, NEW d \in DH!Blocks(x) PROVE d \in R
    <3>1. PICK p \in DH!PathsFrom(n) : x = DH!Last(p)
      OBVIOUS
    <3>2. d \in DH!OpenEdges(DH!Last(p))
      BY <1>2, <2>2, <3>1
    <3> HIDE DEF R
    <3> QED BY <1>4, <3>1, <3>2
  <2> HIDE DEF R
  <2> QED BY <2>1, <2>2
<1>6. DH!Upstream(n) \subseteq R
  <2> HIDE DEF R
  <2> QED BY <1>1, <1>3, <1>5, UpstreamIs
<1> QED BY <1>2, <1>3, <1>6

(* On the path to an issue that waits on itself the walk meets it again.    *)
LEMMA CircleIsMet ==
  ASSUME DH!HellInv, hpc = "done", still, poolRead, \A x \in Node : fetched[x] # DH!Failed,
         NEW n \in GatedNode, ~DH!Walk(n).truncated, ~DH!Walk(n).cycle,
         NEW d \in DH!Upstream(n) \cup {n}, d \in DH!Upstream(d)
  PROVE  FALSE
<1> USE HellAssumption
<1>1. PICK p \in DH!PathsFrom(n) : DH!Last(p) = d
  BY WalkIsWhole
<1>2. PICK m : m = Len(p)
  OBVIOUS
<1>3. m \in Nat /\ m \in 1 .. m /\ p[m] = d /\ d \in Node /\ DH!HellTypeOK
  <2>1. m \in Nat /\ m \in 1 .. m /\ p[m] = d
    BY <1>1, <1>2, PathIs
  <2>2. d \in Node
    BY <1>2, <2>1, PathRead
  <2> QED BY <2>1, <2>2 DEF DH!HellInv
<1> DEFINE Longer == {q \in DH!PathsFrom(n) : Len(q) > m /\ \A i \in 1 .. m : q[i] = p[i]}
           S == {DH!Last(q) : q \in Longer}
<1>4. ASSUME NEW q \in DH!PathsFrom(n), Len(q) >= m, \A i \in 1 .. m : q[i] = p[i],
             NEW x \in DH!Blocks(DH!Last(q))
      PROVE  x \in S
  <2>1. x \in DH!OpenEdges(DH!Last(q)) /\ x \in Node /\ Len(q) <= MaxDepth /\ ~DH!Ends(n, q)
    BY <1>4, WalkIsWhole
  <2>2. x \notin DH!On(q)
    BY <2>1, WalkSays
  <2>3. PICK r \in DH!PathsFrom(n) : /\ Len(r) = Len(q) + 1 /\ DH!Last(r) = x
                                     /\ \A i \in 1 .. Len(q) : r[i] = q[i]
    BY <2>1, <2>2, PathGoesOn
  <2>4. Len(q) \in Nat
    BY PathIs
  <2>5. Len(r) > m /\ \A i \in 1 .. m : i \in 1 .. Len(q) /\ r[i] = p[i]
    BY <1>3, <1>4, <2>3, <2>4
  <2> QED BY <2>3, <2>5
<1>5. DH!Blocks(d) \subseteq S
  <2>1. Len(p) >= m /\ \A i \in 1 .. m : p[i] = p[i]
    BY <1>2, <1>3
  <2> HIDE DEF S
  <2> QED BY <1>1, <1>4, <2>1
<1>6. S \in SUBSET Node /\ \A x \in S : DH!Blocks(x) \subseteq S
  <2>1. ASSUME NEW q \in DH!PathsFrom(n) PROVE DH!Last(q) \in Node /\ Len(q) \in Nat
    <3>1. Len(q) \in 1 .. Len(q) /\ DH!Last(q) = q[Len(q)] /\ Len(q) \in Nat
      BY PathIs
    <3> QED BY <3>1, PathRead
  <2>2. S \in SUBSET Node
    BY <2>1
  <2>3. ASSUME NEW x \in S, NEW y \in DH!Blocks(x) PROVE y \in S
    <3>1. PICK q \in Longer : x = DH!Last(q)
      OBVIOUS
    <3>2. /\ q \in DH!PathsFrom(n) /\ Len(q) >= m /\ \A i \in 1 .. m : q[i] = p[i]
      BY <1>3, <2>1, <3>1
    <3> HIDE DEF S, Longer
    <3> QED BY <1>4, <2>3, <3>1, <3>2
  <2> HIDE DEF S
  <2> QED BY <2>2, <2>3
<1>7. DH!Upstream(d) \subseteq S
  <2> HIDE DEF S
  <2> QED BY <1>3, <1>5, <1>6, UpstreamIs
<1>8. PICK q \in Longer : d = DH!Last(q)
  BY <1>7
<1>9. /\ Len(q) \in Nat /\ Len(q) > m /\ q[m] = d /\ q[Len(q)] = d
      /\ \A i, j \in 1 .. Len(q) : q[i] = q[j] => i = j
  BY <1>3, <1>8, PathIs
<1> QED BY <1>3, <1>9

(* A path that was read is one of blockers.                                 *)
LEMMA PathIsOfBlocks ==
  ASSUME DH!HellInv, hpc = "done", still, poolRead, \A x \in Node : fetched[x] # DH!Failed,
         NEW n \in GatedNode, NEW p \in DH!PathsFrom(n)
  PROVE  /\ \A i \in 1 .. Len(p) : /\ p[i] \in Node /\ fetched[p[i]] = graph[p[i]] /\ DH!Known(p[i])
                                   /\ i + 1 \in 1 .. Len(p) => p[i + 1] \in DH!Blocks(p[i])
         /\ \A i, k \in 1 .. Len(p) : i < k => p[k] \in DH!Upstream(p[i])
         /\ \A d \in DH!OpenEdges(DH!Last(p)) \cap DH!On(p) : d \in DH!Blocks(DH!Last(p))
<1>1. PICK m : m = Len(p)
  OBVIOUS
<1>2. /\ m \in Nat /\ p \in [1 .. m -> Node] /\ m \in 1 .. m
      /\ DH!Last(p) = p[m] /\ DH!On(p) = {p[i] : i \in 1 .. m}
      /\ \A i \in 1 .. m : i + 1 \in 1 .. m => p[i + 1] \in DH!OpenEdges(p[i])
  BY <1>1, PathIs
<1>3. \A i \in 1 .. m : p[i] \in Node /\ fetched[p[i]] # DH!Unread
  BY <1>1, PathRead
<1>4. \A x \in Node : fetched[x] # DH!Unread =>
         /\ fetched[x] = graph[x] /\ DH!Known(x)
         /\ \A d \in DH!OpenEdges(x) : d \in Node /\ fetched[d] # DH!Unread => d \in DH!Blocks(x)
  BY ReadIsGraph
<1>5. \A i \in 1 .. m : i + 1 \in 1 .. m => p[i + 1] \in DH!Blocks(p[i])
  BY <1>2, <1>3, <1>4
<1>6. \A i, k \in 1 .. m : i < k => p[k] \in DH!Upstream(p[i])
  BY <1>2, <1>5, UpPath DEF DH!HellInv
<1>7. \A d \in DH!OpenEdges(DH!Last(p)) \cap DH!On(p) : d \in DH!Blocks(DH!Last(p))
  BY <1>2, <1>3, <1>4
<1> QED BY <1>1, <1>3, <1>4, <1>5, <1>6, <1>7

LEMMA SleepersAreReported == DH!HellInv => DH!NeverWakesIsReported
<1> SUFFICES ASSUME DH!HellInv, hpc = "done", still, poolRead, \A x \in Node : fetched[x] # DH!Failed,
                    NEW n \in GatedNode
             PROVE  /\ (\E d \in DH!Upstream(n) \cup {n} : d \in DH!Upstream(d)) =>
                          reported[n] \cap {"CYCLE", "DEEP"} # {}
                    /\ (\E d \in DH!Upstream(n) : graph[d].state = "dead") =>
                          reported[n] \cap {"DEAD_ROOT", "DEEP"} # {}
                    /\ "CYCLE" \in reported[n] => \E d \in DH!Upstream(n) \cup {n} : d \in DH!Upstream(d)
                    /\ "DEAD_ROOT" \in reported[n] => \E d \in DH!Upstream(n) : graph[d].state = "dead"
  BY DEF DH!NeverWakesIsReported
<1> USE HellAssumption
<1>1. reported[n] = DH!Assess(n) /\ n \in Node /\ DH!HellTypeOK
  BY DEF DH!HellInv, DH!ReportIsOfTheReads
<1>2. ASSUME NEW d \in DH!Upstream(n) \cup {n}, d \in DH!Upstream(d)
      PROVE  reported[n] \cap {"CYCLE", "DEEP"} # {}
  <2>1. DH!Walk(n).truncated \/ DH!Walk(n).cycle
    BY <1>2, CircleIsMet
  <2> QED BY <1>1, <2>1, AssessSays
<1>3. ASSUME NEW d \in DH!Upstream(n), graph[d].state = "dead"
      PROVE  reported[n] \cap {"DEAD_ROOT", "DEEP"} # {}
  <2>1. CASE DH!Walk(n).truncated
    BY <1>1, <2>1, AssessSays
  <2>2. CASE ~DH!Walk(n).truncated
    <3>1. PICK p \in DH!PathsFrom(n) : DH!Last(p) = d
      BY <2>2, WalkIsWhole
    <3>2. /\ d \in Node /\ fetched[d] = graph[d] /\ DH!Known(d)
      <4>1. Len(p) \in 1 .. Len(p) /\ DH!Last(p) = p[Len(p)]
        BY PathIs
      <4> QED BY <3>1, <4>1, PathIsOfBlocks
    <3>3. d \notin GatedNode
      BY <1>3, ReadIsGraph
    <3>4. DH!OpenEdges(d) = {}
      BY <1>3, <3>2, <3>3 DEF DH!OpenEdges, DH!DeclaredDeps
    <3>5. DH!Ends(n, p)
      BY <3>1, <3>3, <3>4 DEF DH!Ends
    <3>6. d \in DH!Walk(n).leaves
      BY <3>1, <3>5, WalkSays
    <3>7. "DEAD_ROOT" \in DH!RootFlags(d)
      BY <1>3, <3>2 DEF DH!RootFlags
    <3> QED BY <1>1, <3>6, <3>7, AssessSays
  <2> QED BY <2>1, <2>2
<1>4. ASSUME "CYCLE" \in reported[n]
      PROVE  \E d \in DH!Upstream(n) \cup {n} : d \in DH!Upstream(d)
  <2>1. PICK p \in DH!PathsFrom(n) : DH!OpenEdges(DH!Last(p)) \cap DH!On(p) # {}
    BY <1>1, <1>4, AssessSays, WalkSays
  <2>2. PICK m : m = Len(p)
    OBVIOUS
  <2>3. m \in Nat /\ 1 \in 1 .. m /\ m \in 1 .. m /\ p[1] = n /\ DH!Last(p) = p[m]
        /\ DH!On(p) = {p[i] : i \in 1 .. m}
    BY <2>2, PathIs
  <2>4. /\ \A i \in 1 .. m : p[i] \in Node
        /\ \A i, k \in 1 .. m : i < k => p[k] \in DH!Upstream(p[i])
        /\ \A d \in DH!OpenEdges(DH!Last(p)) \cap DH!On(p) : d \in DH!Blocks(DH!Last(p))
    BY <2>2, PathIsOfBlocks
  <2>5. PICK i \in 1 .. m : p[i] \in DH!Blocks(p[m])
    BY <2>1, <2>3, <2>4
  <2>6. p[i] \in DH!Upstream(p[i])
    <3>1. CASE i = m
      BY <1>1, <2>3, <2>4, <2>5, <3>1, UpstreamIs
    <3>2. CASE i # m
      <4>1. p[m] \in DH!Upstream(p[i])
        BY <2>3, <2>4, <3>2
      <4> QED BY <1>1, <2>4, <2>5, <4>1, UpstreamIs
    <3> QED BY <3>1, <3>2
  <2>7. p[i] \in DH!Upstream(n) \cup {n}
    <3>1. CASE i = 1
      BY <2>3, <3>1
    <3>2. CASE i # 1
      BY <2>3, <2>4, <3>2
    <3> QED BY <3>1, <3>2
  <2> QED BY <2>6, <2>7
<1>5. ASSUME "DEAD_ROOT" \in reported[n]
      PROVE  \E d \in DH!Upstream(n) : graph[d].state = "dead"
  <2>1. PICK r \in DH!Walk(n).leaves : "DEAD_ROOT" \in DH!RootFlags(r)
    BY <1>1, <1>5, AssessSays
  <2>2. PICK p \in DH!PathsFrom(n) : r = DH!Last(p) /\ DH!Ends(n, p)
    BY WalkSays
  <2>3. PICK m : m = Len(p)
    OBVIOUS
  <2>4. m \in Nat /\ 1 \in 1 .. m /\ m \in 1 .. m /\ p[1] = n /\ r = p[m] /\ r # n
    BY <2>2, <2>3, PathIs DEF DH!Ends
  <2>5. m - 1 \in 1 .. m /\ (m - 1) + 1 = m /\ 1 < m
    BY <2>4
  <2>6. /\ fetched[r] = graph[r] /\ DH!Known(r) /\ r \in DH!Blocks(p[m - 1]) /\ r \in DH!Upstream(n)
    <3>1. /\ \A i \in 1 .. m : /\ p[i] \in Node /\ fetched[p[i]] = graph[p[i]] /\ DH!Known(p[i])
                               /\ i + 1 \in 1 .. m => p[i + 1] \in DH!Blocks(p[i])
          /\ \A i, k \in 1 .. m : i < k => p[k] \in DH!Upstream(p[i])
      BY <2>3, PathIsOfBlocks
    <3> QED BY <2>4, <2>5, <3>1
  <2>7. graph[r].state # "done"
    BY <2>6 DEF DH!Blocks
  <2>8. graph[r].state = "dead"
    BY <2>1, <2>6, <2>7 DEF DH!RootFlags
  <2> QED BY <2>6, <2>8
<1> QED BY <1>2, <1>3, <1>4, <1>5

-----------------------------------------------------------------------------
(* The types of the programs whose invariants say more than types, besides  *)
(* the queue and the respawn.                                               *)

(* HourlyDebt: the child that runs is of an hour there was, and what was    *)
(* delivered was submitted.                                                 *)
LEMMA DebtTypesStart == HD!DebtInit => HD!DebtTypeOK
<1> SUFFICES ASSUME HD!DebtInit PROVE HD!DebtTypeOK
  OBVIOUS
<1> USE DebtAssumption
<1>1. HD!DebtInv
  BY DebtInit
<1>2. \A c \in HD!Caller : callers[c] \in HD!CallerType
  BY <1>1 DEF HD!DebtInv, HD!DebtShape
<1> QED BY <1>1, <1>2 DEF HD!DebtInit, HD!DebtInv, HD!DebtShape, HD!DebtTypeOK

LEMMA DebtTypesGo ==
  ASSUME HD!DebtInv, HD!DebtInv', HD!DebtTypeOK, HD!DebtNext \/ UNCHANGED debtVars
  PROVE  HD!DebtTypeOK'
<1> USE DebtAssumption
<1>1. /\ hour \in HD!Bucket /\ inflight \in HD!Bucket \cup {NULL} /\ done \subseteq HD!Bucket
      /\ debtCrashes \in 0 .. MaxDebtCrash
      /\ \A c \in HD!Caller : callers[c] \in HD!CallerType /\ callers[c].key \in HD!Bucket
      /\ record # NULL => record.key \in HD!Bucket
  BY DEF HD!DebtTypeOK, HD!CallerType, HD!RecordType
<1>2. ASSUME NEW c, NEW pc, NEW rec, HD!StartWriter(c, pc, rec), rec.key \in HD!Bucket
      PROVE  inflight' \in HD!Bucket \cup {NULL}
  BY <1>2 DEF HD!StartWriter
<1>3. ASSUME NEW c, NEW pc, NEW next, HD!Reconcile(c, pc, next)
      PROVE  inflight' \in HD!Bucket \cup {NULL}
  <2>1. CASE UNCHANGED inflight
    BY <1>1, <2>1
  <2>2. CASE /\ record # NULL
             /\ HD!StartWriter(c, pc, [key |-> record.key, writer |-> "pending",
                                       attempts |-> record.attempts + 1, escalated |-> record.escalated])
    <3> DEFINE rec == [key |-> record.key, writer |-> "pending",
                       attempts |-> record.attempts + 1, escalated |-> record.escalated]
    <3>1. rec.key \in HD!Bucket
      BY <1>1, <2>2
    <3>2. HD!StartWriter(c, pc, rec)
      BY <2>2
    <3> HIDE DEF rec
    <3> QED BY <1>2, <3>1, <3>2
  <2> QED BY <1>3, <2>1, <2>2 DEF HD!Reconcile
<1>4. inflight' \in HD!Bucket \cup {NULL} /\ done' \subseteq HD!Bucket /\ debtCrashes' \in 0 .. MaxDebtCrash
  <2>1. ASSUME NEW c \in HD!Caller, HD!Trigger(c) PROVE inflight' \in HD!Bucket \cup {NULL}
    <3> DEFINE rec == [key |-> hour, writer |-> "pending", attempts |-> 1, escalated |-> FALSE]
    <3>1. CASE HD!Reconcile(c, "ensuring", HD!Asks(hour))
      BY <1>3, <3>1
    <3>2. CASE HD!StartWriter(c, "ensuring", rec)
      <4>1. rec.key \in HD!Bucket
        BY <1>1
      <4> HIDE DEF rec
      <4> QED BY <1>2, <3>2, <4>1
    <3> QED BY <2>1, <3>1, <3>2 DEF HD!Trigger
  <2>2. ASSUME NEW c \in HD!Caller, HD!Trigger(c) PROVE UNCHANGED <<done, debtCrashes>>
    BY <2>2 DEF HD!Trigger
  <2>3. ASSUME NEW c \in HD!Caller, HD!WriterSettles(c) \/ HD!PromptSubmitted(c)
        PROVE  /\ inflight' \in {inflight, NULL} /\ done' \in {done, done \cup {callers[c].key}}
               /\ debtCrashes' = debtCrashes
    BY <2>3 DEF HD!WriterSettles, HD!PromptSubmitted
  <2>4. ASSUME HD!TickReconciles
        PROVE  inflight' \in HD!Bucket \cup {NULL} /\ UNCHANGED <<done, debtCrashes>>
    BY <1>3, <2>4 DEF HD!TickReconciles
  <2>5. CASE \/ HD!TickReminds \/ (\E w \in HD!Writer : HD!WriterCommits(w))
             \/ (\E b \in HD!Bucket : HD!Posts(b)) \/ HD!HourPasses \/ UNCHANGED debtVars
    BY <1>1, <2>5 DEF HD!TickReminds, HD!WriterCommits, HD!Posts, HD!HourPasses, debtVars
  <2>6. CASE HD!DebtCrash
    BY <1>1, <2>6 DEF HD!DebtCrash
  <2> QED BY <1>1, <2>1, <2>2, <2>3, <2>4, <2>5, <2>6 DEF HD!DebtNext
<1>5. \A c \in HD!Caller : callers'[c] \in HD!CallerType
  BY DEF HD!DebtInv, HD!DebtShape
<1> QED BY <1>4, <1>5 DEF HD!DebtInv, HD!DebtShape, HD!DebtTypeOK

(* CIVerdict: a run keeps its head, and a comment is of a run of the pull   *)
(* request that it is on.                                                   *)
LEMMA VerdictTypesStart == CV!VerdictInit => CV!VerdictTypeOK
<1> SUFFICES ASSUME CV!VerdictInit PROVE CV!VerdictTypeOK
  OBVIOUS
<1>1. CV!VerdictShape
  BY VerdictStarts DEF CV!VerdictInv
<1>2. \A r \in Run : ciRuns[r].head \in CV!Heads
  BY VerdictAssumption DEF CV!VerdictInit, CV!Heads
<1>3. \A n \in CV!PRs : DOMAIN comments[n] = {}
  <2>1. \A n \in CV!PRs : comments[n] = <<>>
    BY DEF CV!VerdictInit
  <2> QED BY <2>1
<1> QED BY <1>1, <1>2, <1>3 DEF CV!VerdictShape, CV!VerdictTypeOK

LEMMA VerdictTypesGo ==
  ASSUME CV!VerdictInv, CV!VerdictInv', CV!VerdictTypeOK, CV!VerdictNext \/ UNCHANGED verdictVars
  PROVE  CV!VerdictTypeOK'
<1>1. CV!VerdictShape /\ CV!VerdictShape'
  BY DEF CV!VerdictInv
<1>2. \A r \in Run : ciRuns'[r].head \in CV!Heads
  <2>1. CASE UNCHANGED ciRuns
    BY <2>1 DEF CV!VerdictTypeOK
  <2>2. CASE CV!CIMove
    <3>1. ASSUME NEW r \in Run, ciRuns' = [ciRuns EXCEPT ![r] = [attempt |-> ciRuns[r].attempt + 1,
                                                               head |-> ciRuns[r].head]]
          PROVE  \A q \in Run : ciRuns'[q].head = ciRuns[q].head
      BY <1>1, <3>1 DEF CV!VerdictShape
    <3> QED BY <2>1, <2>2, <3>1 DEF CV!CIMove, CV!VerdictTypeOK
  <2> QED BY <2>1, <2>2 DEF CV!VerdictNext, CV!ReadRun, CV!Materialize, CV!ListComments, CV!Quarantine,
             CV!Post, CV!Finish, CV!Fails, verdictVars
<1>3. \A n \in CV!PRs : \A i \in DOMAIN comments'[n] : PrOf[comments'[n][i].run] = n
  <2>1. CASE UNCHANGED comments
    BY <2>1 DEF CV!VerdictTypeOK
  <2>2. ASSUME NEW p \in Publisher, CV!Post(p) \/ CV!Finish(p)
        PROVE  \A n \in CV!PRs : \A i \in DOMAIN comments'[n] : PrOf[comments'[n][i].run] = n
    <3> DEFINE me == pubs[p]
               pr == PrOf[me.run]
    <3>1. me.pc \in {"post", "finish"}
      BY <2>2 DEF CV!Post, CV!Finish
    <3>2. /\ me.run \in Run /\ pr \in CV!PRs /\ comments[pr] \in Seq(CV!CommentType)
          /\ me.attempt \in Nat /\ me.runHead \in Nat /\ me.repeated \in BOOLEAN
          /\ me.blocked \in {"unset", "yes", "no"}
          /\ comments \in [CV!PRs -> Seq(CV!CommentType)]
      BY <1>1, <3>1 DEF CV!VerdictShape, CV!PRs
    <3>3. PICK posted, at, d :
            /\ posted = CV!Comment(p, "unset") \/ posted = CV!Comment(p, me.blocked)
            /\ d = Append(comments[pr], posted) \/ d = [comments[pr] EXCEPT ![at] = posted]
            /\ comments' = [comments EXCEPT ![pr] = d]
      <4>1. CASE CV!Post(p)
        <5> DEFINE at == IF CV!Existing(p) = 0 THEN Len(comments[pr]) + 1 ELSE CV!Existing(p)
                   posted == CV!Comment(p, "unset")
                   d == IF at > Len(comments[pr]) THEN Append(comments[pr], posted)
                        ELSE [comments[pr] EXCEPT ![at] = posted]
        <5>1. comments' = [comments EXCEPT ![pr] = d]
          BY <4>1 DEF CV!Post
        <5>2. d = Append(comments[pr], posted) \/ d = [comments[pr] EXCEPT ![at] = posted]
          OBVIOUS
        <5> HIDE DEF at, posted, d
        <5>3. posted = CV!Comment(p, "unset")
          BY DEF posted
        <5> QED BY <5>1, <5>2, <5>3
      <4>2. CASE CV!Finish(p)
        <5> DEFINE posted == CV!Comment(p, me.blocked)
                   d == [comments[pr] EXCEPT ![me.at] = posted]
        <5>1. comments' = [comments EXCEPT ![pr] = d]
          BY <3>2, <4>2 DEF CV!Finish
        <5> QED BY <5>1
      <4> QED BY <2>2, <4>1, <4>2
    <3>4. posted \in CV!CommentType /\ PrOf[posted.run] = pr
      BY <3>2, <3>3 DEF CV!Comment, CV!CommentType
    <3>5. \A i \in DOMAIN d : d[i] = posted \/ (i \in DOMAIN comments[pr] /\ d[i] = comments[pr][i])
      <4>1. PICK c : c = comments[pr]
        OBVIOUS
      <4>2. c \in Seq(CV!CommentType) /\ (d = Append(c, posted) \/ d = [c EXCEPT ![at] = posted])
        BY <3>2, <3>3, <4>1
      <4>3. \A i \in DOMAIN d : d[i] = posted \/ (i \in DOMAIN c /\ d[i] = c[i])
        BY <3>4, <4>2, CommentWritten
      <4> QED BY <4>1, <4>3
    <3>6. \A n \in CV!PRs : comments'[n] = IF n = pr THEN d ELSE comments[n]
      BY <3>2, <3>3
    <3> HIDE DEF me, pr
    <3> QED BY <3>4, <3>5, <3>6 DEF CV!VerdictTypeOK
  <2> QED BY <2>1, <2>2 DEF CV!VerdictNext, CV!ReadRun, CV!Materialize, CV!ListComments, CV!Quarantine,
             CV!Fails, CV!CIMove, verdictVars
<1> QED BY <1>1, <1>2, <1>3 DEF CV!VerdictShape, CV!VerdictTypeOK

(* MergePR: what is shown tested are families of tests.                     *)
LEMMA MergeTypesStart == MP!MergeInit => MP!MergeTypeOK
<1> SUFFICES ASSUME MP!MergeInit PROVE MP!MergeTypeOK
  OBVIOUS
<1>1. mpc = "start" /\ tested = {} /\ refused = FALSE /\ ghPr.by = "nobody"
  BY DEF MP!MergeInit
<1> QED BY <1>1 DEF MP!MergeTypeOK

LEMMA MergeTypesGo ==
  ASSUME MP!MergeInv, MP!MergeTypeOK, MP!MergeNext \/ UNCHANGED mergeVars
  PROVE  MP!MergeTypeOK'
<1>1. ASSUME NEW wf, NEW p \in MP!WorkflowProof(wf) PROVE p[2] \subseteq MP!Family \cup {"exempt", "python_job"}
  <2>1. PICK r \in MP!Newest(wf, {"skipped"}) :
          p = <<MP!ProofOf(r), MP!Shown(r)>>
    BY <1>1 DEF MP!WorkflowProof
  <2>2. PICK i \in DOMAIN ghRuns : r = ghRuns[i]
    BY <2>1 DEF MP!Newest
  <2>3. ghRuns \in Seq(MP!RunType)
    BY DEF MP!MergeInv, MP!MergeShape
  <2>4. r \in MP!RunType
    BY <2>2, <2>3
  <2>5. r.ran \subseteq MP!Family
    BY <2>4 DEF MP!RunType
  <2>6. MP!Shown(r) \subseteq MP!Family \cup {"exempt", "python_job"}
    BY <2>5 DEF MP!Shown
  <2> QED BY <2>1, <2>6
<1>2. ghPr = [head |-> ghPr.head, merged |-> ghPr.merged, onto |-> ghPr.onto, by |-> ghPr.by]
  BY DEF MP!MergeInv, MP!MergeShape
<1>3. ghPr'.by \in {"nobody", "script"}
  BY <1>2 DEF MP!MergeTypeOK, MP!MergeNext, MP!ReadPR, MP!ReadExemption, MP!ReadCI, MP!ReadE2E, MP!ReadMain,
     MP!RecheckPR, MP!RecheckMain, MP!Merge, MP!Confirm, MP!MergeMove, MP!Fixed, mergeVars
<1>4. tested' \subseteq MP!Family \cup {"exempt", "python_job"}
  <2>1. CASE UNCHANGED tested
    BY <2>1 DEF MP!MergeTypeOK
  <2>2. ASSUME NEW wf, NEW p \in MP!WorkflowProof(wf), tested' \in {p[2], tested \cup p[2]}
        PROVE  tested' \subseteq MP!Family \cup {"exempt", "python_job"}
    BY <1>1, <2>2 DEF MP!MergeTypeOK
  <2>3. CASE MP!ReadExemption
    BY <2>1, <2>3 DEF MP!ReadExemption
  <2>4. CASE MP!ReadCI
    BY <2>1, <2>2, <2>4 DEF MP!ReadCI, MP!Refuse
  <2>5. CASE MP!ReadE2E
    BY <2>1, <2>2, <2>5 DEF MP!ReadE2E, MP!Refuse
  <2>6. CASE \/ MP!ReadPR \/ MP!ReadMain \/ MP!RecheckPR \/ MP!RecheckMain \/ MP!Merge \/ MP!Confirm
             \/ MP!MergeMove \/ UNCHANGED mergeVars
    <3>1. UNCHANGED tested
      BY <2>6 DEF MP!ReadPR, MP!ReadMain, MP!RecheckPR, MP!RecheckMain, MP!Merge, MP!Confirm,
         MP!MergeMove, MP!Refuse, mergeVars
    <3> QED BY <2>1, <3>1
  <2> QED BY <2>3, <2>4, <2>5, <2>6 DEF MP!MergeNext
<1>5. mpc' \in {"start", "exempt", "ci", "e2e", "main", "recheck", "recheck_main", "merge", "confirm", "done"}
  BY DEF MP!MergeTypeOK, MP!MergeNext, MP!ReadPR, MP!ReadExemption, MP!ReadCI, MP!ReadE2E, MP!ReadMain,
     MP!RecheckPR, MP!RecheckMain, MP!Merge, MP!Confirm, MP!MergeMove, MP!Refuse, mergeVars
<1>6. refused' \in BOOLEAN
  BY DEF MP!MergeTypeOK, MP!MergeNext, MP!ReadPR, MP!ReadExemption, MP!ReadCI, MP!ReadE2E, MP!ReadMain,
     MP!RecheckPR, MP!RecheckMain, MP!Merge, MP!Confirm, MP!MergeMove, MP!Refuse, mergeVars
<1> QED BY <1>3, <1>4, <1>5, <1>6 DEF MP!MergeTypeOK

(* CISuccess: the rows of a tick are of open pull requests, as is whatever  *)
(* the watchdog or the PM has at work.                                      *)
LEMMA ReconcileTypesStart == CU!ReconcileInit => CU!ReconcileTypeOK
<1> SUFFICES ASSUME CU!ReconcileInit PROVE CU!ReconcileTypeOK
  OBVIOUS
<1>1. /\ pull \in [CU!PR -> [head : {0}, label : {"awaiting", "review"}, appears : {TRUE},
                             green : BOOLEAN, marker : BOOLEAN]]
      /\ sentinel \in [CU!PR -> {CU!NoEvent, [CU!NoEvent EXCEPT !.status = "pending"]}]
      /\ handoff = [pr \in CU!PR |-> [h \in CU!Head0 |-> "none"]]
  BY DEF CU!ReconcileInit
<1>2. dog.pc = "off" /\ pm.pc = "off" /\ dogRows = <<>> /\ dogChecks = 0
  BY DEF CU!ReconcileInit, CU!Off
<1>3. ASSUME NEW pr \in CU!PR
      PROVE  /\ sentinel[pr].status \in {"none", "pending"} /\ sentinel[pr].resolution = "none"
             /\ pull[pr].label \in {"awaiting", "review"} /\ \A h \in CU!Head0 : handoff[pr][h] = "none"
  <2>1. CU!NoEvent.status = "none" /\ CU!NoEvent.resolution = "none"
    BY DEF CU!NoEvent
  <2>2. PICK e : e = [CU!NoEvent EXCEPT !.status = "pending"]
    OBVIOUS
  <2>3. e.status = "pending" /\ e.resolution = "none"
    BY <2>2 DEF CU!NoEvent
  <2>4. sentinel[pr] \in {CU!NoEvent, e}
    BY <1>1, <2>2
  <2>5. pull[pr].label \in {"awaiting", "review"} /\ \A h \in CU!Head0 : handoff[pr][h] = "none"
    BY <1>1
  <2> QED BY <2>1, <2>3, <2>4, <2>5
<1>4. DOMAIN dogRows = {}
  BY <1>2
<1> QED BY <1>2, <1>3, <1>4, ReconcileAssumption DEF CU!ReconcileTypeOK, CU!Labels

(* The rows that are left have a first one.                                 *)
LEMMA FirstRow ==
  ASSUME CU!ReconcileTypeOK, DOMAIN dogRows # {} PROVE CU!First \in DOMAIN dogRows
<1>1. PICK S : S = DOMAIN dogRows
  OBVIOUS
<1>2. S \subseteq Nat /\ S # {}
  BY <1>1, ReconcileAssumption DEF CU!ReconcileTypeOK
<1>3. \E i \in S : \A k \in S : i <= k
  BY <1>2, LeastNumber
<1>4. CU!First = CHOOSE i \in S : \A k \in S : i <= k
  BY <1>1 DEF CU!First
<1> QED BY <1>1, <1>3, <1>4

EventsOK ==
    \A pr \in CU!PR :
        /\ sentinel[pr].status \in {"none", "pending", "in_progress", "resolved", "superseded"}
        /\ sentinel[pr].resolution \in {"none", "merge_ready", "blocked", "superseded", "head_drift"}

AtWorkOK ==
    /\ dogChecks \in 0 .. MaxChecks /\ DOMAIN dogRows \subseteq DOMAIN PRList
    /\ \A i \in DOMAIN dogRows : dogRows[i].pr \in CU!PR
    /\ dog.pc \notin {"off", "row"} => dog.pr \in CU!PR
    /\ pm.pc # "off" => /\ pm.pr \in CU!PR
                        /\ pm.wants \in {"merge_ready", "blocked", "codex_followup", "superseded"}

LEMMA SentinelGoes ==
  ASSUME CU!ReconcileTypeOK, NEW event,
         event.status \in {"none", "pending", "in_progress", "resolved", "superseded"},
         event.resolution \in {"none", "merge_ready", "blocked", "superseded", "head_drift"},
         \A pr \in CU!PR : sentinel'[pr] = event \/ sentinel'[pr] = sentinel[pr]
  PROVE  EventsOK'
BY DEF CU!ReconcileTypeOK, EventsOK

LEMMA EventsTyped ==
  ASSUME CU!ReconcileInv, CU!ReconcileTypeOK, CU!ReconcileNext \/ UNCHANGED greenVars
  PROVE  EventsOK'
<1>0. sentinel = [pr \in CU!PR |-> sentinel[pr]]
  BY DEF CU!ReconcileInv, CU!ReconcileShape
<1>1. CASE UNCHANGED sentinel
  BY <1>1 DEF CU!ReconcileTypeOK, EventsOK
<1>2. CASE CU!WritePending \/ CU!WritePromoted
  <2>1. PICK event : /\ sentinel' = [sentinel EXCEPT ![dog.pr] = event]
                     /\ event.status \in {"pending", "resolved"} /\ event.resolution \in {"none", "merge_ready"}
    <3>1. CASE CU!WritePending
      <4> DEFINE event == [status |-> "pending", head |-> dog.head, resolution |-> "none"]
      <4>1. sentinel' = [sentinel EXCEPT ![dog.pr] = event]
        BY <3>1 DEF CU!WritePending
      <4>2. event.status = "pending" /\ event.resolution = "none"
        OBVIOUS
      <4> HIDE DEF event
      <4> QED BY <4>1, <4>2
    <3>2. CASE CU!WritePromoted
      <4> DEFINE event == [status |-> "resolved", head |-> dog.head, resolution |-> "merge_ready"]
      <4>1. sentinel' = [sentinel EXCEPT ![dog.pr] = event]
        BY <3>2 DEF CU!WritePromoted
      <4>2. event.status = "resolved" /\ event.resolution = "merge_ready"
        OBVIOUS
      <4> HIDE DEF event
      <4> QED BY <4>1, <4>2
    <3> QED BY <1>2, <3>1, <3>2
  <2>2. \A pr \in CU!PR : sentinel'[pr] = event \/ sentinel'[pr] = sentinel[pr]
    BY <1>0, <2>1
  <2> QED BY <2>1, <2>2, SentinelGoes
<1>3. ASSUME NEW pr \in CU!PR, CU!Claim(pr)
      PROVE  \E event : /\ sentinel' = [sentinel EXCEPT ![pr] = event]
                        /\ event.status \in {"superseded", "in_progress"}
                        /\ event.resolution \in {"head_drift", sentinel[pr].resolution}
  <2>1. \/ sentinel' = [sentinel EXCEPT ![pr] = [status |-> "superseded", head |-> sentinel[pr].head,
                                                  resolution |-> "head_drift"]]
        \/ sentinel' = [sentinel EXCEPT ![pr] = [status |-> "in_progress", head |-> sentinel[pr].head,
                                                  resolution |-> sentinel[pr].resolution]]
    BY <1>3 DEF CU!Claim
  <2> QED BY <2>1
<1>4. ASSUME NEW pr \in CU!PR, CU!Claim(pr) PROVE EventsOK'
  <2>1. PICK event : /\ sentinel' = [sentinel EXCEPT ![pr] = event]
                     /\ event.status \in {"superseded", "in_progress"}
                     /\ event.resolution \in {"head_drift", sentinel[pr].resolution}
    BY <1>3, <1>4
  <2>2. event.resolution \in {"none", "merge_ready", "blocked", "superseded", "head_drift"}
    BY <2>1 DEF CU!ReconcileTypeOK
  <2>3. \A n \in CU!PR : sentinel'[n] = event \/ sentinel'[n] = sentinel[n]
    BY <1>0, <2>1
  <2> QED BY <2>1, <2>2, <2>3, SentinelGoes
<1>5. CASE CU!WriteResolved
  <2>1. PICK event : event = CU!Settlement(pm.wants, sentinel[pm.pr].head)
    OBVIOUS
  <2>2. pm.wants \in {"merge_ready", "blocked", "codex_followup", "superseded"}
    BY <1>5 DEF CU!WriteResolved, CU!ReconcileTypeOK
  <2>3. event.status \in {"superseded", "resolved"} /\ event.resolution \in {"blocked", "merge_ready", "superseded"}
    BY <2>1, <2>2 DEF CU!Settlement
  <2>4. sentinel' = [sentinel EXCEPT ![pm.pr] = event]
    BY <1>5, <2>1 DEF CU!WriteResolved
  <2>5. \A n \in CU!PR : sentinel'[n] = event \/ sentinel'[n] = sentinel[n]
    BY <1>0, <2>4
  <2> QED BY <2>3, <2>5, SentinelGoes
<1> QED BY <1>1, <1>2, <1>4, <1>5
        DEF CU!ReconcileNext, CU!DogNext, CU!PmNext, CU!Tick, CU!Row, CU!EndTick, CU!Guard, CU!TakeLock,
            CU!Decide, CU!Wake, CU!DogPromote, CU!Resolve, CU!PmPromote, CU!Close, CU!Dies, CU!PullMove, greenVars

(* What a promotion leaves of the process at work.                          *)
LEMMA PromoteStays ==
  ASSUME NEW p \in {dog, pm}, NEW q, NEW isDog \in BOOLEAN, CU!PromoteStep(p, q, isDog),
         p = [pc |-> p.pc, pr |-> p.pr, head |-> p.head, label |-> p.label, wants |-> p.wants]
  PROVE  q.pc = "off" \/ (q.pr = p.pr /\ q.wants = p.wants)
<1>1. q \in {CU!Unpromoted(p, isDog), CU!Promoted(p, isDog), [p EXCEPT !.pc = "ledger"], [p EXCEPT !.pc = "alert"]}
  BY DEF CU!PromoteStep
<1>2. CASE q = CU!Off
  BY <1>2 DEF CU!Off
<1>3. CASE \E c : q = [p EXCEPT !.pc = c]
  BY <1>3
<1> QED BY <1>1, <1>2, <1>3 DEF CU!Unpromoted, CU!Promoted

LEMMA AtWorkTyped ==
  ASSUME CU!ReconcileInv, CU!ReconcileTypeOK, CU!ReconcileNext \/ UNCHANGED greenVars
  PROVE  AtWorkOK'
<1> USE ReconcileAssumption
<1>0. /\ dogChecks \in 0 .. MaxChecks /\ DOMAIN dogRows \subseteq DOMAIN PRList
      /\ \A i \in DOMAIN dogRows : dogRows[i].pr \in CU!PR
      /\ dog.pc \notin {"off", "row"} => dog.pr \in CU!PR
      /\ pm.pc # "off" => /\ pm.pr \in CU!PR
                          /\ pm.wants \in {"merge_ready", "blocked", "codex_followup", "superseded"}
      /\ dog = [pc |-> dog.pc, pr |-> dog.pr, head |-> dog.head, label |-> dog.label, wants |-> dog.wants]
      /\ pm = [pc |-> pm.pc, pr |-> pm.pr, head |-> pm.head, label |-> pm.label, wants |-> pm.wants]
  BY DEF CU!ReconcileTypeOK, CU!ReconcileInv, CU!ReconcileShape
<1> DEFINE Rows == /\ dogChecks' \in 0 .. MaxChecks /\ DOMAIN dogRows' \subseteq DOMAIN PRList
                   /\ \A i \in DOMAIN dogRows' : dogRows'[i].pr \in CU!PR
           Dog == dog'.pc \notin {"off", "row"} => dog'.pr \in CU!PR
           Pm == pm'.pc # "off" => /\ pm'.pr \in CU!PR
                                   /\ pm'.wants \in {"merge_ready", "blocked", "codex_followup", "superseded"}
<1>1. ASSUME UNCHANGED <<dogRows, dogChecks>> PROVE Rows
  BY <1>0, <1>1
<1>2. ASSUME dogRows' = <<>>, dogChecks' = 0 PROVE Rows
  <2>1. DOMAIN dogRows' = {}
    BY <1>2
  <2> QED BY <1>2, <2>1
<1>3. ASSUME dog'.pc \in {"off", "row"} \/ (dog'.pr = dog.pr /\ dog.pc \notin {"off", "row"}) PROVE Dog
  BY <1>0, <1>3
<1>4. ASSUME UNCHANGED pm PROVE Pm
  BY <1>0, <1>4
<1>5. CASE CU!Tick
  <2>1. UNCHANGED pm /\ dogChecks' = 0 /\ dog'.pc = "row"
    BY <1>5 DEF CU!Tick, CU!Off
  <2>2. PICK S \in SUBSET DOMAIN PRList :
          dogRows' = [i \in S |-> [pr |-> PRList[i], head |-> pull[PRList[i]].head, label |-> pull[PRList[i]].label]]
    BY <1>5 DEF CU!Tick
  <2>3. DOMAIN dogRows' = S /\ \A i \in S : dogRows'[i].pr = PRList[i]
    BY <2>2
  <2> QED BY <1>3, <1>4, <2>1, <2>3 DEF CU!PR, AtWorkOK
<1>6. CASE CU!Row
  <2>1. /\ UNCHANGED pm /\ DOMAIN dogRows # {}
        /\ dogRows' = [i \in DOMAIN dogRows \ {CU!First} |-> dogRows[i]]
    BY <1>6 DEF CU!Row
  <2>2. \/ dog'.pc = "row" /\ UNCHANGED dogChecks
        \/ /\ dogChecks < MaxChecks /\ dogChecks' = dogChecks + 1
           /\ dog'.pr = dogRows[CU!First].pr
    BY <1>6 DEF CU!Row, CU!NextRow, CU!Off
  <2>3. CU!First \in DOMAIN dogRows
    BY <2>1, FirstRow
  <2>4. DOMAIN dogRows' \subseteq DOMAIN dogRows /\ \A i \in DOMAIN dogRows' : dogRows'[i] = dogRows[i]
    BY <2>1
  <2>5. dogChecks' \in 0 .. MaxChecks
    BY <1>0, <2>2
  <2> QED BY <1>0, <1>4, <2>1, <2>2, <2>3, <2>4, <2>5 DEF AtWorkOK
<1>7. CASE CU!EndTick
  BY <1>2, <1>3, <1>4, <1>7 DEF CU!EndTick, CU!Off, AtWorkOK
<1>8. CASE CU!Guard \/ CU!TakeLock \/ CU!Decide \/ CU!WritePending \/ CU!Wake \/ CU!WritePromoted
  <2>1. UNCHANGED <<pm, dogRows, dogChecks>> /\ dog.pc \notin {"off", "row"}
    BY <1>8 DEF CU!Guard, CU!TakeLock, CU!Decide, CU!WritePending, CU!Wake, CU!WritePromoted
  <2>2. CU!NextRow \/ \E c : dog' = [dog EXCEPT !.pc = c]
    BY <1>8 DEF CU!Guard, CU!TakeLock, CU!Decide, CU!WritePending, CU!Wake, CU!WritePromoted
  <2>3. dog'.pc = "row" \/ dog'.pr = dog.pr
    <3>1. ASSUME NEW c, dog' = [dog EXCEPT !.pc = c] PROVE dog'.pr = dog.pr
      BY <1>0, <3>1
    <3> QED BY <2>2, <3>1 DEF CU!NextRow, CU!Off
  <2> QED BY <1>1, <1>3, <1>4, <2>1, <2>3 DEF AtWorkOK
<1>9. CASE CU!DogPromote
  <2>1. UNCHANGED <<pm, dogRows, dogChecks>> /\ dog.pc \notin {"off", "row"} /\ CU!PromoteStep(dog, dog', TRUE)
    BY <1>9 DEF CU!DogPromote, CU!PromoteStep
  <2>2. PICK p, q : p = dog /\ q = dog'
    OBVIOUS
  <2>3. q.pc = "off" \/ q.pr = p.pr
    BY <1>0, <2>1, <2>2, PromoteStays
  <2> QED BY <1>1, <1>3, <1>4, <2>1, <2>2, <2>3 DEF AtWorkOK
<1>10. CASE CU!PmPromote
  <2>1. UNCHANGED <<dog, dogRows, dogChecks>> /\ pm.pc # "off" /\ CU!PromoteStep(pm, pm', FALSE)
    BY <1>10 DEF CU!PmPromote, CU!PromoteStep
  <2>2. PICK p, q : p = pm /\ q = pm'
    OBVIOUS
  <2>3. q.pc = "off" \/ (q.pr = p.pr /\ q.wants = p.wants)
    BY <1>0, <2>1, <2>2, PromoteStays
  <2> QED BY <1>0, <1>1, <2>1, <2>2, <2>3 DEF AtWorkOK
<1>11. ASSUME NEW pr \in CU!PR, CU!Claim(pr) PROVE AtWorkOK'
  <2>1. UNCHANGED <<dog, pm, dogRows, dogChecks>>
    BY <1>11 DEF CU!Claim
  <2> QED BY <1>0, <1>1, <1>4, <2>1 DEF AtWorkOK
<1>12. ASSUME NEW pr \in CU!PR, NEW wants \in {"merge_ready", "blocked", "codex_followup", "superseded"},
              CU!Resolve(pr, wants)
       PROVE  AtWorkOK'
  <2>1. UNCHANGED <<dog, dogRows, dogChecks>> /\ pm'.pr = pr /\ pm'.wants = wants
    BY <1>12 DEF CU!Resolve
  <2> QED BY <1>0, <1>1, <2>1 DEF AtWorkOK
<1>13. CASE CU!Close \/ CU!WriteResolved
  <2>1. UNCHANGED <<dog, dogRows, dogChecks>> /\ pm.pc # "off"
    BY <1>13 DEF CU!Close, CU!WriteResolved
  <2>2. pm' = CU!Off \/ pm' = [pm EXCEPT !.pc = "write"]
    BY <1>13 DEF CU!Close, CU!WriteResolved
  <2>3. pm'.pc = "off" \/ (pm'.pr = pm.pr /\ pm'.wants = pm.wants)
    BY <1>0, <2>2 DEF CU!Off
  <2> QED BY <1>0, <1>1, <2>1, <2>3 DEF AtWorkOK
<1>14. CASE CU!Dies
  <2>1. \/ dog'.pc = "off" /\ dogRows' = <<>> /\ dogChecks' = 0 /\ UNCHANGED pm
        \/ pm'.pc = "off" /\ UNCHANGED <<dog, dogRows, dogChecks>>
    BY <1>14 DEF CU!Dies, CU!Off
  <2> QED BY <1>0, <1>1, <1>2, <1>4, <2>1 DEF AtWorkOK
<1>15. CASE CU!PullMove \/ UNCHANGED greenVars
  <2>1. UNCHANGED <<dog, pm, dogRows, dogChecks>>
    BY <1>15 DEF CU!PullMove, greenVars
  <2> QED BY <1>0, <1>1, <1>4, <2>1 DEF AtWorkOK
<1> HIDE DEF Rows, Dog, Pm
<1> QED BY <1>5, <1>6, <1>7, <1>8, <1>9, <1>10, <1>11, <1>12, <1>13, <1>14, <1>15
        DEF CU!ReconcileNext, CU!DogNext, CU!PmNext

LEMMA ReconcileTypesGo ==
  ASSUME CU!ReconcileInv, CU!ReconcileInv', CU!ReconcileTypeOK, CU!ReconcileNext \/ UNCHANGED greenVars
  PROVE  CU!ReconcileTypeOK'
<1>1. \A pr \in CU!PR : pull'[pr].label \in CU!Labels /\ \A h \in CU!Head0 : handoff'[pr][h] \in {"none", "pending", "sent"}
  BY DEF CU!ReconcileInv, CU!ReconcileShape
<1> QED BY <1>1, EventsTyped, AtWorkTyped DEF CU!ReconcileTypeOK, EventsOK, AtWorkOK

-----------------------------------------------------------------------------
(* The programs of the pool together.                                       *)
PoolInv ==
    /\ program = "contract" => CR!ContractInv
    /\ program = "gate" => GT!GateInv
    /\ program = "cleanpr" => CP!CleanupInv
    /\ program = "promote" => BP!PromotionInv
    /\ program = "todo" => TD!TodoRepairInv
    /\ program = "pick" => RP!PickInv
    /\ program = "hell" => DH!HellInv

LEMMA PoolStarts == WorkProgramsInit => PoolInv
<1> SUFFICES ASSUME WorkProgramsInit PROVE PoolInv
  OBVIOUS
<1>1. /\ program = "contract" => CR!RepairInit
      /\ program = "gate" => GT!GateInit
      /\ program = "cleanpr" => CP!CleanupInit
      /\ program = "promote" => BP!PromotionInit
      /\ program = "todo" => TD!TodoRepairInit
      /\ program = "pick" => RP!PickInit
      /\ program = "hell" => DH!HellInit
  BY DEF WorkProgramsInit
<1> QED BY <1>1, RepairStarts, GateStarts, CleanupStarts, PromotionStarts, TodoStarts, PickStarts, HellStarts
        DEF PoolInv

LEMMA SettledRests == UNCHANGED greenVars => CU!SettledStaysStep
<1> SUFFICES ASSUME UNCHANGED greenVars PROVE CU!SettledStaysStep
  OBVIOUS
<1>1. sentinel' = sentinel
  BY DEF greenVars
<1> QED BY <1>1 DEF CU!SettledStaysStep

LEMMA PoolGoes ==
  ASSUME PoolInv, EvidenceInv, [WorkProgramsNext]_workProgramsVars PROVE PoolInv' /\ SettledStaysStep
<1>1. program' = program
  BY DEF WorkProgramsNext, workProgramsVars
<1>2. ASSUME program = "contract" PROVE CR!ContractInv'
  <2>1. CR!ContractInv
    BY <1>2 DEF PoolInv
  <2>2. CR!RepairNext \/ UNCHANGED contractVars
    BY <1>2 DEF WorkProgramsNext, workProgramsVars
  <2> QED BY <2>1, <2>2, RepairGoes
<1>3. ASSUME program = "gate" PROVE GT!GateInv'
  <2>1. GT!GateInv
    BY <1>3 DEF PoolInv
  <2>2. GT!GateNext \/ UNCHANGED gateVars
    BY <1>3 DEF WorkProgramsNext, workProgramsVars
  <2> QED BY <2>1, <2>2, GateGoes
<1>4. ASSUME program = "cleanpr" PROVE CP!CleanupInv' /\ CP!UnknownKeptStep
  <2>1. CP!CleanupInv
    BY <1>4 DEF PoolInv
  <2>2. CP!CleanupNext \/ UNCHANGED cleanprVars
    BY <1>4 DEF WorkProgramsNext, workProgramsVars
  <2> QED BY <2>1, <2>2, CleanupGoes, UnknownsAreKept
<1>5. ASSUME program = "promote" PROVE BP!PromotionInv'
  <2>1. BP!PromotionInv
    BY <1>5 DEF PoolInv
  <2>2. BP!PromotionNext \/ UNCHANGED promoteVars
    BY <1>5 DEF WorkProgramsNext, workProgramsVars
  <2> QED BY <2>1, <2>2, PromotionGoes
<1>6. ASSUME program = "todo" PROVE TD!TodoRepairInv' /\ TD!ProposedTextKeptStep
  <2>1. TD!TodoRepairInv
    BY <1>6 DEF PoolInv
  <2>2. TD!TodoRepairNext \/ UNCHANGED todoVars
    BY <1>6 DEF WorkProgramsNext, workProgramsVars
  <2> QED BY <2>1, <2>2, TodoGoes
<1>7. ASSUME program = "green" PROVE CU!SettledStaysStep
  <2>1. CU!ReconcileInv
    BY <1>7 DEF EvidenceInv
  <2>2. CU!ReconcileNext \/ UNCHANGED greenVars
    BY <1>7 DEF WorkProgramsNext, workProgramsVars
  <2> QED BY <2>1, <2>2, ReconcileStep, SettledRests
<1>8. ASSUME program = "pick" PROVE RP!PickInv'
  <2>1. RP!PickInv
    BY <1>8 DEF PoolInv
  <2>2. RP!PickNext \/ UNCHANGED pickVars
    BY <1>8 DEF WorkProgramsNext, workProgramsVars
  <2> QED BY <2>1, <2>2, PickGoes
<1>9. ASSUME program = "hell" PROVE DH!HellInv'
  <2>1. DH!HellInv
    BY <1>9 DEF PoolInv
  <2>2. DH!HellNext \/ UNCHANGED hellVars
    BY <1>9 DEF WorkProgramsNext, workProgramsVars
  <2> QED BY <2>1, <2>2, HellGoes
<1>10. PoolInv'
  BY <1>1, <1>2, <1>3, <1>4, <1>5, <1>6, <1>8, <1>9 DEF PoolInv
<1> QED BY <1>4, <1>6, <1>7, <1>10 DEF SettledStaysStep

(* Of ready-pool-contract-repair.py, for any number of coordinators, issues *)
(* and edits by people: the state file names the coordinator at work, which *)
(* is alone under the lock; a body it repaired is complete when it is read  *)
(* again; an edit that was there when the pin was checked is kept.          *)
THEOREM RepairsAreKept == WorkProgramsSpec => []RepairsSettle
<1>1. PoolInv => RepairsSettle
  BY RepairsAreSettled DEF PoolInv, RepairsSettle
<1> QED BY <1>1, PoolStarts, PoolGoes, EvidenceStarts, EvidenceGoes, PTL DEF WorkProgramsSpec

(* Of ready-pool-assignment-gate.py, for any number of pull requests,       *)
(* issues, heads and runs over its caches: no issue is recommended over a   *)
(* boundary that waited through all reads, and what is said of a pull       *)
(* request is of the head that it has, unless it moved meanwhile.           *)
THEOREM GatesAreHeld == WorkProgramsSpec => []GateHolds
<1>1. PoolInv => GateHolds
  BY GatesHold DEF PoolInv, GateHolds
<1> QED BY <1>1, PoolStarts, PoolGoes, EvidenceStarts, EvidenceGoes, PTL DEF WorkProgramsSpec

(* Of pm-cleanup-pr.py, for any number of crashes, calls and moves of the   *)
(* pull request: an effect is asked of GitHub once per receipt, twice only  *)
(* where a reading said that the first one did not arrive, and the reply    *)
(* that an issue is closed only after its close was read back.              *)
THEOREM EffectsAreOnce == WorkProgramsSpec => []EffectOnce
<1>1. PoolInv => EffectOnce
  BY AsksAreBounded DEF PoolInv, EffectOnce
<1> QED BY <1>1, PoolStarts, PoolGoes, EvidenceStarts, EvidenceGoes, PTL DEF WorkProgramsSpec

(* Of backlog-triage.py, for any number of issues, runs, reviews and moves  *)
(* of people: what a run reports promoted was runnable and no pull request  *)
(* when it was admitted and is todo, with one priority and owned by nobody, *)
(* if untouched since its last look; a P3 is promoted only while the pool   *)
(* is short of the target, so far as dependencies could be read; whatever   *)
(* edit fails or is rolled back, an issue keeps a status label; what a      *)
(* review rejected stays out on the same evidence; what a repair reports is *)
(* a member of the pool; no sweep follows a repair that failed.             *)
THEOREM MembersAreKept == WorkProgramsSpec => []MembersAreClean
<1>1. PoolInv => MembersAreClean
  BY PromotionsAreClean, RepairsAreMembers DEF PoolInv, MembersAreClean
<1> QED BY <1>1, PoolStarts, PoolGoes, EvidenceStarts, EvidenceGoes, PTL DEF WorkProgramsSpec

(* What one process settled no other takes back on an older read: a receipt *)
(* with a step of unknown outcome is left as it is by every later step of   *)
(* any call, once its effect is not at hand any more (pm-cleanup-pr.py),    *)
(* the watchdog does not make pending again what the PM settled for a head, *)
(* though it looked before it had the lock (ci-success-reconciliation.py),  *)
(* and a repair replaces only the text that its proposal was made for       *)
(* (backlog-triage.py).                                                     *)
THEOREM SettledIsKept == WorkProgramsSpec => SettledStays
BY PoolStarts, PoolGoes, EvidenceStarts, EvidenceGoes, PTL DEF WorkProgramsSpec, SettledStays

(* Of ready_pool_select.py, for any number of issues and edges, any widths, *)
(* depths, moves of the pool and lookups that fail: the pick of the fast    *)
(* path is the one that the full ranking gives, when every request is       *)
(* answered; no issue of a better class that could be picked waits behind   *)
(* it, unless its own dependencies could not be read; the report names      *)
(* every issue that nothing can wake, when all of the graph was read, and   *)
(* no root is one because the reads stopped short of it.                    *)
THEOREM PicksAreFirst == WorkProgramsSpec => []PickIsFirst
<1>1. PoolInv => PickIsFirst
  BY SleepersAreReported, RootsAreRead DEF PoolInv, PickIsFirst, RP!PickInv
<1> QED BY <1>1, PoolStarts, PoolGoes, EvidenceStarts, EvidenceGoes, PTL DEF WorkProgramsSpec

(* What the programs hold is of its type, all of them together.  Seven have *)
(* their types in the invariant that says what they do (PoolInv), the other *)
(* six beside it.                                                           *)
TypesInv ==
    /\ program = "debt" => HD!DebtTypeOK
    /\ program = "verdict" => CV!VerdictTypeOK
    /\ program = "merge" => MP!MergeTypeOK
    /\ program = "green" => CU!ReconcileTypeOK
    /\ program = "respawn" => RI!RespawnTypeOK
    /\ program = "queue" => PQ!QueueTypeOK

LEMMA TypesStart == WorkProgramsInit => TypesInv
<1> SUFFICES ASSUME WorkProgramsInit PROVE TypesInv
  OBVIOUS
<1>1. /\ program = "debt" => HD!DebtInit
      /\ program = "verdict" => CV!VerdictInit
      /\ program = "merge" => MP!MergeInit
      /\ program = "green" => CU!ReconcileInit
      /\ program = "respawn" => RI!RespawnInit
      /\ program = "queue" => PQ!QueueInit
  BY DEF WorkProgramsInit
<1> QED BY <1>1, DebtTypesStart, VerdictTypesStart, MergeTypesStart, ReconcileTypesStart,
        RespawnTypesStart, QueueTypesStart DEF TypesInv

LEMMA TypesGo ==
  ASSUME TypesInv, ServerInv, ServerInv', EvidenceInv, EvidenceInv', [WorkProgramsNext]_workProgramsVars
  PROVE  TypesInv'
<1>1. program' = program
  BY DEF WorkProgramsNext, workProgramsVars
<1>2. ASSUME program = "debt" PROVE HD!DebtTypeOK'
  <2>1. HD!DebtInv /\ HD!DebtInv' /\ HD!DebtTypeOK
    BY <1>1, <1>2 DEF ServerInv, TypesInv
  <2>2. HD!DebtNext \/ UNCHANGED debtVars
    BY <1>2 DEF WorkProgramsNext, workProgramsVars
  <2> QED BY <2>1, <2>2, DebtTypesGo
<1>3. ASSUME program = "verdict" PROVE CV!VerdictTypeOK'
  <2>1. CV!VerdictInv /\ CV!VerdictInv' /\ CV!VerdictTypeOK
    BY <1>1, <1>3 DEF EvidenceInv, TypesInv
  <2>2. CV!VerdictNext \/ UNCHANGED verdictVars
    BY <1>3 DEF WorkProgramsNext, workProgramsVars
  <2> QED BY <2>1, <2>2, VerdictTypesGo
<1>4. ASSUME program = "merge" PROVE MP!MergeTypeOK'
  <2>1. MP!MergeInv /\ MP!MergeTypeOK
    BY <1>4 DEF EvidenceInv, TypesInv
  <2>2. MP!MergeNext \/ UNCHANGED mergeVars
    BY <1>4 DEF WorkProgramsNext, workProgramsVars
  <2> QED BY <2>1, <2>2, MergeTypesGo
<1>5. ASSUME program = "green" PROVE CU!ReconcileTypeOK'
  <2>1. CU!ReconcileInv /\ CU!ReconcileInv' /\ CU!ReconcileTypeOK
    BY <1>1, <1>5 DEF EvidenceInv, TypesInv
  <2>2. CU!ReconcileNext \/ UNCHANGED greenVars
    BY <1>5 DEF WorkProgramsNext, workProgramsVars
  <2> QED BY <2>1, <2>2, ReconcileTypesGo
<1>6. ASSUME program = "respawn" PROVE RI!RespawnTypeOK'
  <2>1. RI!RespawnInv /\ RI!RespawnInv' /\ RI!RespawnTypeOK
    BY <1>1, <1>6 DEF ServerInv, TypesInv
  <2>2. RI!RespawnNext \/ UNCHANGED respawnVars
    BY <1>6 DEF WorkProgramsNext, workProgramsVars
  <2> QED BY <2>1, <2>2, RespawnTypesGo
<1>7. ASSUME program = "queue" PROVE PQ!QueueTypeOK'
  <2>1. PQ!QueueInv /\ PQ!QueueInv' /\ PQ!QueueTypeOK
    BY <1>1, <1>7 DEF ServerInv, TypesInv
  <2>2. PQ!QueueNext \/ UNCHANGED queueVars
    BY <1>7 DEF WorkProgramsNext, workProgramsVars
  <2> QED BY <2>1, <2>2, QueueTypesGo
<1> QED BY <1>1, <1>2, <1>3, <1>4, <1>5, <1>6, <1>7 DEF TypesInv

LEMMA OneRuns == WorkProgramsSpec => [](program \in Programs)
<1>1. WorkProgramsInit => program \in Programs
  BY DEF WorkProgramsInit
<1>2. program \in Programs /\ [WorkProgramsNext]_workProgramsVars => (program \in Programs)'
  <2>1. [WorkProgramsNext]_workProgramsVars => program' = program
    BY DEF WorkProgramsNext, workProgramsVars
  <2> QED BY <2>1 DEF Programs
<1> QED BY <1>1, <1>2, PTL DEF WorkProgramsSpec

(* Of the thirteen programs of the server and the pool, for every value of  *)
(* their constants: no queue, receipt, receipt's step, proof, row or count  *)
(* ever leaves the values it is declared for, the bounds included; so what  *)
(* the other theorems say of them is said of every state there is.          *)
THEOREM WorkTypesHold == WorkProgramsSpec => []WorkTypeOK
<1>1. program \in Programs /\ PoolInv /\ TypesInv => WorkTypeOK
  <2> SUFFICES ASSUME program \in Programs, PoolInv, TypesInv PROVE WorkTypeOK
    OBVIOUS
  <2>1. /\ program = "pick" => RP!PickTypeOK
        /\ program = "hell" => DH!HellTypeOK
        /\ program = "contract" => CR!RepairTypeOK
        /\ program = "gate" => GT!GateTypeOK
        /\ program = "promote" => BP!PromotionTypeOK
        /\ program = "todo" => TD!TodoRepairTypeOK
        /\ program = "cleanpr" => CP!CleanupTypeOK
    BY DEF PoolInv, RP!PickInv, DH!HellInv, CR!ContractInv, GT!GateInv, BP!PromotionInv,
       TD!TodoRepairInv, CP!CleanupInv, CP!CleanupShape
  <2>2. /\ program = "debt" => HD!DebtTypeOK
        /\ program = "verdict" => CV!VerdictTypeOK
        /\ program = "merge" => MP!MergeTypeOK
        /\ program = "green" => CU!ReconcileTypeOK
        /\ program = "respawn" => RI!RespawnTypeOK
        /\ program = "queue" => PQ!QueueTypeOK
    BY DEF TypesInv
  <2>3. CASE program \in {"pick", "hell", "contract", "gate"}
    BY <2>1, <2>3 DEF WorkTypeOK
  <2>4. CASE program \in {"promote", "todo", "cleanpr"}
    BY <2>1, <2>4 DEF WorkTypeOK
  <2>5. CASE program \in {"verdict", "merge", "green"}
    BY <2>2, <2>5 DEF WorkTypeOK
  <2>6. CASE program \in {"queue", "debt", "respawn"}
    BY <2>2, <2>6 DEF WorkTypeOK
  <2> QED BY <2>3, <2>4, <2>5, <2>6 DEF Programs
<1>2. WorkProgramsInit => PoolInv /\ ServerInv /\ EvidenceInv /\ TypesInv
  BY PoolStarts, ServerStarts, EvidenceStarts, TypesStart
<1>3. PoolInv /\ ServerInv /\ EvidenceInv /\ TypesInv /\ [WorkProgramsNext]_workProgramsVars
        => (PoolInv /\ ServerInv /\ EvidenceInv /\ TypesInv)'
  BY PoolGoes, ServerGoes, EvidenceGoes, TypesGo
<1> QED BY <1>1, <1>2, <1>3, OneRuns, PTL DEF WorkProgramsSpec
==============================================================================
