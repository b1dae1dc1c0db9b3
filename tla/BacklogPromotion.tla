-------------------------- MODULE BacklogPromotion --------------------------
(***************************************************************************)
(* `backlog-triage.py promote`: backlog issues become status:todo.  A run  *)
(* lists the open issues, classifies them against live reads, selects      *)
(* every P0-P2 and as many P3 as the pool lacks, and relabels one row      *)
(* after the other, looking again before and after.  A dry run can be      *)
(* reviewed; what the review rejected cools down until its evidence        *)
(* changes.  People and the assigner move the issues all the time.         *)
(***************************************************************************)
EXTENDS Naturals, FiniteSets

CONSTANTS
    Ticket,         \* issues, the older is the smaller
    Tickets,        \* what an issue may look like
    Target,         \* READY_POOL_TARGET, claimable issues
    MaxTicketMoves, \* bound: moves of GitHub
    MaxPromotions,  \* bound: runs of the script
    NULL

(* high: P0 to P2; a label of the other priority or a deprecated alias is  *)
(* extra.  runnable: no merged pull request, open child or comment of the  *)
(* PM speaks against it; handoff: the handoff preflight holds.             *)
TicketType == [
    status : SUBSET {"backlog", "todo", "progress"}, high : BOOLEAN,
    label : BOOLEAN, extra : BOOLEAN, meta : {"full", "part", "blocker"},
    waits : BOOLEAN, hold : BOOLEAN,    \* an open dependency; its label
    slot : BOOLEAN, pr : BOOLEAN, runnable : BOOLEAN, handoff : BOOLEAN,
    text : 0 .. MaxTicketMoves]

VARIABLES
    tickets,    \* GitHub
    listed, selected,
    unread,     \* members of the pool whose dependencies could not be read
    tpc, doing, admitted, looked, \* the row at work, and the two looks at it
    outcome,    \* per issue: promoted, failed, rolled_back
    review,     \* the dry run's pins and what the review accepted
    rejection,  \* per issue: the evidence a rejection was pinned to
    fresh,      \* issues nobody touched since this run listed them
    sinceLook,  \* nobody touched the row since the look after the edit
    ticketMoves, promotions

promotionVars == <<tickets, listed, selected, unread, tpc, doing, admitted, looked, outcome, review,
                   rejection, fresh, sinceLook, ticketMoves, promotions>>

Evidence(t) == [text |-> t.text, status |-> t.status, hold |-> t.hold, waits |-> t.waits]

PromotionTypeOK ==
    /\ tickets \in [Ticket -> TicketType] /\ listed \in [Ticket -> TicketType \cup {NULL}]
    /\ selected \subseteq Ticket /\ unread \subseteq Ticket
    /\ tpc \in {"idle", "classify", "rows", "admit", "relabel", "look", "clean", "verify"}
    /\ doing \in Ticket \cup {NULL} /\ admitted \in TicketType \cup {NULL}
    /\ looked \in TicketType \cup {NULL}
    /\ outcome \in [Ticket -> {NULL, "promoted", "failed", "rolled_back"}]
    /\ review \in {NULL} \cup [pins : [Ticket -> 0 .. MaxTicketMoves \cup {NULL}], accepted : SUBSET Ticket]
    /\ \A i \in Ticket : rejection[i] = NULL \/ rejection[i].text \in 0 .. MaxTicketMoves
    /\ fresh \subseteq Ticket /\ sinceLook \in BOOLEAN
    /\ ticketMoves \in 0 .. MaxTicketMoves /\ promotions \in 0 .. MaxPromotions

PromotionInit ==
    /\ tickets \in [Ticket -> Tickets] /\ listed = [i \in Ticket |-> NULL] /\ selected = {}
    /\ unread = {}
    /\ tpc = "idle" /\ doing = NULL /\ admitted = NULL /\ looked = NULL
    /\ outcome = [i \in Ticket |-> NULL] /\ review = NULL
    /\ rejection = [i \in Ticket |-> NULL] /\ fresh = Ticket /\ sinceLook = TRUE
    /\ ticketMoves = 0 /\ promotions = 0

----------------------------------------------------------------------------
(* What an issue is.                                                       *)

ContractOK(t, backlog) ==
    /\ IF backlog THEN "backlog" \in t.status ELSE t.status = {"todo"}
    /\ t.meta = "full" /\ ~t.slot
    /\ ~t.extra /\ (~backlog => t.label)

(* Both ask GitHub again, whatever snapshot the contract is judged on.     *)
Runnable(i) == tickets[i].runnable
HandoffOK(i) == tickets[i].handoff

DispatchReady(i, t, backlog) == ContractOK(t, backlog) /\ HandoffOK(i)
Claimable(t) == ContractOK(t, FALSE) /\ t.handoff /\ ~t.pr /\ ~t.waits

(* One whose dependencies cannot be read is taken to be gated.             *)
PoolCount(f, gated) ==
    Cardinality({i \in Ticket \ gated : Claimable([f[i] EXCEPT !.pr = tickets[i].pr])})

StillRejected(i, t) == rejection[i] # NULL /\ rejection[i] = Evidence(t)

(* A row of classify_promoter: clean, in need of metadata, or skipped. *)
Class(i, t) ==
    IF \/ "backlog" \notin t.status \/ t.slot \/ tickets[i].pr \/ StillRejected(i, t)
       \/ t.meta = "blocker" \/ ~HandoffOK(i) \/ ~Runnable(i) THEN "skipped"
    ELSE IF t.meta = "part" \/ t.extra THEN "metadata" ELSE "clean"

(* Wrong: the higher ones of this run do not count.                         *)
PickedUncounted(clean, gated) ==
    LET higher == {i \in clean : listed[i].high}
        low == {i \in clean : ~listed[i].high /\ ~listed[i].waits} IN
    higher \cup {i \in clean : ~listed[i].high /\ listed[i].waits}
           \cup {i \in low : PoolCount(listed, gated)
                                + Cardinality({j \in low : j < i}) < Target}

Picked(clean, gated) ==
    LET higher == {i \in clean : listed[i].high}
        ready == {i \in higher : ~listed[i].waits}
        low == {i \in clean : ~listed[i].high /\ ~listed[i].waits}
        used == PoolCount(listed, gated) + Cardinality(ready) IN
    higher \cup {i \in clean : ~listed[i].high /\ listed[i].waits}
           \cup {i \in low : used + Cardinality({j \in low : j < i}) < Target}

----------------------------------------------------------------------------
rest == <<review, rejection, ticketMoves>>

List ==
    /\ tpc = "idle" /\ promotions < MaxPromotions /\ promotions' = promotions + 1
    /\ listed' = tickets /\ tpc' = "classify" /\ fresh' = Ticket
    /\ outcome' = [i \in Ticket |-> NULL] /\ selected' = {}
    /\ unread' \in SUBSET {i \in Ticket : Claimable(tickets[i])}
    /\ UNCHANGED <<tickets, doing, admitted, looked, sinceLook, rest>>

Classify ==
    /\ tpc = "classify"
    /\ LET picked == Picked({i \in Ticket : Class(i, listed[i]) = "clean"}, unread) IN
       \/ /\ review = NULL /\ selected' = picked /\ tpc' = "rows" /\ UNCHANGED review
       \/ \* the dry run, and the review of its manifest
          /\ review = NULL /\ tpc' = "idle" /\ UNCHANGED selected
          /\ \E accepted \in SUBSET picked :
                review' = [accepted |-> accepted,
                           pins |-> [i \in Ticket |-> IF i \in picked THEN listed[i].text ELSE NULL]]
       \/ \* the apply under a review: all rows accepted with their pins, or none
          /\ review # NULL /\ review' = NULL
          /\ IF \A i \in picked : i \in review.accepted /\ review.pins[i] = listed[i].text
             THEN selected' = picked /\ tpc' = "rows"
             ELSE tpc' = "idle" /\ UNCHANGED selected
    /\ rejection' = IF review = NULL /\ review' # NULL
                    THEN [i \in Ticket |-> IF review'.pins[i] # NULL /\ i \notin review'.accepted
                                           THEN Evidence(listed[i]) ELSE rejection[i]]
                    ELSE rejection
    /\ UNCHANGED <<tickets, listed, unread, doing, admitted, looked, outcome, fresh, sinceLook,
                   ticketMoves, promotions>>

NextRow ==
    /\ tpc = "rows"
    /\ IF selected = {} THEN tpc' = "idle" /\ UNCHANGED <<selected, doing>>
       ELSE \E i \in selected :
              /\ \A j \in selected : listed[j].high => listed[i].high
              /\ doing' = i /\ selected' = selected \ {i} /\ tpc' = "admit"
    /\ UNCHANGED <<tickets, listed, unread, admitted, looked, outcome, fresh, sinceLook, promotions, rest>>

Fails(how) == outcome' = [outcome EXCEPT ![doing] = how] /\ tpc' = "rows"

(* The runnability is asked here, and not again.                           *)
Admit ==
    /\ tpc = "admit"
    /\ LET t == tickets[doing] IN
       \/ /\ DispatchReady(doing, t, TRUE) /\ Runnable(doing) /\ ~t.pr /\ t.text = listed[doing].text
          /\ admitted' = t /\ tpc' = "relabel" /\ UNCHANGED outcome
       \/ Fails("failed") /\ UNCHANGED admitted     \* not ready any more, or not readable
    /\ UNCHANGED <<tickets, listed, selected, unread, doing, looked, fresh, sinceLook, promotions, rest>>

(* An edit that is reported to have failed may have reached GitHub.        *)
Relabel ==
    /\ tpc = "relabel"
    /\ LET edited == [tickets EXCEPT ![doing].status = (@ \ admitted.status) \cup {"todo"},
                                     ![doing].label = TRUE,
                                     ![doing].hold = admitted.waits] IN
       \/ tickets' = edited /\ tpc' = "look" /\ UNCHANGED outcome
       \/ Fails("failed") /\ tickets' \in {tickets, edited}
    /\ UNCHANGED <<listed, selected, unread, doing, admitted, looked, fresh, sinceLook, promotions, rest>>

Look ==
    /\ tpc = "look" /\ sinceLook' = TRUE
    /\ \/ /\ looked' = tickets[doing] /\ tpc' = IF looked'.extra THEN "clean" ELSE "verify"
          /\ UNCHANGED outcome
       \/ Fails("failed") /\ UNCHANGED looked
    /\ UNCHANGED <<tickets, listed, selected, unread, doing, admitted, fresh, promotions, rest>>

CleanPriority ==
    /\ tpc = "clean" /\ sinceLook' = TRUE
    /\ LET edited == [tickets EXCEPT ![doing].extra = FALSE] IN
       \/ /\ tickets' = edited /\ looked' = edited[doing]
          /\ tpc' = "verify" /\ UNCHANGED outcome
       \/ Fails("failed") /\ tickets' \in {tickets, edited} /\ UNCHANGED looked
    /\ UNCHANGED <<listed, selected, unread, doing, admitted, fresh, promotions, rest>>

Verified(t) == t.status = {"todo"} /\ t.label /\ ~t.extra /\ t.meta = "full"

Restored(t) == [t EXCEPT !.status = (@ \ looked.status) \cup admitted.status]

(* The preflight of the last look is live; its failure puts the labels of  *)
(* the admission back, whatever was changed since.  Nobody asks whether    *)
(* that write worked.                                                      *)
Verify ==
    /\ tpc = "verify"
    /\ \/ ~Verified(looked) /\ Fails("failed") /\ UNCHANGED tickets
       \/ /\ Verified(looked) /\ DispatchReady(doing, looked, FALSE)
          /\ Fails("promoted") /\ UNCHANGED tickets
       \/ /\ Verified(looked) /\ ~DispatchReady(doing, looked, FALSE)
          /\ Fails("rolled_back")
          /\ tickets' \in {tickets, [tickets EXCEPT ![doing] = Restored(@)]}
    /\ UNCHANGED <<listed, selected, unread, doing, admitted, looked, fresh, sinceLook, promotions, rest>>

----------------------------------------------------------------------------
Moved(t, how) ==
    CASE how = "text" -> [t EXCEPT !.text = ticketMoves']
      [] how = "meta" -> [t EXCEPT !.text = ticketMoves', !.meta = "part"]
      [] how = "status" -> [t EXCEPT !.status = @ \cup {"progress"}]
      [] how = "slot" -> [t EXCEPT !.status = {"progress"}, !.slot = TRUE]
      [] how = "pr" -> [t EXCEPT !.pr = ~@]
      [] how = "runnable" -> [t EXCEPT !.runnable = ~@]
      [] how = "handoff" -> [t EXCEPT !.handoff = ~@]
      [] how = "extra" -> [t EXCEPT !.extra = TRUE]
      [] how = "waits" -> [t EXCEPT !.waits = ~@]

TicketMoves(i) ==
    /\ ticketMoves < MaxTicketMoves /\ ticketMoves' = ticketMoves + 1
    /\ \E how \in {"text", "meta", "status", "slot", "pr", "runnable", "handoff",
                 "extra", "waits"} :
          tickets' = [tickets EXCEPT ![i] = Moved(@, how)]
    /\ fresh' = fresh \ {i} /\ sinceLook' = (sinceLook /\ i # doing)
    /\ UNCHANGED <<listed, selected, unread, tpc, doing, admitted, looked, outcome, review, rejection, promotions>>

PromotionNext ==
    \/ List \/ Classify \/ NextRow \/ Admit \/ Relabel \/ Look \/ CleanPriority \/ Verify
    \/ \E i \in Ticket : TicketMoves(i)

PromotionSpec == PromotionInit /\ [][PromotionNext]_promotionVars

----------------------------------------------------------------------------
(* What a run reports as promoted was runnable and nobody's pull request   *)
(* when it was admitted, and can be taken: whoever changed the issue       *)
(* between the admission and the last look, it is todo and nothing else,   *)
(* its priority is one, nobody owns it and the handoff preflight holds.    *)
PromotedIsClean ==
    doing # NULL /\ outcome[doing] = "promoted" =>
        /\ admitted.runnable /\ ~admitted.pr
        /\ sinceLook => /\ Verified(tickets[doing]) /\ ~tickets[doing].slot
                        /\ tickets[doing].handoff

(* The target is a floor for P3: a P3 is promoted only while the pool, the *)
(* higher ones of the same run included, is short of it, so far as the     *)
(* dependencies of its members could be read.                              *)
FillsTheFloorOnly ==
    fresh = Ticket /\ unread = {}
        /\ (\E i \in Ticket : outcome[i] = "promoted" /\ ~tickets[i].high /\ ~tickets[i].waits) =>
        PoolCount(tickets, {}) <= Target

(* No issue drops out of every list: whatever edit fails, answers late or  *)
(* is rolled back over the change of another, a status label remains.      *)
StatusIsKept == \A i \in Ticket : tickets[i].status # {}

(* "Only durable terminal decisions cool down, and only for unchanged      *)
(* evidence": an issue the review rejected is not promoted before its      *)
(* body, its labels or its dependencies changed.                           *)
RejectedStaysOut ==
    \A i \in Ticket : outcome[i] = "promoted" /\ rejection[i] # NULL =>
        rejection[i] # Evidence(listed[i])

(* What the proofs of these carry along.  A run has taken what it selected *)
(* and not done yet, the row at work and what has an outcome.  A row has   *)
(* none before it is done, and what is looked at stays so unless touched.  *)
Working == {"admit", "relabel", "look", "clean", "verify"}
Taken == {i \in Ticket : i \in selected \/ outcome[i] # NULL \/ (tpc \in Working /\ i = doing)}

RowsAreOpen ==
    /\ \A i \in selected : outcome[i] = NULL
    /\ tpc \in Working => doing \in Ticket /\ outcome[doing] = NULL /\ doing \notin selected
    /\ tpc \in Working \ {"admit"} => /\ admitted \in TicketType /\ admitted.status # {}
                                      /\ admitted.runnable /\ ~admitted.pr
    /\ tpc \in {"clean", "verify"} => looked \in TicketType
    /\ tpc = "verify" /\ sinceLook => tickets[doing] = looked
    /\ tpc = "classify" \/ promotions = 0 => Taken = {}
    /\ IF promotions = 0 THEN tpc = "idle" ELSE listed \in [Ticket -> TicketType]

(* An issue that nobody touched is as it was listed, or taken; no row was  *)
(* rejected on what is listed of it; and when a P3 that is free to go was  *)
(* taken, it and all else that can be taken now fit the target.            *)
TakenIsAllowed ==
    /\ promotions > 0 => \A i \in Taken : ~StillRejected(i, listed[i])
    /\ fresh = Ticket /\ promotions > 0 => \A i \in Ticket :
          /\ i \notin Taken => tickets[i] = listed[i]
          /\ tickets[i].pr = listed[i].pr /\ tickets[i].waits = listed[i].waits
          /\ tickets[i].high = listed[i].high
    /\ fresh = Ticket /\ unread = {} /\ promotions > 0
         /\ (\E i \in Taken : ~listed[i].high /\ ~listed[i].waits) =>
          Cardinality({i \in Ticket : Claimable(listed[i])})
            + Cardinality({i \in Taken : ~listed[i].waits}) <= Target

PromotionInv ==
    PromotionTypeOK /\ RowsAreOpen /\ TakenIsAllowed /\ PromotedIsClean /\ StatusIsKept
=============================================================================
