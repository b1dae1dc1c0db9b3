----------------------------- MODULE TodoRepair -----------------------------
(***************************************************************************)
(* `backlog-triage.py repair-ready-pool`: a dry run pins the bodies of the *)
(* incomplete status:todo issues, an agent writes proposals against those  *)
(* pins, and the apply edits the body, then the priority labels, and looks *)
(* whether the issue now is a member of the pool.  The sweep that assigns  *)
(* from the pool follows only when nothing failed.                         *)
(***************************************************************************)
EXTENDS Naturals, FiniteSets

CONSTANTS
    Card,           \* status:todo issues
    MaxCardMoves,   \* bound: moves of GitHub
    NULL

Version == 0 .. MaxCardMoves
CardType == [
    todo : BOOLEAN, missing : BOOLEAN,  \* a field of the contract is missing
    prio : BOOLEAN,                     \* the priority label is the contract's, alone
    text : Version, patched : BOOLEAN,  \* the prose, and whether the block is ours
    owned : BOOLEAN]                    \* an open pull request closes it

VARIABLES
    cards,      \* GitHub
    proposals,  \* per issue: the pin of the agent's proposal
    cardRead, left, card, dpc,
    looked2,    \* the second look, right before the edit
    results, swept,
    settled,    \* issues nobody touched since the listing or their repair
    cardMoves

cardVars == <<cards, proposals, cardRead, left, card, dpc, looked2, results, swept, settled, cardMoves>>

Results == {NULL, "superseded", "missing_proposal", "already_valid", "refused", "edit_failed",
            "not_verified", "repaired"}

TodoRepairTypeOK ==
    /\ cards \in [Card -> CardType] /\ proposals \in [Card -> Version \cup {NULL}]
    /\ cardRead \in [Card -> CardType \cup {NULL}] /\ left \subseteq Card
    /\ card \in Card \cup {NULL}
    /\ dpc \in {"dry", "agent", "list", "rows", "fresh", "owned", "body", "labels", "verify", "end", "done"}
    /\ looked2 \in CardType \cup {NULL}
    /\ results \in [Card -> Results] /\ swept \in BOOLEAN /\ settled \subseteq Card
    /\ cardMoves \in 0 .. MaxCardMoves

TodoRepairInit ==
    /\ cards \in [Card -> [todo : {TRUE}, missing : BOOLEAN, prio : BOOLEAN, text : {0},
                           patched : {FALSE}, owned : {FALSE}]]
    /\ proposals = [c \in Card |-> NULL] /\ cardRead = proposals /\ left = {} /\ card = NULL
    /\ dpc = "dry" /\ looked2 = NULL /\ results = proposals /\ swept = FALSE /\ settled = Card
    /\ cardMoves = 0

----------------------------------------------------------------------------
(* The dry run lists the incomplete ones with the hash of their bodies. *)
DryRun ==
    /\ dpc = "dry" /\ dpc' = "agent" /\ cardRead' = cards
    /\ UNCHANGED <<cards, proposals, left, card, looked2, results, swept, settled, cardMoves>>

(* The agent answers for some of them; the pin is the one it was given. *)
AgentProposes ==
    /\ dpc = "agent" /\ dpc' = "list"
    /\ \E S \in SUBSET {c \in Card : cardRead[c].todo /\ cardRead[c].missing} :
          proposals' = [c \in Card |-> IF c \in S THEN cardRead[c].text ELSE NULL]
    /\ UNCHANGED <<cards, cardRead, left, card, looked2, results, swept, settled, cardMoves>>

ApplyList ==
    /\ dpc = "list" /\ dpc' = "rows" /\ cardRead' = cards /\ left' = Card /\ settled' = Card
    /\ UNCHANGED <<cards, proposals, card, looked2, results, swept, cardMoves>>

Result(c, r) ==
    /\ results' = [results EXCEPT ![c] = r]
    /\ settled' = IF r = "repaired" THEN settled \cup {c} ELSE settled
NoResult == UNCHANGED <<results, settled>>

NextCard ==
    /\ dpc = "rows"
    /\ IF left = {} THEN dpc' = "end" /\ NoResult /\ UNCHANGED <<left, card>>
       ELSE \E c \in left :
            /\ left' = left \ {c} /\ card' = c
            /\ CASE ~cardRead[c].todo -> Result(c, "superseded") /\ UNCHANGED dpc
                 [] cardRead[c].todo /\ proposals[c] = NULL ->
                        Result(c, "missing_proposal") /\ UNCHANGED dpc
                 [] OTHER ->
                        IF ~cardRead[c].missing THEN Result(c, "already_valid") /\ UNCHANGED dpc
                        ELSE IF cardRead[c].text # proposals[c] THEN Result(c, "refused") /\ UNCHANGED dpc
                        ELSE dpc' = "fresh" /\ NoResult
    /\ UNCHANGED <<cards, proposals, cardRead, looked2, swept, cardMoves>>

Labels(t) == <<t.todo, t.prio>>

(* The body and the labels once more, as close to the edit as it gets. *)
FreshLook ==
    /\ dpc = "fresh" /\ looked2' = cards[card]
    /\ IF looked2'.text = cardRead[card].text /\ Labels(looked2') = Labels(cardRead[card])
       THEN dpc' = "owned" /\ NoResult
       ELSE dpc' = "rows" /\ Result(card, "refused")
    /\ UNCHANGED <<cards, proposals, cardRead, left, card, swept, cardMoves>>

OwnedLook ==
    /\ dpc = "owned"
    /\ IF cards[card].owned THEN dpc' = "rows" /\ Result(card, "refused")
                            ELSE dpc' = "body" /\ NoResult
    /\ UNCHANGED <<cards, proposals, cardRead, left, card, looked2, swept, cardMoves>>

EditBody ==
    /\ dpc = "body"
    /\ \/ /\ cards' = [cards EXCEPT ![card].text = cardRead[card].text, ![card].patched = TRUE,
                                    ![card].missing = FALSE]
          /\ dpc' = "labels" /\ NoResult
       \/ dpc' = "rows" /\ Result(card, "edit_failed") /\ UNCHANGED cards
    /\ UNCHANGED <<proposals, cardRead, left, card, looked2, swept, cardMoves>>

FixLabels ==
    /\ dpc = "labels"
    /\ \/ ~cardRead[card].prio /\ cards' = [cards EXCEPT ![card].prio = TRUE] /\ dpc' = "verify" /\ NoResult
       \/ cardRead[card].prio /\ dpc' = "verify" /\ NoResult /\ UNCHANGED cards
       \/ ~cardRead[card].prio /\ dpc' = "rows" /\ Result(card, "edit_failed") /\ UNCHANGED cards
    /\ UNCHANGED <<proposals, cardRead, left, card, looked2, swept, cardMoves>>

Member(t) == t.todo /\ ~t.missing /\ t.prio

VerifyRepair ==
    /\ dpc = "verify" /\ dpc' = "rows"
    /\ IF Member(cards[card]) /\ cards[card].patched /\ cards[card].text = cardRead[card].text
       THEN Result(card, "repaired") ELSE Result(card, "not_verified")
    /\ UNCHANGED <<cards, proposals, cardRead, left, card, looked2, swept, cardMoves>>

OkResults == {"superseded", "already_valid", "repaired"}

Finish ==
    /\ dpc = "end" /\ dpc' = "done"
    /\ swept' = /\ \A c \in Card : results[c] \in OkResults
                /\ \E c \in Card : results[c] \in OkResults \ {"superseded"}
    /\ UNCHANGED <<cards, proposals, cardRead, left, card, looked2, results, settled, cardMoves>>

Changes(t) ==
    {[t EXCEPT !.text = cardMoves', !.patched = FALSE, !.missing = gone] : gone \in BOOLEAN}
        \cup {[t EXCEPT !.todo = ~@], [t EXCEPT !.prio = ~@], [t EXCEPT !.owned = ~@]}

CardMoves(c) ==
    /\ cardMoves < MaxCardMoves /\ cardMoves' = cardMoves + 1 /\ settled' = settled \ {c}
    /\ \E t \in Changes(cards[c]) : cards' = [cards EXCEPT ![c] = t]
    /\ UNCHANGED <<proposals, cardRead, left, card, dpc, looked2, results, swept>>

TodoRepairNext ==
    \/ DryRun \/ AgentProposes \/ ApplyList \/ NextCard \/ FreshLook \/ OwnedLook \/ EditBody
    \/ FixLabels \/ VerifyRepair \/ Finish
    \/ \E c \in Card : CardMoves(c)

TodoRepairSpec == TodoRepairInit /\ [][TodoRepairNext]_cardVars

----------------------------------------------------------------------------
(* What is reported repaired is a member of the pool, although people      *)
(* moved it between the listing and the last look.                         *)
RepairedIsMember ==
    \A c \in settled : results[c] = "repaired" => Member(cards[c]) /\ cards[c].patched

(* The sweep never assigns from a pool one of whose issues could not be    *)
(* repaired: what was todo at the listing, or is repaired since, is whole. *)
SweepAfterAll ==
    swept => \A c \in settled : cards[c].todo => ~cards[c].missing

(* The proposal is written over the text it was made for: prose changed    *)
(* after the dry run and before the second look is kept.                   *)
ProposedTextKeptStep ==
    \A c \in Card : cards'[c].patched /\ ~cards[c].patched =>
          cards'[c].text = proposals[c] /\ looked2.text = proposals[c]
ProposedTextKept == [][ProposedTextKeptStep]_cardVars

(* What the proofs of these carry along: the card at work was listed with  *)
(* the text of its proposal, and looked at again with that text; only it   *)
(* is edited, and it has no result yet; a result without an edit is one of *)
(* the listing, which holds for the cards that nobody touched.             *)
RowAtWork == {"fresh", "owned", "body", "labels", "verify"}

ResultsAreDue ==
    /\ dpc \in {"dry", "agent", "list"} => \A c \in Card : results[c] = NULL
    /\ dpc = "rows" => \A c \in left : results[c] = NULL
    /\ dpc \in RowAtWork => /\ results[card] = NULL /\ card \notin left
                            /\ \A c \in left : results[c] = NULL
    /\ swept => dpc = "done" /\ \A c \in Card : results[c] \in OkResults

ListedHolds ==
    \A c \in settled :
        /\ results[c] \in {"superseded", "already_valid"} => cards[c] = cardRead[c]
        /\ dpc \in RowAtWork \cup {"rows"} /\ c \in left => cards[c] = cardRead[c]
        /\ results[c] = "superseded" => ~cards[c].todo
        /\ results[c] = "already_valid" => ~cards[c].missing

RowIsRead ==
    /\ dpc # "dry" => cardRead \in [Card -> CardType]
    /\ dpc \in RowAtWork => card \in Card /\ cardRead[card].text = proposals[card]
    /\ dpc \in {"owned", "body"} => looked2 \in CardType /\ looked2.text = cardRead[card].text

TodoRepairInv == TodoRepairTypeOK /\ RowIsRead /\ ResultsAreDue /\ ListedHolds /\ RepairedIsMember
=============================================================================
