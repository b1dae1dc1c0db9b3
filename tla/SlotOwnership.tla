--------------------------- MODULE SlotOwnership ---------------------------
(***************************************************************************)
(* What the slot authority of Master of Panes promises, without tables,    *)
(* requests or turns: every slot has at most one owner, no lane has two    *)
(* slots, and every change of an owner is one step of the slot's epoch, so *)
(* a (slot, epoch) pair names one owner for ever.                          *)
(***************************************************************************)
EXTENDS Lanes

VARIABLES owner, epoch

vars == <<owner, epoch>>

TypeOK ==
    /\ owner \in [Slot -> Owner \cup {NULL}]
    /\ epoch \in [Slot -> Nat]

Init ==
    /\ owner = [s \in Slot |-> NULL]
    /\ epoch = [s \in Slot |-> 0]

(* A slot is given an owner, or a new one in place of the one it has.      *)
Grant(s) ==
    /\ owner'[s] \in Owner
    /\ \A other \in Slot \ {s} :
          owner[other] # NULL => ~ LaneClash(owner'[s], owner[other])
    /\ owner' = [owner EXCEPT ![s] = owner'[s]]
    /\ epoch' = [epoch EXCEPT ![s] = @ + 1]

(* A slot loses its owner.                                                 *)
Free(s) ==
    /\ owner[s] # NULL
    /\ owner' = [owner EXCEPT ![s] = NULL]
    /\ epoch' = [epoch EXCEPT ![s] = @ + 1]

Next == \E s \in Slot : Grant(s) \/ Free(s)

Spec == Init /\ [][Next]_vars

=============================================================================
