------------------------------- MODULE Lanes -------------------------------
(***************************************************************************)
(* The assignment tuple of src/src/db.ts: the lane (repository with an     *)
(* issue, a pull request and a branch) a slot is assigned to, the rules    *)
(* that make a presented tuple usable, and the conflict rule under which   *)
(* two slots may not both own a lane.                                      *)
(*                                                                         *)
(* branch and branch_ref are one value (the ref is the branch under        *)
(* refs/heads/), and so are work_kind and handoff_id (both or neither).    *)
(* claimed_at is a number that grows with time, 0 standing for null.       *)
(***************************************************************************)
EXTENDS Naturals

CONSTANTS Slot,     \* the numbered dev slots
          Repo, Issue, Pr, Branch, HeadSha, Work,
          NULL      \* SQL NULL

Tuple == [repo  : Repo,
          issue : Issue \cup {NULL},
          pr    : Pr \cup {NULL},
          ref   : Branch \cup {NULL},
          head  : HeadSha \cup {NULL},
          work  : Work \cup {NULL},
          claim : Nat]

(* What normalizeAssignmentTuple accepts; anything else is refused before  *)
(* a transaction opens.                                                    *)
Normalizable(t) ==
    /\ t.pr # NULL => t.ref # NULL /\ t.head # NULL
    /\ t.issue # NULL \/ t.pr # NULL

(* A null tuple (a free row) matches nothing, not even another null.       *)
TupleMatches(a, b) == a # NULL /\ b # NULL /\ a = b

(* Two lanes compete for the same work: within one repository they name    *)
(* the same pull request, issue or branch.                                 *)
LaneClash(t, u) ==
    /\ t.repo = u.repo
    /\ \/ t.pr # NULL    /\ t.pr = u.pr
       \/ t.issue # NULL /\ t.issue = u.issue
       \/ t.ref # NULL   /\ t.ref = u.ref

(* The identity an ownership epoch stands for. The head commit is not part *)
(* of it: it moves while the owner works.                                  *)
Owner == [repo  : Repo,
          issue : Issue \cup {NULL},
          pr    : Pr \cup {NULL},
          ref   : Branch \cup {NULL},
          work  : Work \cup {NULL},
          claim : Nat]

ASSUME NullIsNoValue ==
    NULL \notin Tuple \cup Owner \cup Issue \cup Pr \cup Branch \cup HeadSha \cup Work

OwnerOf(t) ==
    IF t = NULL THEN NULL
    ELSE [repo |-> t.repo, issue |-> t.issue, pr |-> t.pr,
          ref |-> t.ref, work |-> t.work, claim |-> t.claim]

=============================================================================
