--------------------------- MODULE MCSlotAuthority ---------------------------
(* Instances of SlotAuthority for TLC: small sets and the tuples presented. *)
EXTENDS SlotAuthority, TLC

CONSTANTS s1, s2, r1, r2, i1, i2, p1, b1, h1, h2, w1, k1, a1, t1, t2, f1, f2

Tup(repo, issue, pr, ref, head, work) ==
    [repo |-> repo, issue |-> issue, pr |-> pr, ref |-> ref,
     head |-> head, work |-> work, claim |-> 0]

Ask(t) == [own |-> t, task |-> k1]

(* Lanes that meet in the issue, in the pull request and in the branch,    *)
(* and one of another repository that meets none of them but by its issue. *)
ContendingRequests ==
    {Ask(Tup(r1, i1, NULL, NULL, NULL, NULL)),
     Ask(Tup(r1, i1, NULL, b1, NULL, w1)),
     Ask(Tup(r1, i2, p1, b1, h1, NULL)),
     Ask(Tup(r2, i1, NULL, NULL, NULL, NULL))}

=============================================================================
