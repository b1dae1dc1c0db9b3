----------------------------- MODULE MCHookTurn -----------------------------
(* Instances of HookTurn for TLC: one slot, two sessions, and a history in *)
(* which h2 follows h1 and h3 is an amended h2.                            *)
EXTENDS HookTurn

CONSTANTS s1, r1, i1, b1, b2, h1, h2, h3, k1, t1, t2, w1, w2, f1, f2

Fork == {<<h1, h2>>, <<h1, h3>>}

Req(head) == [own |-> [repo |-> r1, issue |-> i1, pr |-> NULL, ref |-> b1,
                       head |-> head, work |-> NULL, claim |-> 0],
              task |-> k1]

OneLane == {Req(h1), Req(h2)}

=============================================================================
