---------------------------- MODULE MCOrderMoney ----------------------------
(* The order's money on an instance small enough for TLC. *)
EXTENDS OrderMoney

CONSTANTS s1, s2, w1, w2

Desk == {s1}
Support == {s1, s2}
OneWorker == {w1}
TwoWorkers == {w1, w2}

Symmetry == Permutations(Support)
=============================================================================
