----------------------------- MODULE MCKVServer -----------------------------
(* KVServer with two clients, for pools of one and of two threads. *)
EXTENDS KVServer, TLC

CONSTANTS c1, c2, w1, w2, k1, k2, v1, v2

MCClients == {c1, c2}
OneWorker == {w1}
TwoWorkers == {w1, w2}
OneKey == {k1}
TwoKeys == {k1, k2}
OneValue == {v1}
TwoValues == {v1, v2}

Symmetry == Permutations(MCClients) \cup Permutations(TwoWorkers)
=============================================================================
