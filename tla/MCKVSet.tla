------------------------------ MODULE MCKVSet ------------------------------
(* KVSet with more keys than entries, so that the hand turns and evicts. *)
EXTENDS KVSet, TLC

CONSTANTS k1, k2, k3, v1, v2

MCKeys == {k1, k2, k3}
MCValues == {v1, v2}

\* Keys and values are only compared.
Symmetry == Permutations(MCKeys) \cup Permutations(MCValues)
=============================================================================
