---------------------------- MODULE MCAutoscaler ----------------------------
(* Autoscaler with two machines and small thresholds.                        *)
EXTENDS Autoscaler, TLC

CONSTANTS a, b

TwoVMs == {a, b}
Symmetry == Permutations(VMs)

BusyOrIdle == {"over", "idle"}
NotMid == {"over", "low", "idle"}
=============================================================================
