------------------------------ MODULE MCChord ------------------------------
(* Chord on a circle of eight points with four nodes, of which the one at 5 *)
(* starts the ring, and on one of four points with two nodes.               *)
EXTENDS Chord

CONSTANTS k1

FourNodes == {0, 3, 5, 7}
TwoNodes == {1, 3}
=============================================================================
