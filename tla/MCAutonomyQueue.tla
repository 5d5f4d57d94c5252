-------------------------- MODULE MCAutonomyQueue --------------------------
EXTENDS AutonomyQueue, TLC
CONSTANTS j1, j2, j3, k1, k3, w1, w2

(* j1 carries a desktop_wake signal and leaves its others to the child j3;  *)
(* j1 and j2 are deduplicated against each other.                          *)
MCJob == {j1, j2, j3}
MCWake == {j1}
MCChild == (j1 :> j3)
MCKey == {k1, k3}
MCKeyOf == (j1 :> k1) @@ (j2 :> k1) @@ (j3 :> k3)
TwoWorkers == {w1, w2}
MCToken == 1..4
=============================================================================
