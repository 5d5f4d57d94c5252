----------------------------- MODULE MCOwnerTurn -----------------------------
(* Turns for TLC, interchangeable: the properties are safety properties, and *)
(* none of them tells one turn from another.                                *)
EXTENDS OwnerTurn, TLC

CONSTANTS k1, k2

TwoTurns == {k1, k2}
Interchangeable == Permutations(TwoTurns)

MCAllowed == [faults |-> 2, days |-> 1, crashes |-> 1, prunes |-> 1]
=============================================================================
