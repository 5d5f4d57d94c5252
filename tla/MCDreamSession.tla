--------------------------- MODULE MCDreamSession ---------------------------
(* Requests for TLC, interchangeable. *)
EXTENDS DreamSession, TLC

CONSTANTS e1, e2, w1

TwoEnterers == {e1, e2}
OneWaker    == {w1}

Interchangeable == Permutations({e1, e2})
=============================================================================
