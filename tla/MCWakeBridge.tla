---------------------------- MODULE MCWakeBridge ----------------------------
EXTENDS WakeBridge

CONSTANT garden
MCHint == {garden}
MCAllowed == [refused |-> 1, crashes |-> 1, polls |-> 2]
=============================================================================
