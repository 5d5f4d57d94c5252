--------------------------- MODULE MCAutonomyTick ---------------------------
EXTENDS AutonomyTick
CONSTANTS wake, fact, sense

MCQueued == {wake, fact}
MCWake == {wake}
MCSensed == {sense}
=============================================================================
