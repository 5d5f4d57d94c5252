--------------------------- MODULE MCMessageQueue ---------------------------
EXTENDS MessageQueue
CONSTANTS q1, t1
MCSession == {q1}
MCTask == Message \cup {t1}
MCHandled == Message
=============================================================================
