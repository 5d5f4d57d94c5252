--------------------------- MODULE MCMemoryChain ---------------------------
EXTENDS MemoryChain
=============================================================================
