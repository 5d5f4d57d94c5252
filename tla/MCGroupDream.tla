---------------------------- MODULE MCGroupDream ----------------------------
EXTENDS GroupDream
=============================================================================
