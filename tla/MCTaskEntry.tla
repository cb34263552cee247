---------------------------- MODULE MCTaskEntry ----------------------------
EXTENDS TaskEntry
=============================================================================
