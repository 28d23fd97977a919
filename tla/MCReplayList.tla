---------------------------- MODULE MCReplayList ----------------------------
EXTENDS ReplayList
=============================================================================
