----------------------------- MODULE MCEdgeAgent -----------------------------
EXTENDS EdgeAgent
=============================================================================
