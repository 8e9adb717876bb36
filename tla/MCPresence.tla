----------------------------- MODULE MCPresence -----------------------------
EXTENDS Presence
=============================================================================
