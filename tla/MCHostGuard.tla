---------------------------- MODULE MCHostGuard -----------------------------
EXTENDS HostGuard
=============================================================================
