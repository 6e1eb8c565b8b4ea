---------------------------- MODULE MCRelayLease ----------------------------
EXTENDS RelayLease
=============================================================================
