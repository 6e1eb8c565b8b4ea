------------------------- MODULE MCTunnelController -------------------------
EXTENDS TunnelController
=============================================================================
