------------------------- MODULE MCHelperConnection -------------------------
EXTENDS HelperConnection
=============================================================================
