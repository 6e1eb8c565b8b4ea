--------------------------- MODULE MCHelperServer ---------------------------
(* Instances of HelperServer for TLC.                                         *)
EXTENDS HelperServer, TLC

=============================================================================
