------------------------- MODULE MCHelperSupervisor -------------------------
(* Instances of HelperSupervisor for TLC.  Connections are interchangeable,   *)
(* and so are gateway keys: Init and every action treat them alike, and the   *)
(* instances that use the symmetry check safety only.                         *)
EXTENDS HelperSupervisor, TLC

Symmetry == Permutations(Callers) \cup Permutations(Peers)

=============================================================================
