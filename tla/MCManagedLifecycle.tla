------------------------- MODULE MCManagedLifecycle -------------------------
(* Instances of ManagedLifecycle for TLC.                                     *)
EXTENDS ManagedLifecycle, TLC

Symmetry == Permutations(Creds)

=============================================================================
