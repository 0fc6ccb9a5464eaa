-------------------------- MODULE MCManagerStorage ---------------------------
(***************************************************************************)
(* The instance of ManagerStorage for TLC.                                 *)
(***************************************************************************)
EXTENDS ManagerStorage, TLC

CONSTANTS web, worker, theme

Symmetry == Permutations(Instances)
=============================================================================
