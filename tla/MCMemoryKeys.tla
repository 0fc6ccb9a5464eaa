---------------------------- MODULE MCMemoryKeys -----------------------------
(***************************************************************************)
(* The instance of MemoryKeys for TLC.                                     *)
(***************************************************************************)
EXTENDS MemoryKeys

CONSTANTS alice, theme, visits
=============================================================================
