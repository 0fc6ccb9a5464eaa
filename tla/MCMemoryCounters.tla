-------------------------- MODULE MCMemoryCounters --------------------------
(***************************************************************************)
(* The instance of MemoryCounters for TLC.                                 *)
(***************************************************************************)
EXTENDS MemoryCounters, TLC

CONSTANTS alice, download

R(count, window) == [count |-> count, window |-> window]

\* One endpoint whose rule is changed three ways: to another limit, to another
\* window, to no rule at all.
MCChangingRule ==
  {download :> <<r>> : r \in {R(1, 2), R(2, 1), R(2, 3)}} \cup {download :> <<>>}
=============================================================================
