-------------------------- MODULE MCPolicyUpdates ---------------------------
(***************************************************************************)
(* Instances of PolicyUpdates for TLC.                                     *)
(***************************************************************************)
EXTENDS PolicyUpdates, TLC

CONSTANTS alice, download, report, first, second

R(count, window) == [count |-> count, window |-> window]

\* Two endpoints: one has one rule, two, or none; the other has a rule or none.
MCPolicies ==
  {download :> d @@ report :> r :
     d \in {<<R(1, 1)>>, <<R(1, 2), R(2, 1)>>, <<>>}, r \in {<<R(1, 1)>>, <<>>}}
=============================================================================
