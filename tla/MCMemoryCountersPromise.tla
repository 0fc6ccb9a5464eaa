---------------------- MODULE MCMemoryCountersPromise -----------------------
(***************************************************************************)
(* An instance of MemoryCountersPromise for TLC: an endpoint with two      *)
(* rules, the second of which is dropped and comes back, and another       *)
(* endpoint; three counters for one client in a table of two.              *)
(***************************************************************************)
EXTENDS MemoryCountersPromise, TLC

CONSTANTS alice, download, report

MCPolicies ==
  LET burst == [count |-> 2, window |-> 1]
      slow  == [count |-> 1, window |-> 2]
  IN  {(download :> <<burst, slow>>) @@ (report :> <<burst>>),
       (download :> <<burst>>) @@ (report :> <<burst>>)}
=============================================================================
