-------------------------- MODULE MCEndpointLookup ---------------------------
(***************************************************************************)
(* The instance of EndpointLookup for TLC: a mounted application with a    *)
(* route of its own, and beside it a function named by a suffix; the mount *)
(* has no function, and two routes have a name in common.                  *)
(***************************************************************************)
EXTENDS EndpointLookup

Endpoint(function, name, path, base) ==
  [function |-> function, name |-> name, path |-> path, base |-> base]

MCRoutes == {<<1>>, <<1, 1>>, <<2>>}

MCIdentifiers == [r \in MCRoutes |->
  CASE r = <<1>>    -> Endpoint(Nothing, Nothing, "media", Nothing)
    [] r = <<1, 1>> -> Endpoint("video_response", "video_response", Nothing, "video")
    [] r = <<2>>    -> Endpoint("video", "media", "video_response", Nothing)]

MCAddress == [raw \in Raws |->
  CASE raw = "::1" -> "::1" [] raw = "0:0::1" -> "::1" [] raw = "10.0.0.1" -> raw
    [] OTHER -> Nothing]

\* What the rest of a behavior and the invariants depend on: the configuration
\* until every question is asked, the client until the rules are judged.
Ahead == <<stage, evaluation,
           IF stage \in {"search", "asking"} THEN lookup ELSE policy_name = Nothing,
           IF stage = "resolved" THEN identity ELSE Nothing>>
=============================================================================
