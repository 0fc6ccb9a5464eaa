--------------------------- MODULE EndpointLookup ----------------------------
(***************************************************************************)
(* How a request comes by its rate and its rules: the middleware finds the *)
(* route that the router will execute and the configured names of its      *)
(* endpoint, then asks the limiter for the rate and for the rules of one   *)
(* name after another.  Each question takes the limiter's lock anew, and   *)
(* another thread may change the configuration between any two.  The rules *)
(* are then judged (PolicyEvaluation) under the identities that            *)
(* resolve_scope_identifiers finds for the client.                         *)
(*                                                                         *)
(* A request that meets a shutdown is RequestLifecycle's subject.          *)
(***************************************************************************)
EXTENDS PolicyEvaluation, SequencesExt

CONSTANTS
  Names,         \* what the limiter may be configured for
  Routes,        \* of the application: <<2>> is its second, <<2, 1>> the first mounted there
  Identifiers,   \* per route: function, name, path and base, the function's name less its suffix
  Raws,          \* what a proxy header may list, or a peer be called
  Address,       \* what ip_address makes of it: an address, or Nothing
  HeaderLength,  \* bound on the entries of a header
  MaxUpdates     \* bound on the settings that change while a request is looked up

Nothing == "nothing"

ASSUME LookupAssumption ==
  /\ IsFiniteSet(Routes) /\ Nothing \notin Names
  /\ \A r \in Routes : /\ r \in Seq(Nat) /\ r # <<>>
                       /\ \A n \in 1 .. Len(r) : SubSeq(r, 1, n) \in Routes
  /\ \A r \in Routes : DOMAIN Identifiers[r] = {"function", "name", "path", "base"}
  /\ \A r \in Routes : \A field \in DOMAIN Identifiers[r] :
       Identifiers[r][field] \in Names \cup {Nothing}
  /\ {HeaderLength, MaxUpdates} \subseteq Nat

VARIABLES
  stage,
  match,          \* per route, what its matches() says of the request
  limits, ruled,  \* _route_limits, and the names in _route_policies
  configured,     \* the names that were configured when the routes were searched
  limit_todo, rules_todo,  \* the names still to ask about
  limit_name, policy_name, \* the name whose rate, and whose rules, were found
  touched,        \* history: the settings changed since the search
  client,         \* the request's headers and peer, and trusted_proxy_headers
  identifiers     \* scope_identifiers

lookup == <<match, limits, ruled, configured, limit_todo, rules_todo, limit_name,
            policy_name, touched>>
identity == <<client, identifiers>>
-----------------------------------------------------------------------------
\* The walk over the routes.

Children(r) == {c \in Routes : Front(c) = r}

\* The slip of a route that also answers a method it does not serve.
MatchesAtAll(r) == match[r] # "none"

FullyMatches(r) == match[r] = "full"

\* _append_configured_name
AppendConfiguredName(candidates, name, configured_names) ==
  IF name \in configured_names /\ ~Contains(candidates, name) THEN Append(candidates, name)
  ELSE candidates

\* The configured names of an endpoint, each once, in the order they are tried.
HandlerNames(r, configured_names) ==
  LET Tried(candidates, name) == AppendConfiguredName(candidates, name, configured_names)
      i == Identifiers[r]
  IN  Tried(Tried(Tried(Tried(<<>>, i.function), i.name), i.path), i.base)

\* _find_configured_handler_names among the routes below r: the first full match
\* decides, by its own names or else by the routes mounted there.
FindConfiguredHandlerNames(configured_names) ==
  LET Below[r \in Routes \cup {<<>>}] ==
        LET full == {c \in Children(r) : FullyMatches(c)}
            chosen == CHOOSE c \in full : \A d \in full : Last(c) <= Last(d)
        IN  IF full = {} THEN <<>>
            ELSE LET found == HandlerNames(chosen, configured_names)
                 IN  IF found # <<>> THEN found ELSE Below[chosen]
  IN  Below[<<>>]
-----------------------------------------------------------------------------
\* Who the request is counted as.

Headers == UNION {[1 .. n -> Raws] : n \in 0 .. HeaderLength}
Clients == [forwarded : Headers, real : Headers, peer : Raws \cup {Nothing}, trusted : BOOLEAN]
Resolutions == {"raises", "empty", "user"}

\* extract_valid_ip
ValidIp(raws) ==
  LET valid == SelectSeq(raws, LAMBDA raw : Address[raw] # Nothing)
  IN  IF valid = <<>> THEN Nothing ELSE Address[Head(valid)]

\* A lookup that takes the headers at their word.
ProxiedWithoutTrust(c) ==
  IF ValidIp(c.forwarded) # Nothing THEN ValidIp(c.forwarded) ELSE ValidIp(c.real)

\* The first half of both functions, which is the same twice over.
Proxied(c) ==
  IF ~c.trusted THEN Nothing
  ELSE IF ValidIp(c.forwarded) # Nothing THEN ValidIp(c.forwarded) ELSE ValidIp(c.real)

PeerIp(c) == IF c.peer = Nothing THEN Nothing ELSE Address[c.peer]

ClientIp(c) == IF Proxied(c) # Nothing THEN Proxied(c) ELSE PeerIp(c)

ClientIdentifier(c) ==
  CASE Proxied(c) # Nothing -> Proxied(c)
    [] Proxied(c) = Nothing /\ c.peer = Nothing -> "unknown"
    [] OTHER -> IF PeerIp(c) # Nothing THEN PeerIp(c) ELSE c.peer

\* A resolver of the application's own that raises or says nothing gives way.
ScopeIdentifiers(c, resolved) ==
  LET ip == IF ClientIp(c) # Nothing THEN ClientIp(c) ELSE "unknown"
  IN  [ip |-> ip, default |-> ClientIdentifier(c),
       user |-> IF resolved = "user" THEN resolved ELSE ip]
-----------------------------------------------------------------------------
EndpointInit ==
  /\ Unasked
  /\ stage = "search"
  /\ match \in [Routes -> {"none", "partial", "full"}]
  /\ limits \in [Names -> Rates \cup {None}] /\ ruled \in SUBSET Names
  /\ configured = {}
  /\ limit_todo = <<>> /\ rules_todo = <<>>
  /\ limit_name = Nothing /\ policy_name = Nothing
  /\ touched = {}
  /\ client = Nothing /\ identifiers = Nothing

\* configured_names
ConfiguredNames == {n \in Names : limits[n] # None} \cup ruled

\* get_handler_names
Search ==
  /\ stage = "search"
  /\ stage' = "asking"
  /\ configured' = ConfiguredNames
  /\ limit_todo' = FindConfiguredHandlerNames(configured')
  /\ rules_todo' = limit_todo'
  /\ UNCHANGED <<evaluation, match, limits, ruled, limit_name, policy_name, touched, identity>>

\* One turn of _select_route_limit.
GetLimit ==
  /\ limit_todo # <<>>
  /\ LET n == Head(limit_todo)
     IN  /\ route_limit' = limits[n]
         /\ limit_name' = IF limits[n] = None THEN Nothing ELSE n
         /\ limit_todo' = IF limits[n] = None THEN Tail(limit_todo) ELSE <<>>
  /\ UNCHANGED <<rules, ip_allowed, next, matched, outcome, counted, stage, match, limits,
                 ruled, configured, rules_todo, policy_name, touched, identity>>

\* One turn of _select_policy_rules.
GetRules ==
  /\ limit_todo = <<>> /\ rules_todo # <<>>
  /\ LET n == Head(rules_todo)
     IN  /\ policy_name' = IF n \in ruled THEN n ELSE Nothing
         /\ rules_todo' = IF n \in ruled THEN <<>> ELSE Tail(rules_todo)
  /\ UNCHANGED <<evaluation, stage, match, limits, ruled, configured, limit_todo,
                 limit_name, touched, identity>>

Asked == stage = "asking" /\ limit_todo = <<>> /\ rules_todo = <<>>

\* Another thread of the process changes a setting of one name.
Touch(setting, n) ==
  /\ stage = "asking" /\ ~Asked
  /\ touched' = touched \cup {<<setting, n>>}
  /\ Cardinality(touched') <= MaxUpdates
  /\ UNCHANGED <<evaluation, stage, match, configured, limit_todo, rules_todo, limit_name,
                 policy_name, identity>>

UpdateRoute(n, rate) == Touch("limit", n) /\ limits' = [limits EXCEPT ![n] = rate] /\ UNCHANGED ruled
RemoveRoute(n) == Touch("limit", n) /\ limits' = [limits EXCEPT ![n] = None] /\ UNCHANGED ruled
UpdatePolicy(n) == Touch("rules", n) /\ ruled' = ruled \cup {n} /\ UNCHANGED limits
RemovePolicy(n) == Touch("rules", n) /\ ruled' = ruled \ {n} /\ UNCHANGED limits

\* No shutdown has begun.
Proceed ==
  /\ Asked
  /\ stage' = IF policy_name = Nothing THEN "judged" ELSE "resolving"
  /\ UNCHANGED <<evaluation, lookup, identity>>

\* resolve_scope_identifiers.  The lists were asked about the client's address
\* before all this; what they said of the allow list is first used here.
Resolve ==
  /\ stage = "resolving"
  /\ stage' = "resolved"
  /\ client' \in Clients
  /\ \E resolved \in Resolutions : identifiers' = ScopeIdentifiers(client', resolved)
  /\ ip_allowed' \in (IF ClientIp(client') = Nothing THEN {FALSE} ELSE BOOLEAN)
  /\ UNCHANGED <<rules, route_limit, next, matched, outcome, counted, lookup>>

\* What the rules are is told only now.
Judge ==
  /\ stage = "resolved"
  /\ stage' = "judged"
  /\ \E rs \in Rules : Begin(rs)
  /\ UNCHANGED <<lookup, identity>>

EndpointNext ==
  \/ Search \/ GetLimit \/ GetRules \/ Proceed \/ Resolve \/ Judge
  \/ \E n \in Names :
       \/ \E rate \in Rates : UpdateRoute(n, rate)
       \/ RemoveRoute(n) \/ UpdatePolicy(n) \/ RemovePolicy(n)
  \/ stage = "judged" /\ Evaluate /\ UNCHANGED <<stage, lookup, identity>>

EndpointSpec == EndpointInit /\ [][EndpointNext]_<<stage, evaluation, lookup, identity>>
-----------------------------------------------------------------------------
\* The router runs a route that matches fully and that no earlier one hides, in
\* every application it is mounted in.
Executed(r) ==
  \A n \in 1 .. Len(r) :
    LET s == SubSeq(r, 1, n)
    IN  /\ match[s] = "full"
        /\ \A d \in Children(Front(s)) : match[d] = "full" => Last(s) <= Last(d)

\* Whatever another thread changes meanwhile, a name of the executed endpoint that
\* keeps its rate all through the lookup is passed over only for one that the
\* documentation ranks before it, and likewise for rules; a rate or rules never
\* come from a hidden route, or from a mounted route past a configured mount
\* (docs/operations.md "Endpoint Identifiers", routing.py, middleware.py).
SettledNamesDecide ==
  LET bearers == {r \in Routes : /\ Executed(r)
                                 /\ \E field \in DOMAIN Identifiers[r] :
                                      Identifiers[r][field] \in configured}
      endpoint == Identifiers[CHOOSE r \in bearers : \A s \in bearers : Len(r) <= Len(s)]
      ranked == IF bearers = {} THEN <<>>
                ELSE <<endpoint.function, endpoint.name, endpoint.path, endpoint.base>>
      Rightly(chosen, setting, having) ==
        LET settled == {n \in DOMAIN ranked : /\ ranked[n] \in having
                                              /\ <<setting, ranked[n]>> \notin touched}
        IN  IF chosen = Nothing THEN settled = {}
            ELSE \E n \in DOMAIN ranked : ranked[n] = chosen /\ \A m \in settled : n <= m
  IN  Asked => /\ Rightly(limit_name, "limit", {n \in Names : limits[n] # None})
               /\ Rightly(policy_name, "rules", ruled)

\* The address that the lists were asked about is the one the request is counted
\* under, by either built-in scope and when a resolver fails; proxy headers are
\* believed only when trusted; a client without an address is on no allow list
\* (identity.py, where two functions must agree; docs/operations.md "Client IPs").
IdentityAgrees ==
  stage = "resolved" =>
    LET address == ClientIp(client)
        direct == [client EXCEPT !.forwarded = <<>>, !.real = <<>>]
    IN  /\ address # Nothing => identifiers.ip = address /\ identifiers.default = address
        /\ address = Nothing => identifiers.ip = "unknown" /\ ~ip_allowed
        /\ identifiers.user \in {"user", identifiers.ip}
        /\ ~client.trusted => /\ address = ClientIp(direct)
                              /\ identifiers.default = ClientIdentifier(direct)
=============================================================================
