-------------------------- MODULE PolicyEvaluation ---------------------------
(***************************************************************************)
(* PolicyEvaluator.evaluate for one request, and what the middleware does  *)
(* with the action it selects.  EndpointLookup is the specification of     *)
(* which Evaluate is the last part.                                        *)
(*                                                                         *)
(* The evaluator takes the rules of the endpoint in turn and records one   *)
(* hit for each.  How many hits a counter holds is MemoryCounters' affair: *)
(* here each rule is over its limit or not, with some Retry-After, and the *)
(* storage may fail at any of them.                                        *)
(***************************************************************************)
EXTENDS Integers, Sequences, FiniteSets

CONSTANTS
  Rates,        \* bytes per second, of a route or a Throttle
  Delays,       \* seconds of a Delay
  RetryAfters,
  MaxRules      \* bound on the rules of an endpoint

ASSUME EvaluationAssumption ==
  /\ Rates \subseteq Nat \ {0} /\ Delays \subseteq Nat \ {0}
  /\ RetryAfters \subseteq Nat \ {0} /\ MaxRules \in Nat

VARIABLES
  rules,        \* the actions of the endpoint's rules, in their order
  route_limit,  \* the endpoint's rate, or None
  ip_allowed,   \* the client is on the allow list
  next,         \* the rule whose hit is recorded next
  matched,      \* matched_actions: the rules found over their limit
  outcome,      \* what becomes of the request
  counted       \* history: the hits recorded for each rule, late ones included

request == <<rules, route_limit, ip_allowed>>
evaluation == <<request, next, matched, outcome, counted>>

None == 0

Reject == [type |-> "reject", amount |-> 0]
Delay(seconds) == [type |-> "delay", amount |-> seconds]
Throttle(bytes_per_sec) == [type |-> "throttle", amount |-> bytes_per_sec]

Actions == {Reject} \cup {Delay(s) : s \in Delays} \cup {Throttle(b) : b \in Rates}

Priority(a) ==
  CASE a.type = "reject" -> 0 [] a.type = "delay" -> 1 [] a.type = "throttle" -> 2

\* The sort key that takes the shortest of equal-priority actions.
SortKeyOfAmount(a) == a.amount

\* Long delays and low rates first.
SortKey(a) == IF a.type = "delay" THEN -a.amount ELSE a.amount

\* sort_tuple: priority, then sort key, then the order of the rules.
Before(x, y) ==
  \/ Priority(x.action) < Priority(y.action)
  \/ /\ Priority(x.action) = Priority(y.action)
     /\ \/ SortKey(x.action) < SortKey(y.action)
        \/ SortKey(x.action) = SortKey(y.action) /\ x.order < y.order

SelectRuleAction(M) == CHOOSE x \in M : \A y \in M \ {x} : Before(x, y)

Pending == [is |-> "pending"]
Unavailable == [is |-> "unavailable"]
Rejected(retry_after) == [is |-> "rejected", retry_after |-> retry_after]
Served(delay, rate) == [is |-> "served", delay |-> delay, rate |-> rate]

\* decide() of the selected action, as the middleware applies it: a throttle
\* rate takes the place of the route's own, lower or higher.
Applied(a, retry_after) ==
  CASE a.type = "reject" -> Rejected(retry_after)
    [] a.type = "delay" -> Served(a.amount, route_limit)
    [] a.type = "throttle" -> Served(0, a.amount)
-----------------------------------------------------------------------------
Rules == UNION {[1 .. n -> Actions] : n \in 1 .. MaxRules}

\* Before the request's endpoint is known.
Unasked ==
  /\ rules = <<>> /\ route_limit = None /\ ip_allowed = FALSE
  /\ next = 1
  /\ matched = {}
  /\ outcome = Pending
  /\ counted = <<>>

\* The evaluator is given the endpoint's rules.
Begin(rs) ==
  /\ rules' = rs
  /\ counted' = [i \in DOMAIN rs |-> 0]
  /\ UNCHANGED <<route_limit, ip_allowed, next, matched, outcome>>

\* The allow list spares a client the rules, not the route's rate.
Evaluating == ~ip_allowed /\ outcome = Pending /\ next <= Len(rules)

\* An evaluator that is done with a request as soon as it must reject it.
NextAfterReject(over) ==
  IF over /\ rules[next] = Reject THEN Len(rules) + 1 ELSE next + 1

\* Every rule has its turn, whatever the ones before it concluded.
NextAfter(over) == next + 1

\* One turn of the loop in evaluate.
RecordHit(over, retry_after) ==
  /\ Evaluating
  /\ counted' = [counted EXCEPT ![next] = @ + 1]
  /\ matched' = matched \cup
       IF over THEN {[action |-> rules[next], retry_after |-> retry_after, order |-> next]} ELSE {}
  /\ next' = NextAfter(over)
  /\ UNCHANGED <<request, outcome>>

\* The storage raises: 503, and the hits recorded so far stay.  The one it raises
\* for may be among them, or become one: what is lost may be the reply only.
StorageFails ==
  /\ Evaluating
  /\ outcome' = Unavailable
  /\ counted' \in {counted, [counted EXCEPT ![next] = @ + 1]}
  /\ UNCHANGED <<request, next, matched>>

Decide ==
  /\ outcome = Pending
  /\ ~Evaluating
  /\ outcome' =
       IF matched = {} THEN Served(0, route_limit)
       ELSE LET selected == SelectRuleAction(matched)
            IN  Applied(selected.action, selected.retry_after)
  /\ UNCHANGED <<request, next, matched, counted>>

Evaluate ==
  \/ \E over \in BOOLEAN, retry_after \in RetryAfters : RecordHit(over, retry_after)
  \/ StorageFails
  \/ Decide
-----------------------------------------------------------------------------
\* The rules over their limit whose action is of one kind.
Matching(type) == {x \in matched : x.action.type = type}

\* The documented precedence, in its own words: a Reject wins over any Delay and
\* a Delay over any Throttle; of several the longest delay and the lowest rate
\* apply, and the first matching Reject of the endpoint says when to retry
\* (docs/policies.md "When Multiple Rules Match", policy.py sort_tuple).
StrongestApplied ==
  LET rejects == Matching("reject")
      delays == {x.action.amount : x \in Matching("delay")}
      rates == {x.action.amount : x \in Matching("throttle")}
  IN  CASE outcome.is = "rejected" ->
             \E x \in rejects : /\ outcome.retry_after = x.retry_after
                                /\ \A y \in rejects : x.order <= y.order
        [] outcome.is = "served" ->
             /\ rejects = {}
             /\ \A d \in delays : outcome.delay >= d
             /\ delays = {} => \A b \in rates : outcome.rate # None /\ outcome.rate <= b
             /\ outcome.delay \in delays \cup {0}
             /\ outcome.rate \in IF delays = {} /\ rates # {} THEN rates ELSE {route_limit}
        [] OTHER -> TRUE

\* Rules are evaluated independently: a request that is judged has been counted
\* once under each of its rules, also under those behind one that rejects it
\* (policy.py evaluate); one refused because the storage failed has been counted
\* once under each rule before the one it failed at, under none behind it, and
\* under that one once at most (redis.py record_hit: the script may have run
\* though its reply was lost); and one from the allow list under none.
CountedUnderEachRule ==
  LET CountedUpTo(n) == \A i \in DOMAIN rules : counted[i] = IF i <= n THEN 1 ELSE 0
  IN  CASE ip_allowed -> CountedUpTo(0)
        [] outcome = Unavailable ->
             next \in DOMAIN rules /\ \E n \in {next - 1, next} : CountedUpTo(n)
        [] OTHER -> outcome # Pending => CountedUpTo(Len(rules))
=============================================================================
