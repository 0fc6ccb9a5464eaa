---------------------------- MODULE PolicyUpdates ----------------------------
(***************************************************************************)
(* Policies changed at run time, beside the requests they rule.            *)
(*                                                                         *)
(* update_policy and remove_policy swap the rules and copy all of them     *)
(* under the limiter's lock, release it, and clean the counter table in    *)
(* two further steps, each under the storage's lock.  A request reads its  *)
(* rules once and then records one hit per rule.  Threads interleave       *)
(* between any two of these steps.                                         *)
(***************************************************************************)
EXTENDS MemoryCounters

CONSTANTS
  Updaters,   \* calls of update_policy and remove_policy, each made once
  Requests    \* requests, each made once

VARIABLES
  policies,    \* _route_policies; a handler without rules has <<>>
  updater,     \* per call: how far it is, its handler, its copy of the policies
  request,     \* per request: how far it is, and the rules it read
  \* History variables.
  generation,  \* per handler, how often its rules were replaced
  recordedBy,  \* per counter, the generations of the rules that hit it
  late,        \* per handler, the generations under evaluation at the last swap
  copied       \* per call, the generations of the rules it copied

steps == <<policies, updater, request>>
ghosts == <<generation, recordedBy, late, copied>>
updateVars == <<vars, steps, ghosts>>

Waiting == [at |-> "waiting"]
Evaluated == [at |-> "evaluated"]

UpdatesInit ==
  /\ Init
  /\ policies \in Policies
  /\ updater = [u \in Updaters |-> Waiting]
  /\ request = [q \in Requests |-> Waiting]
  /\ generation = [h \in Handlers |-> 0]
  /\ recordedBy = [c \in Counters |-> {}]
  /\ late = [h \in Handlers |-> {}]
  /\ copied = [u \in Updaters |-> generation]
-----------------------------------------------------------------------------
\* The generations of h's rules that requests are evaluating.
UnderEvaluation(h) ==
  {request[q].generation :
     q \in {r \in Requests : request[r].at = "evaluating" /\ request[r].handler = h}}

\* The copy of the rules that forgets to look beyond the endpoint it changes.
SnapshotOfOne(p, h) == [g \in Handlers |-> IF g = h THEN p[g] ELSE <<>>]

\* active_rules, copied after the swap and under the same lock.
Snapshot(p, h) == p

\* update_policy, or remove_policy when there are no rules: the swap.
Swap(u, h, rules) ==
  /\ updater[u] = Waiting
  /\ policies' = [policies EXCEPT ![h] = rules]
  /\ policies' \in Policies
  /\ updater' = [updater EXCEPT
       ![u] = [at |-> "swapped", handler |-> h, snapshot |-> Snapshot(policies', h)]]
  /\ generation' = [generation EXCEPT ![h] = @ + 1]
  /\ late' = [late EXCEPT ![h] = UnderEvaluation(h)]
  /\ copied' = [copied EXCEPT ![u] = generation']
  /\ UNCHANGED <<vars, request, recordedBy>>

\* The generations forgotten with the counters that a cleanup drops.
ForgetDropped ==
  recordedBy' = [c \in Counters |-> IF c \in DOMAIN histories' THEN recordedBy[c] ELSE {}]

\* An update that leaves the counters of its endpoint to the second cleanup.
CleanNothing(u) ==
  /\ updater[u].at = "swapped"
  /\ updater' = [updater EXCEPT ![u].at = "cleaned"]
  /\ UNCHANGED <<vars, policies, request, ghosts>>

CleanHandler(u) ==
  /\ updater[u].at = "swapped"
  /\ CleanupHandler(updater[u].handler)
  /\ updater' = [updater EXCEPT ![u].at = "cleaned"]
  /\ ForgetDropped
  /\ UNCHANGED <<policies, request, generation, late, copied>>

CleanOrphans(u) ==
  /\ updater[u].at = "cleaned"
  /\ CleanupOrphaned(updater[u].snapshot)
  /\ updater' = [updater EXCEPT ![u].at = "returned"]
  /\ ForgetDropped
  /\ UNCHANGED <<policies, request, generation, late, copied>>
-----------------------------------------------------------------------------
\* A request for handler h; keys says whom each rule counts (its scope).
ReadRules(q, h, keys) ==
  /\ request[q] = Waiting
  /\ policies[h] # <<>>
  /\ keys \in [DOMAIN policies[h] -> RequestKeys]
  /\ request' = [request EXCEPT
       ![q] = [at |-> "evaluating", handler |-> h, rules |-> policies[h],
               keys |-> keys, next |-> 1, generation |-> generation[h]]]
  /\ UNCHANGED <<vars, policies, updater, ghosts>>

\* A loop that goes one rule too far.
ProceedTooFar(r) == IF r.next > Len(r.rules) THEN Evaluated ELSE [r EXCEPT !.next = @ + 1]

Proceed(r) == IF r.next = Len(r.rules) THEN Evaluated ELSE [r EXCEPT !.next = @ + 1]

\* One turn of the evaluator's loop, whatever the rules before have concluded.
Evaluate(q) ==
  LET r == request[q]
      c == <<r.keys[r.next], r.handler, r.next>>
  IN  /\ r.at = "evaluating"
      /\ RecordHit(c, r.rules[r.next])
      /\ request' = [request EXCEPT ![q] = Proceed(r)]
      /\ recordedBy' = [d \in Counters |->
           IF d = c THEN recordedBy[d] \cup {r.generation}
           ELSE IF d \in DOMAIN histories' THEN recordedBy[d] ELSE {}]
      /\ UNCHANGED <<policies, updater, generation, late, copied>>

UpdatesTick == Tick /\ UNCHANGED <<steps, ghosts>>

UpdatesNext ==
  \/ UpdatesTick
  \/ \E u \in Updaters :
       \/ \E h \in Handlers : \E rules \in {p[h] : p \in Policies} : Swap(u, h, rules)
       \/ CleanHandler(u)
       \/ CleanOrphans(u)
  \/ \E q \in Requests :
       \/ \E h \in Handlers : \E keys \in [DOMAIN policies[h] -> RequestKeys] : ReadRules(q, h, keys)
       \/ Evaluate(q)

UpdatesSpec == UpdatesInit /\ [][UpdatesNext]_updateVars
-----------------------------------------------------------------------------
Calls == [at : {"swapped", "cleaned", "returned"}, handler : Handlers, snapshot : Policies]

\* r is a request that has read its rules from some configuration and is at one
\* of them.
IsEvaluation(r) ==
  /\ DOMAIN r = {"at", "handler", "rules", "keys", "next", "generation"}
  /\ r.at = "evaluating"
  /\ r.handler \in Handlers
  /\ \E p \in Policies : r.rules = p[r.handler]
  /\ r.keys \in [DOMAIN r.rules -> RequestKeys]
  /\ r.next \in 1 .. Len(r.rules)
  /\ r.generation \in Nat

\* The shape of the state that the calls and requests add to the table.
UpdatesTypeOK ==
  /\ policies \in Policies
  /\ updater \in [Updaters -> {Waiting} \cup Calls]
  /\ DOMAIN request = Requests
  /\ \A q \in Requests : request[q] \in {Waiting, Evaluated} \/ IsEvaluation(request[q])
  /\ generation \in [Handlers -> Nat]
  /\ recordedBy \in [Counters -> SUBSET Nat]
  /\ late \in [Handlers -> SUBSET Nat]
  /\ copied \in [Updaters -> [Handlers -> Nat]]

\* An update starts its endpoint's counters afresh: once no update of h is
\* between its swap and its first cleanup, the hits under the rules of h are of
\* the rules in force, or of requests that were being evaluated at the last swap
\* (limiter.py update_policy, remove_policy).
OldHitsAreLate ==
  \A h \in Handlers :
    (\A u \in Updaters : updater[u].at = "swapped" => updater[u].handler # h) =>
      \A c \in DOMAIN histories :
        HandlerOf(c) = h => recordedBy[c] \subseteq {generation[h]} \cup late[h]

\* An update of one endpoint takes no hit that another endpoint still counts,
\* unless the rules of that other endpoint were replaced since the update took
\* its copy of them (limiter.py active_rules, memory.py cleanup_orphaned_counters).
StrangersKept ==
  [][\A u \in Updaters : updater'[u] # updater[u] /\ updater[u] # Waiting =>
       \A c \in RuledBy(policies) :
         LET h == HandlerOf(c)
             left == IF c \in DOMAIN histories' THEN histories'[c] ELSE <<>>
         IN  h # updater[u].handler /\ copied[u][h] = generation[h] =>
               Trim(left, now, Span(RuleFor(c, policies))) = LiveUnder(c, policies)]_updateVars
=============================================================================
