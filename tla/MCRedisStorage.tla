--------------------------- MODULE MCRedisStorage ----------------------------
(***************************************************************************)
(* The instance of RedisStorage for TLC: two processes, one of which       *)
(* relaxes its rule.                                                       *)
(***************************************************************************)
EXTENDS RedisStorage

CONSTANTS web, worker

MCBefore == [count |-> 1, window |-> 2]
MCAfter == [count |-> 1, window |-> 1]

\* Failures, restarts and evictions come one by one beside everything else.
\* Further ones are followed where they add up, in the counter that falls back
\* on memories, within one window, with one call at a time and no update.
Followed ==
  \/ faults + restarts + evictions <= 1
  \/ /\ subject = "counter" /\ counter_mode = "local"
     /\ now < Span(MCBefore)
     /\ abandoned = {} /\ \E p \in Processes : call[p] = Idle
     /\ \A p \in Processes : updating[p] = "no"

FollowedNext == Next /\ Followed'

FollowedSpec == Init /\ [][FollowedNext]_vars

\* The history variables no further than properties look at them: the hits of a
\* process in the counters it has moved to, the grants until a hit strays.
Asked ==
  LET moved == [p \in Updaters |-> [g \in {1, InMemory} |-> hitBy[p][g]]]
  IN  <<config, now, redis, fallback, call, wire, updates, known, answer,
        strayed, moved, IF strayed THEN Nothing ELSE grants>>
=============================================================================
