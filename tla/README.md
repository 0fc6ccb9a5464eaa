# Verification of the response bandwidth limiter

This directory holds TLA+ models of `response_bandwidth_limiter`, the runs of
TLC that check them on small instances, and theorems that TLAPS proves for
every value of the constants. It is kept beside the code: every definition that
models code names the lines it models (`PROJECT.json`, `map`).

The library limits HTTP responses of an ASGI application in three ways: it
paces the bytes of a response, it counts requests per client and rejects,
delays or throttles them, and it refuses or drains them when the process shuts
down.

- [1. Inventory](#1-inventory)
- [2. Plan](#2-plan)
- [3. Modules and code](#3-modules-and-code)
- [4. Runs](#4-runs)
- [5. Proofs](#5-proofs)
- [6. Disagreements found](#6-disagreements-found)
- [7. What the models leave out](#7-what-the-models-leave-out)

## 1. Inventory

Paths are relative to `src/response_bandwidth_limiter/`.

| Component | State | Operations | Hard because |
| --- | --- | --- | --- |
| Counters in memory (`backends/memory.py`) | `_request_counters`: (request key, handler, rule index) → deque of clock readings, at most `max_counters` | `record_hit` (with eviction), `cleanup_handler_counters`, `cleanup_orphaned_counters` | a history outlives the rule that filled it; a full table drops live counters |
| Keys in memory (`backends/memory.py`) | `_values`, `_expires`, `_last_access`, at most `max_keys` | `get`, `set`, `incr`, `delete` | lazy expiry, eviction that must spare `ip:` keys, three dictionaries in step |
| IP manager (`ip_manager.py`) | none; keys `ip:block:*`, `ip:allow:*` of the storage | block, unblock, allow, remove, two queries | renewal and expiry of a block, storage at its limit |
| Policy evaluator (`policy.py`, `models.py`) | none between calls | `evaluate` | one hit per rule with an await between; precedence; Retry-After |
| Limiter (`limiter.py`) | rates, policies, scope resolvers, under an `RLock` | `update_*`, `remove_*`, decorators, `shutdown` | an update is three steps under two locks, beside requests and other updates |
| Shutdown coordinator (`shutdown.py`) | `_shutting_down`, `_mode`, `_in_flight`, under a `Lock` | `begin_shutdown`, `enter_response`, `exit_response`, `wait_until_drained`, `reset`, queries | signals, threads and the event loop all use it |
| SIGINT handler (`signals.py`) | `_signal_handler_installed`, `_original_sigint_handler`, under a `Lock`; the process's SIGINT disposition | `handle_sigint`, `install`, `restore` | runs above any frame of the main thread |
| Middleware (`middleware.py`) | local to a request | `__call__`, `_handle_lifespan` | many exits, an await at each, cancellation |
| Streaming (`streaming.py`) | local to a body | `yield_limited_chunks` | aborts before, within and after pauses |
| Redis storage (`backends/redis.py`) | sorted sets and values in Redis, handler generations, fallback storages | as the storage in memory | lost replies, outages, recovery, generations |
| Approximate counter (`backends/base.py`) | one key per bucket | `record_hit` | bucket boundaries |
| Manager storage (`backends/manager.py`) | a dictionary shared by processes, the time of the next sweep | as the storage in memory | calls in threads that outlive a cancelled request |
| Routing (`routing.py`) | none | candidate names of a route | the configuration changes between lookups |
| Identity (`identity.py`) | none | client address, scope identifiers | two functions and several fallbacks must agree |

How they interact. A request enters the middleware, which asks the IP manager
(storage), finds the endpoint's names (routing), reads its rate and rules
(limiter), asks the coordinator whether a shutdown has begun, has the evaluator
record a hit per rule (storage) and applies the selected action; a delayed or
paced response is counted by the coordinator from `enter_response` to
`exit_response`. The SIGINT handler changes the coordinator's mode from the main
thread, other threads do so through the limiter, and `shutdown()` waits on the
event loop for the count to reach zero. `update_policy` runs on any thread and
reaches into the storage while requests are being evaluated.

What makes each correct:

- Counters: a limit holds over every window, unless a shorter one of another rule
  trimmed the counter meanwhile; a refusal has a reason; Retry-After tells the truth; the table is bounded and eviction fair.
- Keys and IP lists: an entry lasts exactly as long as it was set for.
- Evaluator: the documented precedence; one hit under each rule of a judged request.
- Updates: the changed endpoint starts afresh but for requests under way; the others
  lose nothing to it unless their own rules are replaced at the same time.
- Coordinator and signals: the mode moves forward, two Ctrl+C abort, no handler
  that ends swallows its signal, the original handler comes back, nobody waits for himself.
- Middleware and streaming: the count is exact on every way out; after an abort
  a body stops within a chunk and a waiting shutdown returns; a body ends for the
  client exactly when its last chunk is sent.
- Routing and identity: a setting that stays is found; the address the IP lists
  saw is the one that is counted.
- Redis storage: processes keep to a limit together, and exceed it by no more
  than the memories that stand in for Redis allow, each once and once more whenever
  it loses the counter; an acknowledged write is seen.
- Manager storage and approximate counter: values as promised, at most twice the
  limit in a window, no old garbage.

The hazards behind these, with their lines, are in `PROJECT.json`
(`hazards`). Those without a property have a note that says why nothing can be
checked.

## 2. Plan

The order is that of importance: what the library promises its users first,
then the storages that keep it with weaker means.

Done:

1. `SlidingWindow`, `MemoryCounters` — the counters, which every policy rests on.
2. `WindowPromise`, `MemoryCountersPromise` — what a rate limiter promises, and
   that the counters keep it.
3. `PolicyUpdates` — the counters beside updates and requests of many threads
   (composes the limiter, the evaluator's loop and the counters).
4. `Shutdown` — coordinator and signal handler at the grain of their locks.
5. `RequestLifecycle` — middleware, streaming and the in-flight count.
6. `KeyPromise`, `MemoryKeys` — the store of IP lists and values, against its
   promise.
7. `PolicyEvaluation` — rules, precedence, failure.
8. `RedisStorage` — one store for several processes, commands that are lost, late
   or run in vain, the failure modes, generations, restarts.
9. `ManagerStorage` — the approximate counter on the Manager storage, writes in
   threads that outlive their caller, the sweeps; `KeyPromise` again.
10. `EndpointLookup` — routing, configuration and identity, composed with
    `PolicyEvaluation` into one request.
11. The framing of body messages, in `RequestLifecycle`.

Not planned: chunk sizes and pause lengths. They are one expression each
(`max(1, min(chunk_size, max_rate))`, `len(part) / max_rate`) with no state behind
them; every property here holds whatever they are.

Every invariant, action property and refinement of the passing runs has a theorem;
section 5 says along which arguments, and what stays with TLC.

## 3. Modules and code

Names are the code's where TLA+ allows it. History variables record what callers
saw; no guard reads them, and each module says which they are.

### SlidingWindow (operators)

The arithmetic of one counter. A history is the deque; `Trim` is
`_cleanup_counter`, `Hit` the trim-and-append of `record_hit`, `MaxHits` the cap
the evaluator passes (`count + 1`), `RetryFrom` the timestamp it computes the
Retry-After from, `RetryAfterSeconds` the ceiling. The clock counts ticks and a
second has `Second` of them, so that a Retry-After in whole seconds and a clock
reading do not share a grain; a difference of readings is exact, as it is for
`time.monotonic` readings of moderate size.

### MemoryCounters

State: `now`, `histories` (`_request_counters`), and the history variables
`admitted` (the hits judged within their limit, with the limit) and `trimmedBy`.
Actions: `RecordHit`, `CleanupHandler`, `CleanupOrphaned`, `Tick`; the storage's
`RLock` is held from the clock reading to the return, so each operation is one
step. The callers are left open: any rule that some configuration puts at the
counter's place may arrive at any time, since a request keeps the rules it read.

Eviction breaks ties by insertion order in the code and either way in the
model. The share dropped by a full table is a constant (`EvictShare`, 10 in the
code), so that a small table can drop more than one.
`HistoriesOrdered` shows that the step of eviction which drops empty histories
first never finds one: no operation leaves any.

### WindowPromise, MemoryCountersPromise

`WindowPromise` says what a client may rely on without saying how hits are kept:
granted only if the last `Limit` grants are not all in the window, refused only
if the last `Limit` arrivals are. Between the two the limiter is free. The
in-memory limiter uses that freedom in one direction, counting refused hits too.
`MemoryCountersPromise` adds the arrivals as a history variable and maps the
table to the promise, for configurations that give a counter one rule at most.
The map loses a client's record exactly where the table discards its counter.

### PolicyUpdates

Extends `MemoryCounters` with `policies` (`_route_policies`), the calls of
`update_policy`/`remove_policy` (`Swap` → `CleanHandler` → `CleanOrphans`) and
requests (`ReadRules` → one `Evaluate` per rule). `Swap` is the body of
`with self._lock`, the other two are the storage's calls, each atomic under the
storage's own lock. `ReadRules` stands for `_select_policy_rules` and everything
between it and the first hit, `keys` for the scopes' identifiers. An await of
the in-memory storage never suspends, so on one event loop two requests do not
interleave within `evaluate`; requests on several loops, and updates from other
threads, do, and so does any storage that suspends.

### KeyPromise, MemoryKeys

`KeyPromise` is a store whose entries vanish at their deadline and which may
give up unprotected entries only for a write to a full store. `MemoryKeys` is the
code: lazy expiry, three dictionaries, eviction, `IPManager` on top. A key is a
pair of its kind and its name; that the kinds are told apart by a prefix
(`ip:block:`, `ip:allow:`) is all the model takes from key strings.

### PolicyEvaluation

One request under up to `MaxRules` rules. What the counters answer is arbitrary
(over the limit or not, some Retry-After), and the storage may raise at any of
them (`StorageFails`), having recorded the hit or not: a Redis storage in closed mode
raises also when the script ran and only its reply was lost. `Applied` is `decide()` of the selected action together with what the
middleware makes of it. The module has the state and actions of the evaluation and
its properties; the specification they are part of is `EndpointSpec`.

### EndpointLookup

Extends `PolicyEvaluation` with the way to the rules. A route is its place in the
application (`<<1, 1>>` is mounted in `<<1>>`), with what its `matches` says of the
request chosen at the start. `Search` is `get_handler_names`: one copy of the
configured names and a walk over routes that do not change. `GetLimit` and
`GetRules` ask about one name each, under a lock of their own; between them another
thread may `UpdateRoute`, `RemoveRoute`, `UpdatePolicy` or `RemovePolicy`. `touched`
is a history variable. What is asked but not yet looked at is told late: which
rules a name has, who the client is, what the IP lists said. `Judge` hands over to
the evaluator. Texts that name addresses go through `Address`, which stands for
the `ipaddress` module; a peer whose host is the empty string is left out.

### RedisStorage

One subject at a time, since commands on different keys do not meet: the counter
of one rule, one IP-list key, one key of the application (followed only where the
mode is open; its other two branches are those of the IP-list key). A call is sent,
then either `Reply` (Redis runs the command and the caller has the answer), `Fail`
(an exception, to the failure mode) or `Cancel` (no handler runs). A command whose
caller has given up may still run, at once or much later (`RunAbandoned`): at once
is the lost reply. Delays are placed before the run, so that Redis's clock reading
and the reply are one step. Hits take two steps, because the rules are read first
and the key is built, with the generation in force, when their turn comes.
`update_policy` is `Swap`, `MoveOn`, `ClearFallback`, as the code runs them under
different locks. The script is `Hit` of `SlidingWindow`, which trims, counts and
adds as the storage in memory does, plus the renewed deadline.

The memory that a process falls back on is one `InMemoryStorage` for all its
counters and keys, of which the model follows the subject. The others meet it where
they fill the memory. `Evict` is the hit of another counter that finds the table
full and drops this counter, live as it is; which counters were hit less recently
is not followed, so it may be this one whenever it is there. `MayRefuse` is a write
of a new IP entry that finds the memory full of such entries. An IP entry is never
dropped, and an application key never falls back in the one mode it is followed in.

### ManagerStorage

`Call` hands an operation to a thread, `Run` is the thread with the shared lock;
`Cancel` leaves it running (`RunDetached`) or, if no thread had taken it, drops it.
A key and its deadline key are one entry, since every operation writes or removes
both. `Sweep` is per process. The approximate counter chooses its bucket at the
call and counts in `Run`. The code takes the bucket from the wall clock and
deadlines from the monotonic one; the model has one clock. A tick is half a second.

### Shutdown

The coordinator's flag and mode and the signal handler. Each thread has a stack
of frames; a frame is a routine with the steps it has left (`Routines`), a lock
operation or a statement each. `Deliver` pushes `handle_sigint` on the main
thread's stack, above whatever runs there, also while it waits for a lock. Both
locks are non-reentrant: `Take` and `TakeSignal` wait for a frame below as they
do for another thread. Pending signals are a flag, as in CPython.

### RequestLifecycle

`__call__` from await to await: `at` says where a request is suspended,
`running` which request has the loop. `in_flight` is kept by `enter_response` and
`exit_response` as the code does, floor included. The mode may change at any
time, also between two statements of a task, because a signal handler or another
thread changes it. `Cancel` is a cancelled task, `AppDone` an application that
returns or raises, `Drained` and `TimedOut` the two ends of `wait_until_drained`.
`body` is what is left of the message that the application sends (`AppSends`) and
whether the client has been told of the end; an application sends again only when
its message is out, since it awaits the send.

## 4. Runs

| Run | Instance | Shows |
| --- | --- | --- |
| `counters_rules` | 1 counter, rules 1 in 2 s, 2 in 1 s, 2 in 3 s or none; 2 ticks a second, 8 ticks | limit, order of histories and exact Retry-After under rule changes |
| `counters_promise` | 1 client, 3 counters, table of 2, 3 ticks | `MemoryCounters` implements `WindowPromise`; table bound; eviction takes only counters that enough others overtook |
| `policy_updates` | 2 updates, 2 requests, 2 endpoints with up to 2 rules, table of 3, 1 tick | fresh start, strangers kept, shape of the calls |
| `memory_keys` | 1 address, 2 other keys, store of 2, lifetimes 1 and 2, 2 ticks | `MemoryKeys` implements `KeyPromise`; least recently used first |
| `endpoint` | 3 routes, one mounted, 3 names, 2 changed settings; headers of up to 2 entries; up to 3 rules, 5 actions, 2 rates | settled settings are found in the documented order; identities agree; documented precedence; one hit per rule, also when the storage fails |
| `redis_storage` | 2 processes, one of which updates, limit 1 in 2 ticks then 1 in 1, 2 ticks, 1 fault, restart or eviction, 4 where they add up | how far a limit is exceeded; fresh start; acknowledged writes are seen |
| `manager_storage` | 2 processes, 1 name, counter of 1 in 1 s, half-second ticks, 4 ticks, 1 cancelled call | `ManagerStorage` implements `KeyPromise`; twice the limit at most; bounded garbage |
| `shutdown` | main thread, 1 other with 2 calls, 3 signals | mode, handlers, forwarding, liveness of the handler |
| `lifecycle` | 2 requests (each may come again and again), messages of up to 2 chunks, 1 waiting shutdown | exact count, bounded bodies and their framing, late entrants, an abort drains |
| `first_sigint` | 2 signals | violated, see section 6 |
| `second_sigint` | 2 signals | violated, see section 6 |
| `redis_updates` | as `redis_storage`, without faults | violated, see section 6 |

Why the bounds are enough.

- *Counters.* Counters touch each other only through the table's size, so the
  properties of one counter need one counter, and those of the table need as many
  counters as it takes to fill it, evict and come back. Eight half seconds let a
  history of the longest window (3 s) fill, expire in part and fill again under
  another rule; a history longer than its rule allows, the case Retry-After is
  delicate in, needs a limit of 2 followed by one of 1, which is there.
- *Promise and table.* Three counters and a table of two evict, meet the evicted
  again and are cleaned; three ticks exceed the window. Evictions of several
  counters at once, for any table and share, are covered by the theorem
  `TableStaysBounded`.
- *Updates.* Two updates and two requests give every pair of actors that race:
  update against update on the same and on another endpoint, request against
  update, request against request. The clock hardly matters to these properties;
  one tick lets a hit expire.
- *Keys.* A store of two can hold two IP entries (and then refuses a write), one
  of each kind (and then evicts), or two others (and then chooses). Two ticks let
  a value of lifetime 1 expire and be met later. Three ticks pass as well but take
  minutes.
- *Endpoint.* The routes have a name in every one of the four places, a name in two
  places of one endpoint, a name that two routes share, and a mount that may or
  may not be configured. Two changed settings can take a rate away and give
  another. Three rules have every pattern of two equal and one different kind, and
  each order of them. States are told apart by what lies ahead (`VIEW Ahead`): the
  configuration counts until every question is asked, the client until the rules
  are judged; no invariant looks at either later.
- *Redis.* The updating process makes the window shorter, the direction in which a
  stray hit does harm. One fault with two processes is a command lost, doubled by
  the fallback, late, or left by a process that restarts; two ticks are the
  longer window. For the keys, two faults in two ticks and one in three were checked
  too; for the counter these take longer than a run should. One fault cannot reach
  the bound of the mode with fallbacks, let alone exceed it: that takes a grant from
  Redis, one from each memory, the loss of a memory and another grant from it, which
  are three faults and a restart or an eviction. Four are followed (`Followed` in
  `MCRedisStorage`) in that mode, within one window, one call at a time, without
  updates or late commands after the first. The bound is reached so, with a restart
  and with an eviction: a memory that granted once more than it may would exceed it,
  as the mutant `AnswerWithoutRecord` does. States are told apart by what the
  properties ask (`VIEW Asked`): no guard reads the history variables, the hits of a
  process are looked at only in the counters it has moved to (generation 1, and its
  memory), and grants only as long as no hit has strayed.
- *Manager.* A deadline, a sweep and the write that follows an interval later fit
  in four ticks, and so do two buckets with a hit delayed from one to the other.
  A behaviour has all operations on the name, or hits with cancelled calls, or hits
  beside writes of the name.
- *Shutdown.* Three signals reach a handler above a handler above a handler; a
  mode has two changes to make at most.
- *Lifecycle.* Requests return to `idle` and come again, so two slots are any
  number of requests, two of them at a time.

Every property has a mutant in `PROJECT.json`: a plausible slip in a mapped
definition (a dropped guard, a boundary on the wrong side, a missing reset) that
makes TLC find the property violated under the same configuration.

`CHECK_DEADLOCK FALSE` stands where the system may stop: a request that is
answered (`endpoint`), actors that have all made their calls
(`policy_updates`), and the hung handler of section 6 (`shutdown`,
`first_sigint`, `second_sigint`).

### Fairness

`Shutdown` assumes weak fairness for the steps of each thread and for the
delivery of a pending signal: the operating system runs every thread that can
run, and the interpreter handles a pending signal. Lock acquisition needs no
more, since workers make finitely many calls. Callers and the user are not
assumed to do anything. `SigintServed` is stated with the proviso the findings
require.

`RequestLifecycle` assumes strong fairness for what a request does by itself
(`Progress`) and for the waiter's look at the count. asyncio runs ready tasks
first in, first out, a sleep that is due makes its task ready, and
`wait_until_drained` polls every 10 ms: a step that is possible again and again
is taken. Strong, because another task has the loop, or another thread the mode,
in between. The assumption about the outside is that storage and clients answer and
that an application that streams goes on to send content, or returns when it has
sent its last message; it need not have a last message, nor does anybody have to
cancel it. An application that catches `StreamingAbortedError`
and stays, or never sends, or sends only empty messages, which are passed on without
an abort check, is outside the assumption: the code has no means to end it. `AbortDrains` therefore covers streams without an end.

## 5. Proofs

All proofs are checked to the last leaf, with no assumption but those on the
constants. Sets of clients, endpoints, policies, keys, threads, processes and
updates are arbitrary, finite or not, unless said below.

| Module | Assumptions on the constants |
| --- | --- |
| `MemoryCounters`, `PolicyUpdates` | a second is at least one tick; policies map endpoints to sequences of rules; table size and evicted share are positive |
| `MemoryCountersPromise` | the same; that every counter has one rule which all policies agree on (`OneRule`) is a conjunct of its `PromiseInit`: the promise is stated for a fixed limit and window |
| `MemoryKeys` | store size, share, lifetimes and the cap on numbers are positive |
| `RequestLifecycle` | finitely many requests at a time (their number is a count in the program), messages of at least one chunk |
| `Shutdown` | the main thread is not one of the others; numbers of signals and calls are naturals |
| `EndpointLookup` | rates, delays and Retry-After values are positive (`models.py` validates them); routes are finitely many, and whatever a route is mounted in is one of them; an endpoint has four identifiers, each a name or missing, and what stands for a missing one is no name |
| `RedisStorage` | a second is at least one tick; both rules are rules; lifetimes are positive; the processes are finitely many (their number is a bound in `GrantsBounded`); `Nobody`, which stands for a process that has ended, is none of them |
| `ManagerStorage` | interval, window, limit, lifetimes and the cap on numbers are positive; names are finitely many (their number is the capacity that the promise is given) |

An invariant that strengthens a property (`...Inv` below) was checked by TLC on the
instance of the run before it was proved. For the ledger in `GrantsInv` it looked
among all ways to book the grants, on the part of that instance whose subject is
the counter, in the modes that bound the grants.

| Theorem | Says | Argument |
| --- | --- | --- |
| `TypeCorrect` | `Spec => []TypeOK` | one step per action |
| `LimitHolds` | `Spec => []AdmittedSpread` | below |
| `TableStaysBounded` | `Spec => []TableBounded` | inductive with `TypeOK`; `EvictionMakesRoom`: whatever eviction keeps is smaller than the table |
| `OrderHolds` | `Spec => []HistoriesOrdered` | a trim keeps order (`TrimKeepsOrder`), an appended reading is the newest (`HitKeepsOrder`), a hit never leaves an empty history |
| `RetryAfterIsExact` | `Spec => []RetryAfterExact` | below |
| `EvictionIsFair` | `Spec => EvictionNeedsCrowd` | below |
| `CountersKeepPromise` | `PromiseSpec => KeepsPromise` | refinement of `WindowPromise`, below |
| `UpdatesTypeCorrect` | `UpdatesSpec => []UpdatesTypeOK` | a request's next rule is one some configuration has at that place (`TurnIsRuled`) |
| `UpdatesUseTable` | `UpdatesSpec => Spec` | each step of updates and requests is a step of the table or leaves it alone |
| `LimitHoldsUnderUpdates` | `UpdatesSpec => []AdmittedSpread` | the two above |
| `FreshStart` | `UpdatesSpec => []OldHitsAreLate` | below |
| `StrangersAreKept` | `UpdatesSpec => StrangersKept` | below |
| `KeysTypeCorrect` | `Spec => []TypeOK` | the three dictionaries change together, one step per operation |
| `OldestKeysGoFirst` | `Spec => DropsLeastRecentlyUsed` | from `KeysInv`, below |
| `StoreKeepsPromise` | `Spec => KeepsPromise` | refinement of `KeyPromise`, below |
| `LifecycleTypeCorrect`, `CountIsExact`, `AbortBoundsEveryBody`, `EveryBodyIsFramed`, `OnlyLateEntrants` | `Spec => []TypeOK`, `InFlightExact`, `AbortBoundsBody`, `BodyFraming`, `LateEntrants` | from `LifecycleInv`, below |
| `ShutdownTypeCorrect`, `TwoHandlersAbort`, `InstallAndRestoreMatch`, `EverySignalForwarded` | `Spec => []TypeOK`, `SecondSigintAborts`, `DispositionRestored`, `SignalsForwarded` | from `ShutdownInv`, below |
| `ShutdownMovesForward` | `Spec => ModeMovesForward` | action property, from `ShutdownInv` |
| `StrongestActionApplies`, `EachRuleCounts`, `OneIdentity` | `EndpointSpec => []StrongestApplied`, `CountedUnderEachRule`, `IdentityAgrees` | from `EndpointInv`, below |
| `SettledNameWins` | `EndpointSpec => []SettledNamesDecide` | from `LookupInv`, below |
| `RedisTypeCorrect`, `UpdatesCountAfresh` | `Spec => []TypeOK`, `UpdateStartsAfresh` | from `RedisInv`, below |
| `AcknowledgedWritesAreRead` | `Spec => AcknowledgedSeen` | action property, from `RedisInv` |
| `GrantsStayBounded` | `Spec => []GrantsBounded` | from `RedisInv` and `GrantsInv`, below |
| `ManagerTypeCorrect`, `TwiceTheLimitHolds` | `Spec => []TypeOK`, `TwiceTheLimit` | from `ManagerInv`, below |
| `GarbageStaysBounded` | `Spec => GarbageBounded` | action property, from `ManagerInv` |
| `ManagerKeepsPromise` | `Spec => KeepsPromise` | refinement of `KeyPromise`, below |

**The limit.** `AdmittedSpread` speaks of a log that the program does not keep, so
it is not inductive: one must know that the history still *remembers* the log.
`AdmittedRemembered` says that an admitted hit younger than every window that
trimmed the counter stands in the history with at least as many hits behind it
as were admitted after it. Trimming drops only hits that some such window has
passed (`TrimRemembers`), a new hit adds one behind each (`HitRemembers`), and a
hit that would break the limit finds the history at its cap, where the evaluator
refuses it: the excess hit it needs to see is the `+ 1` of `MaxHits`. Without
that `+ 1` (the mutant of this property) the argument fails at exactly this
point. The lemmas about the operators of `SlidingWindow` are a module of their own,
`SlidingWindow_proofs`: the counters in memory and those in Redis rest on them.

**Retry-After.** The hit that decides is the limit-th from the end
(`DecisiveHit`): while it is in the window the counter refuses, and when it has
left it the limit has room, whatever older rule left a longer history. The
ceiling of its remaining time (`CeilSecondsRoundsUp`) is the first whole second
after that.

**Eviction.** A counter that goes is among those sorted first, and what stays, at
least the table's target size, was last hit no earlier (`EvictsFromACrowd`); the
newcomer has the newest reading of all.

**The counters' promise.** A refusal must be explained by arrivals, which the
program keeps in a bounded deque and the promise in a log of the last `Limit`.
`PromiseInv` relates them: the m-th last entry of the log is no older than the
m-th last hit of the history, up to the limit (`KeepsUp`), so a history at its
cap shows a full log. A grant must not exceed the log of grants: were the
last `Limit` of them in the window, the new one would break `AdmittedSpread`,
which is proved. A counter the table discards has its grants and its arrivals
forgotten in the promise, in the same step.

**Fresh start.** `FreshStartInv` adds that requests under evaluation hold rules of
the current generation or were noted at the last swap, that a counter not in the
table has no recorded generations, and that the claim holds for all counters of an
endpoint unless an update of it is between its swap and its cleanup. The
cleanup of the handler re-establishes the last part; a request can only disturb
it with a generation the first part already bounds.

**Strangers.** `CopiesAgree`: a call whose endpoint-`h` copy is of the generation
in force has the very rules in force. The orphan cleanup then trims `h`'s counters
by the windows that rule them, and trimming twice is trimming once
(`TrimIdempotent`). It is an action property, proved from three invariants.

**Keys.** `KeysInv` adds to the types that the store is finite and that what it
holds of a key's last access is when a caller last used it. The second half is
what least recently *used* rests on: no operation finds a key without touching
it. The refinement maps an expired entry that lazy expiry has not met yet to a
vanished one; each operation is then one step of the promise on one key, and what
an eviction drops besides is allowed because only a full store evicts.

**Responses.** `LifecycleInv` has three parts that are no property of a run. One serves
`AbortBoundsBody`: a chunk sent in abort mode leaves the request at a place from
which every way to another chunk has an abort check (`SentOnce`). One serves
the framing: a request about to pace or send has a chunk left (`ChunkAhead`). One
serves `LateEntrants`: after the waiter's answer the places from which a response
can start are taken by those it did not see through, since the gate is closed
(`NobodyElseEnters`). The exact count is inductive with the types; its proof is
that each exit leaves the set of counted requests as it decrements.

**Signals.** A thread is a stack of frames of any depth, so the invariant speaks of
every frame: it holds one of the routines from some step on (`StacksOK`) and
its local variables have the value that its place implies (`FramesKnow`). Each
lock is held by a frame at a step between its take and its release
(`LockOwned`, `SignalLockOwned`), whatever runs above. What `install` and
`restore` have done so far is told by the place of the main thread's first frame
(`HandlerOK`); no handler above it can change that, and so every handler finds
the original handler (`HandlersFindOriginal`). Signals, frames of handlers and
handlers that have run are counted against each other (`SignalsCount`). Without
nesting, the handler after the first has read that a shutdown has begun and asks
for an abort (`SecondAborts`).

**Judgement.** `EndpointInv`: nothing is judged before the lookup is over
(`JudgedLast`), the rules before the next have one hit each and the others none
(`InTurn`; the next may have one when the storage failed there), the matches are of rules that had their turn, one per rule, and one of
them goes first (`MatchesInTurn`); and the identifiers are those of the client's
request (`ResolvedFromClient`). That one match goes first for any set of matches
is the totality of `sort_tuple` together with the order as a tie-break: a new
match is compared with the first one so far.

**Lookup.** The walk is a function defined by recursion on the tree of routes, which
exists only because the tree has a deepest route (`WalkExists`: it is built from
there upwards). The routes it visits are those the router executes
(`LeadingIsChosen`), and it goes on below each that bears no configured name
(`WalkGoesOn`), so it returns the names of the first that does (`FoundBearer`), each
once and in their order (`Lists`, kept by each `AppendConfiguredName`). `LookupInv`
then follows the questions down that list: what was passed over has nothing set, or
another thread changed it since the search (`AskedFor`). That a name not configured
at the search was changed if it has a setting now is what makes it safe never to
have asked about it.

**Redis.** `RedisInv` has to speak of commands whose caller is gone. A call names a
counter its process has reached (`KeysReached`); what counts in an updater's
new counters, a command on its way or left behind included, is of the new rule or
of a request it was evaluating at the swap (`FreshCounters`). A command left by a
process that restarts belongs to `Nobody`, which is why its hits are not those of
the new life. For the keys: a call that is alone shares the key with no
write, under way or left behind (`AloneIsAlone`), and while the last acknowledged
write is known, there is no other and Redis holds what it left or, past the
deadline, nothing (`KnownIsThere`). A read then meets exactly that.

**Grants in Redis.** `GrantsBounded` bounds all grants of a window, but what bounds
them is several histories: that of Redis and one per memory, of which restarts and
evictions make more. `GrantsInv` therefore says that there is a ledger, in which every grant is
booked on one source (`Booked`), Redis or a memory of a process from one loss of the
counter to the next (`Owned`), such that no source has more than the limit in any window (`Spread`)
and each source that can still grant remembers its own grants as long as they are
in a window (`Backed`, the `Remembers` of the counters in memory). A step of the
program grants nothing, hits the counter in Redis, hits one memory or loses one
(`CounterSteps`); a hit books at most one grant on its source (`HitKeeps`), and a
memory that has lost the counter is a new source with no bookings, which is why
each restart and each eviction may cost the limit once more. A hit that is recorded without being
granted, because its reply is lost or its caller has given up, only makes a
history longer. The key in Redis expires a window after its last hit, when none of
its grants is in a window any more (`ExpiredBacks`): with a deadline one tick
shorter, a mutant of this property, this lemma fails. The number of grants
follows by telling them apart by their source and their rank in its window
(`LedgerBound`), sums being cardinalities of sets of pairs.

**Approximate counter.** A grant belongs to the bucket of its call, and a window
meets at most two buckets (`BucketSpan`, `BucketsInOrder`). So it is enough that a
bucket grants no more than the limit: until a window after its own is over, its
counter stands for all that it has granted (`Counting` of `ManagerInv`). A hit
that comes later, when the counter may have been swept, is what `slow` records,
and the claim is void. Sweeps and expiry take a counter only when its deadline
has passed, at the end of that window or later.

**Garbage.** Nothing that had expired at a process's last sweep is left
(`SweptOnce`), and no process plans its next one more than an interval ahead
(`SweepsPlanned`). A write either sweeps or is within the interval of the writer's
own plan; the sweeps of others only remove more.

**The Manager's promise.** The refinement maps an entry whose deadline has passed
to a vanished one, as for the store in memory. Each of `Run`, `RunDetached` and
`Sweep` is then a step of the promise on at most one plain key; hits touch none.
An operation of a cancelled caller is the same step, at the moment its thread has
the lock.

### Only model-checked

- `SigintServed` and `AbortDrains`: liveness under fairness is out of the prover's
  reach.

## 6. Disagreements found

**First Ctrl+C** (`first_sigint`). docs/usage.md: "The first `Ctrl+C` enters drain
mode." The handler takes the coordinator's lock on the main thread, above a frame
that may hold it; the lock is a plain `threading.Lock`, so the process waits for
itself. Whether such a frame can be interrupted inside the lock depends on the
interpreter. CPython 3.10, the oldest supported version, looks for signals between
most bytecodes. CPython 3.11 looks after calls and at backward jumps only; the
bodies under this lock have none, and a trial of 40,000 signals on 3.11.6 struck
none. The handler's own lock has the same pattern with the bodies of `install` and
`restore`, which do make calls. `SigintServed` in the run `shutdown` shows that this
is the only obstacle.

**Second Ctrl+C** (`second_sigint`). docs/usage.md: "The second `Ctrl+C` enters abort
mode." `handle_sigint` reads `is_shutting_down` and calls `begin_shutdown` in two
statements. A second signal between them has its handler read the same answer, and
both ask for a drain. `SecondSigintAborts` in the run `shutdown` shows that handlers
that run one after the other keep the promise.

**Updates that reach other processes** (`redis_updates`). README.md: "runtime
configuration updates still remain process-local", and the comment in
`cleanup_handler_counters`: the storage "switches to a new local counter namespace
instead of deleting shared Redis keys that other workers may still rely on."
`update_policy` puts the rules in force before the switch. A request between the two
counts under the new rule in the old, shared counter. If the new window is
shorter, the script trims the counter to it and lets it expire by it, for
everybody: hits that the other processes' rule still counts are gone, and they let
more through than their limit. `GrantsBounded` shows that such a stray hit is the
only way: without one, the limit of the processes that share a rule holds.

## 7. What the models leave out

- `ShutdownCoordinator.reset`, which nothing in the package calls.
- A `KeyboardInterrupt` from the forwarded default handler: the handler ends, and
  what the exception unwinds below it is not followed.
- Custom action classes and custom storages; validation of arguments.
- The storage's `close`, which only sets a flag in memory.
- The error that the storages in memory and of the Manager raise for an `incr` of a
  key that holds something other than a number. Redis's is modelled.
- Floating-point rounding of clock readings.
- Header and body contents, response wording, ASGI extensions, WebSockets.
- Chunk sizes and pause lengths.
- Of Redis: `close`, `from_url`, retries inside the client library, and the rounding
  of the clock reading that the script returns as text. A block set while Redis is
  down lives in the fallback memory of one process; no property speaks of it.
  The orphan cleanup of the fallback is left out: it trims a counter by the rule in
  force in the process, as the hit of its next request does.
  Generations are counted per process, so processes share counters again only
  after equally many updates; a process that restarts and updates otherwise than
  before may meet old hits in the same namespace, which the bound of one update per
  life leaves out.
- Of the Manager storage: `close`, and the difference between the two clocks.
- Registration of scope resolvers, storage warnings and re-exports.

To check a model: `tlc -config <cfg> <module>` with the pairs of `PROJECT.json`
(`runs`). To check the proofs: `tlapm <module>` for `SlidingWindow_proofs.tla`,
`MemoryCounters_proofs.tla` (with those of `PolicyUpdates` and
`MemoryCountersPromise`), `MemoryKeys_proofs.tla`, `RequestLifecycle_proofs.tla`,
`Shutdown_proofs.tla`, `EndpointLookup_proofs.tla`, `RedisStorage_proofs.tla` and
`ManagerStorage_proofs.tla`.
