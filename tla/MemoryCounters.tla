--------------------------- MODULE MemoryCounters ---------------------------
(***************************************************************************)
(* The counter table of InMemoryStorage: record_hit with its eviction, and *)
(* the two cleanups that a policy change runs.  Every operation holds the  *)
(* storage's RLock from its clock reading to its return, so each is one    *)
(* action.                                                                 *)
(*                                                                         *)
(* The callers are arbitrary: any rule that some policy in Policies puts   *)
(* at a handler's index may arrive at any time, because a request keeps    *)
(* the rules it read while the policy is replaced under it.                *)
(***************************************************************************)
EXTENDS SlidingWindow, FiniteSets

CONSTANTS
  RequestKeys,   \* what a scope resolver yields: an address, a header value
  Handlers,      \* names of configured endpoints
  Policies,      \* the configurations that ever exist: [Handlers -> Seq(Rule)]
  MaxCounters,   \* max_counters
  EvictShare,    \* a full table drops one counter in EvictShare (10 in the code)
  MaxTime        \* bound on the clock

ASSUME CountersAssumption ==
  /\ Policies \subseteq [Handlers -> Seq(Rule)]
  /\ MaxCounters \in Nat \ {0}
  /\ EvictShare \in Nat \ {0}
  /\ MaxTime \in Nat

VARIABLES
  now,         \* the clock
  histories,   \* _request_counters: counter -> hits, defined where one exists
  \* History variables: they record what callers were told, no action reads them.
  admitted,    \* per counter, the hits judged within their limit since the
               \* counter was last discarded: a sequence of [at, limit]
  trimmedBy    \* per counter, the spans that trimmed it over that time

vars == <<now, histories, admitted, trimmedBy>>

RulesAt(h, i) == {p[h][i] : p \in {q \in Policies : i \in DOMAIN q[h]}}

Indices == UNION {DOMAIN p[h] : p \in Policies, h \in Handlers}

\* (request_key, handler_name, rule_index)
Counters ==
  {c \in RequestKeys \X Handlers \X Indices : RulesAt(c[2], c[3]) # {}}

HandlerOf(c) == c[2]
IndexOf(c) == c[3]

HistoryOf(c) == IF c \in DOMAIN histories THEN histories[c] ELSE <<>>

LastHit(c) == histories[c][Len(histories[c])]
-----------------------------------------------------------------------------
Init ==
  /\ now = 0
  /\ histories = [c \in {} |-> <<>>]
  /\ admitted = [c \in Counters |-> <<>>]
  /\ trimmedBy = [c \in Counters |-> {}]

Tick ==
  /\ now < MaxTime
  /\ now' = now + 1
  /\ UNCHANGED <<histories, admitted, trimmedBy>>
-----------------------------------------------------------------------------
\* Eviction, run before a counter is created.
TrimBy ==
  LET share == MaxCounters \div EvictShare IN IF share < 1 THEN 1 ELSE share

TargetSize == MaxCounters - TrimBy

NonEmpty == {c \in DOMAIN histories : histories[c] # <<>>}

\* The cut by the first hit of each history instead of the last.
LeastRecentlyCreated ==
  {kept \in SUBSET NonEmpty :
     /\ Cardinality(kept) = TargetSize
     /\ \A c \in kept, d \in NonEmpty \ kept : histories[d][1] <= histories[c][1]}

\* The counters left when the table is cut to TargetSize, those hit longest ago
\* going first; the code breaks ties by insertion order, here they are open.
MostRecentlyHit ==
  {kept \in SUBSET NonEmpty :
     /\ Cardinality(kept) = TargetSize
     /\ \A c \in kept, d \in NonEmpty \ kept : LastHit(d) <= LastHit(c)}

\* Eviction that starts one counter too late.
EvictionOutcomesLate ==
  IF Cardinality(DOMAIN histories) <= MaxCounters THEN {DOMAIN histories}
  ELSE MostRecentlyHit

EvictionOutcomes ==
  IF Cardinality(DOMAIN histories) < MaxCounters THEN {DOMAIN histories}
  ELSE IF Cardinality(NonEmpty) < MaxCounters THEN {NonEmpty}
  ELSE MostRecentlyHit

\* What record_hit keeps of the table before it touches the counter c.
KeptBeforeHit(c) ==
  IF c \in DOMAIN histories THEN {DOMAIN histories} ELSE EvictionOutcomes

RecordHit(c, r) ==
  \E kept \in KeptBeforeHit(c) :
    LET hit == Hit(HistoryOf(c), now, r)
        discarded == DOMAIN histories \ kept
    IN  /\ histories' = [d \in kept \cup {c} |-> IF d = c THEN hit ELSE histories[d]]
        /\ admitted' = [d \in Counters |->
             IF d \in discarded THEN <<>>
             ELSE IF d = c /\ ~OverLimit(hit, r)
                  THEN Append(admitted[d], [at |-> now, limit |-> r.count])
                  ELSE admitted[d]]
        /\ trimmedBy' = [d \in Counters |->
             IF d \in discarded THEN {}
             ELSE IF d = c THEN trimmedBy[d] \cup {Span(r)} ELSE trimmedBy[d]]
        /\ UNCHANGED now
-----------------------------------------------------------------------------
\* cleanup_handler_counters
CleanupHandler(h) ==
  LET discarded == {c \in DOMAIN histories : HandlerOf(c) = h}
  IN  /\ histories' = [c \in DOMAIN histories \ discarded |-> histories[c]]
      /\ admitted' = [c \in Counters |-> IF c \in discarded THEN <<>> ELSE admitted[c]]
      /\ trimmedBy' = [c \in Counters |-> IF c \in discarded THEN {} ELSE trimmedBy[c]]
      /\ UNCHANGED now

\* The counters for which policy p still has a rule.
RuledBy(p) == {c \in DOMAIN histories : IndexOf(c) \in DOMAIN p[HandlerOf(c)]}

RuleFor(c, p) == p[HandlerOf(c)][IndexOf(c)]

\* What p's window leaves of the history of c.
LiveUnder(c, p) == Trim(histories[c], now, Span(RuleFor(c, p)))

\* cleanup_orphaned_counters: a counter without a rule goes, one with a rule is
\* trimmed and goes if that empties it.  Only the first kind forgets anything.
CleanupOrphaned(p) ==
  LET discarded == DOMAIN histories \ RuledBy(p)
  IN  /\ histories' = [c \in {d \in RuledBy(p) : LiveUnder(d, p) # <<>>} |-> LiveUnder(c, p)]
      /\ admitted' = [c \in Counters |-> IF c \in discarded THEN <<>> ELSE admitted[c]]
      /\ trimmedBy' = [c \in Counters |->
           IF c \in discarded THEN {}
           ELSE IF c \in RuledBy(p) THEN trimmedBy[c] \cup {Span(RuleFor(c, p))}
                ELSE trimmedBy[c]]
      /\ UNCHANGED now
-----------------------------------------------------------------------------
Next ==
  \/ Tick
  \/ \E c \in Counters : \E r \in RulesAt(HandlerOf(c), IndexOf(c)) : RecordHit(c, r)
  \/ \E h \in Handlers : CleanupHandler(h)
  \/ \E p \in Policies : CleanupOrphaned(p)

Spec == Init /\ [][Next]_vars
-----------------------------------------------------------------------------
\* The shape of the state.
TypeOK ==
  /\ now \in 0 .. MaxTime
  /\ DOMAIN histories \subseteq Counters
  /\ IsFiniteSet(DOMAIN histories)
  /\ histories \in [DOMAIN histories -> Seq(0 .. MaxTime)]
  /\ admitted \in [Counters -> Seq([at : 0 .. MaxTime, limit : Nat \ {0}])]
  /\ trimmedBy \in [Counters -> SUBSET Nat]

\* The table never holds more than max_counters counters: the eviction of
\* record_hit makes room before it creates one (memory.py _evict_counters_if_needed).
TableBounded == Cardinality(DOMAIN histories) <= MaxCounters

\* A counter is evicted only when TargetSize others and the one being created
\* have been hit since: nobody loses a hit that is more recent than those kept,
\* and one pass drops no more than the share (memory.py _evict_counters_if_needed).
EvictionNeedsCrowd ==
  [][DOMAIN histories' \ DOMAIN histories # {} =>
       \A d \in DOMAIN histories \ DOMAIN histories' :
         Cardinality({c \in DOMAIN histories' : LastHit(c)' >= LastHit(d)}) > TargetSize]_vars

\* Between two operations no counter is empty and every history is in clock
\* order: trimming from the head relies on the order, eviction reads the last
\* element, and retry_after_timestamp indexes from the end.
HistoriesOrdered ==
  \A c \in DOMAIN histories :
    LET h == histories[c]
    IN  /\ h # <<>>
        /\ \A i \in 1 .. Len(h), j \in 1 .. Len(h) : i <= j => h[i] <= h[j]
        /\ h[Len(h)] <= now

\* A limit of L means L: whatever rules, cleanups and evictions the counter has
\* seen, among any L + 1 hits in a row that it let through since it was last
\* discarded, the last one judged by limit L, the first and the last are as far
\* apart as some window that trimmed the counter.  With one rule per counter
\* this is the promise of the rule (docs/policies.md, "Rule").
AdmittedSpread ==
  \A c \in Counters :
    \A n \in DOMAIN admitted[c] :
      LET last == admitted[c][n]
      IN  n > last.limit =>
            \E w \in trimmedBy[c] : last.at - admitted[c][n - last.limit].at >= w

\* A client told to retry after s seconds is let through if it does and nothing
\* else arrives, and would not have been a second earlier, even when the history
\* is longer than its rule allows because another rule filled it.
RetryAfterExact ==
  \A c \in DOMAIN histories : \A r \in RulesAt(HandlerOf(c), IndexOf(c)) :
    LET h == Hit(histories[c], now, r)
        s == RetryAfterSeconds(h, now, r)
    IN  OverLimit(h, r) =>
          /\ ~OverLimit(Hit(h, now + s * Second, r), r)
          /\ s > 1 => OverLimit(Hit(h, now + (s - 1) * Second, r), r)
=============================================================================
