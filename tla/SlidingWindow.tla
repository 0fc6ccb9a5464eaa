--------------------------- MODULE SlidingWindow ---------------------------
(***************************************************************************)
(* The arithmetic of one sliding-window counter, as the in-memory storage  *)
(* and the policy evaluator compute it.                                    *)
(*                                                                         *)
(* A history is the deque of one counter: the clock readings of the hits   *)
(* it still remembers, oldest first.  The clock counts ticks; a second is  *)
(* Second ticks, so that a Retry-After (whole seconds) and a clock reading *)
(* (a float in the code) do not share a grain.                             *)
(***************************************************************************)
EXTENDS Integers, Sequences

CONSTANT Second

ASSUME SecondAssumption == Second \in Nat \ {0}

\* What the counters read of a Rule: how many requests in how many seconds.
Rule == [count : Nat \ {0}, window : Nat \ {0}]

Span(r) == r.window * Second

\* FirstLive with the boundary on the other side: a hit exactly as old as the
\* window still counts.
FirstLiveInclusive(h, t, span) ==
  CHOOSE i \in 1 .. Len(h) + 1 :
    /\ i <= Len(h) => h[i] >= t - span
    /\ \A j \in 1 .. i - 1 : h[j] < t - span

\* The position of the first hit that is younger than span at time t, and
\* Len(h) + 1 when there is none: the deque is popped from its head while the
\* head is too old, whatever stands behind it.
FirstLive(h, t, span) ==
  CHOOSE i \in 1 .. Len(h) + 1 :
    /\ i <= Len(h) => h[i] > t - span
    /\ \A j \in 1 .. i - 1 : h[j] <= t - span

Trim(h, t, span) == SubSeq(h, FirstLive(h, t, span), Len(h))

\* The cap without the extra hit that makes the evaluator see an excess.
MaxHitsIsCount(r) == r.count

\* The evaluator never lets a history grow beyond one hit above the limit.
MaxHits(r) == r.count + 1

\* Two slips of record_hit: storing the threshold for the clock reading, and
\* appending at the wrong end.
HitAtThreshold(h, t, r) ==
  LET live == Trim(h, t, Span(r))
  IN  IF Len(live) < MaxHits(r) THEN Append(live, t - Span(r)) ELSE live

HitAtHead(h, t, r) ==
  LET live == Trim(h, t, Span(r))
  IN  IF Len(live) < MaxHits(r) THEN <<t>> \o live ELSE live

\* The history after a hit at time t under rule r: trim, then append if there
\* is room.
Hit(h, t, r) ==
  LET live == Trim(h, t, Span(r))
  IN  IF Len(live) < MaxHits(r) THEN Append(live, t) ELSE live

\* What the evaluator concludes from the history that record_hit leaves.
OverLimit(h, r) == Len(h) > r.count

\* The oldest hit, whatever the length of the history.
RetryFromOldest(h, r) == h[1]

\* The hit whose expiry makes room for the next request.  The storage gives no
\* retry timestamp below MaxHits and the evaluator falls back to the oldest hit.
RetryFrom(h, r) ==
  IF Len(h) >= MaxHits(r) THEN h[Len(h) - MaxHits(r) + 2] ELSE h[1]

\* math.ceil(ticks / Second): \div rounds towards minus infinity.
CeilSeconds(ticks) == -((-ticks) \div Second)

RetryAfterSeconds(h, t, r) ==
  LET wait == CeilSeconds(Span(r) - (t - RetryFrom(h, r)))
  IN  IF wait < 1 THEN 1 ELSE wait
=============================================================================
