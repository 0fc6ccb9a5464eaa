------------------------ MODULE SlidingWindow_proofs ------------------------
(***************************************************************************)
(* What trimming and recording do to a history, for every history, every   *)
(* rule and every grain of the clock.                                      *)
(***************************************************************************)
EXTENDS SlidingWindow, SequenceTheorems, WellFoundedInduction, TLAPS

\* A non-empty set of naturals has a least element.
LEMMA LeastNatural ==
  ASSUME NEW T \in SUBSET Nat, T # {}
  PROVE  \E n \in T : \A m \in T : n <= m
  <1> DEFINE R == OpToRel(<, Nat)
  <1>1. IsWellFoundedOn(R, Nat)
    BY NatLessThanWellFounded
  <1>2. \A m, n \in Nat : m < n => <<m, n>> \in R
    BY DEF OpToRel
  <1> HIDE DEF R
  <1>3. \E n \in T : \A m \in T : ~(<<m, n>> \in R)
    BY <1>1, WFMin
  <1>4. PICK n \in T : \A m \in T : ~(<<m, n>> \in R)
    BY <1>3
  <1>5. ASSUME NEW m \in T
        PROVE  n <= m
    <2>1. m \in Nat /\ n \in Nat
      OBVIOUS
    <2>2. ~(m < n)
      BY <1>2, <1>4, <2>1
    <2> QED
      BY <2>1, <2>2
  <1> QED
    BY <1>5

\* FirstLive is where the popping stops: everything before it is too old, and
\* what stands there, if anything, is not.
LEMMA FirstLiveStops ==
  ASSUME NEW h \in Seq(Int), NEW t \in Int, NEW span \in Int
  PROVE  LET f == FirstLive(h, t, span)
         IN  /\ f \in 1 .. Len(h) + 1
             /\ f <= Len(h) => h[f] > t - span
             /\ \A j \in 1 .. f - 1 : h[j] <= t - span
  <1> DEFINE Stops(i) == /\ i <= Len(h) => h[i] > t - span
                         /\ \A j \in 1 .. i - 1 : h[j] <= t - span
             Young == {i \in 1 .. Len(h) + 1 : i <= Len(h) => h[i] > t - span}
  <1>1. Young \in SUBSET Nat /\ Len(h) + 1 \in Young
    OBVIOUS
  <1>2. PICK n \in Young : \A m \in Young : n <= m
    BY <1>1, LeastNatural
  <1>3. \A j \in 1 .. n - 1 : h[j] <= t - span
    <2>1. TAKE j \in 1 .. n - 1
    <2>2. j \in 1 .. Len(h) /\ j \notin Young /\ h[j] \in Int
      BY <1>2
    <2> QED
      BY <2>2
  <1>4. n \in 1 .. Len(h) + 1 /\ Stops(n)
    BY <1>2, <1>3
  <1>5. FirstLive(h, t, span) = CHOOSE i \in 1 .. Len(h) + 1 : Stops(i)
    BY DEF FirstLive
  <1> HIDE DEF Stops
  <1>6. FirstLive(h, t, span) \in 1 .. Len(h) + 1 /\ Stops(FirstLive(h, t, span))
    BY <1>4, <1>5
  <1> QED
    BY <1>6 DEF Stops

\* Trimming drops the k oldest hits, all of them too old, and stops at a hit
\* that is not; it keeps every hit that is young enough.
LEMMA TrimDropsOldest ==
  ASSUME NEW h \in Seq(Int), NEW t \in Int, NEW span \in Int
  PROVE  LET s == Trim(h, t, span)
         IN  \E k \in 0 .. Len(h) :
               /\ Len(s) = Len(h) - k
               /\ \A i \in 1 .. Len(s) : s[i] = h[i + k]
               /\ \A j \in 1 .. k : h[j] <= t - span
               /\ k < Len(h) => h[k + 1] > t - span
  <1> DEFINE f == FirstLive(h, t, span)
  <1>1. /\ f \in 1 .. Len(h) + 1
        /\ f <= Len(h) => h[f] > t - span
        /\ \A j \in 1 .. f - 1 : h[j] <= t - span
    BY FirstLiveStops
  <1> HIDE DEF f
  <1>2. /\ Len(SubSeq(h, f, Len(h))) = IF f <= Len(h) THEN Len(h) - f + 1 ELSE 0
        /\ \A i \in 1 .. Len(h) - f + 1 : SubSeq(h, f, Len(h))[i] = h[f + i - 1]
    <2>1. \A i \in f .. Len(h) : h[i] \in Int
      BY <1>1
    <2>2. f \in Int /\ Len(h) \in Int
      BY <1>1
    <2> QED
      BY <2>1, <2>2, SubSeqProperties
  <1>3. f - 1 \in 0 .. Len(h)
    BY <1>1
  <1>4. /\ Len(SubSeq(h, f, Len(h))) = Len(h) - (f - 1)
        /\ \A i \in 1 .. Len(SubSeq(h, f, Len(h))) :
             SubSeq(h, f, Len(h))[i] = h[i + (f - 1)]
        /\ f - 1 < Len(h) => h[(f - 1) + 1] > t - span
    BY <1>1, <1>2
  <1>5. Trim(h, t, span) = SubSeq(h, f, Len(h))
    BY DEF Trim, f
  <1> QED
    BY <1>1, <1>3, <1>4, <1>5

LEMMA TrimType ==
  ASSUME NEW S \in SUBSET Int, NEW h \in Seq(S), NEW t \in Int, NEW span \in Int
  PROVE  Trim(h, t, span) \in Seq(S)
  <1>1. h \in Seq(Int)
    BY SeqMonotonic
  <1>2. FirstLive(h, t, span) \in 1 .. Len(h) + 1
    BY <1>1, FirstLiveStops
  <1>3. \A i \in FirstLive(h, t, span) .. Len(h) : h[i] \in S
    BY <1>2
  <1> QED
    BY <1>2, <1>3, SubSeqProperties DEF Trim

\* A history that has been trimmed is not trimmed further.
LEMMA TrimIdempotent ==
  ASSUME NEW h \in Seq(Int), NEW t \in Int, NEW span \in Int
  PROVE  Trim(Trim(h, t, span), t, span) = Trim(h, t, span)
  <1> DEFINE s == Trim(h, t, span)
             f == FirstLive(s, t, span)
  <1>1. s \in Seq(Int)
    BY TrimType
  <1>2. Len(s) >= 1 => s[1] > t - span
    BY TrimDropsOldest
  <1> HIDE DEF s
  <1>3. f \in 1 .. Len(s) + 1 /\ \A j \in 1 .. f - 1 : s[j] <= t - span
    BY <1>1, FirstLiveStops
  <1>4. f = 1
    <2> SUFFICES ASSUME f # 1
                 PROVE  FALSE
      OBVIOUS
    <2>1. 1 \in 1 .. f - 1 /\ Len(s) >= 1 /\ s[1] \in Int
      BY <1>1, <1>3
    <2> QED
      BY <1>2, <1>3, <2>1
  <1>5. SubSeq(s, 1, Len(s)) = s
    BY <1>1
  <1> QED
    BY <1>4, <1>5 DEF Trim, s

\* The history h holds a hit at time a with at least m hits behind it.
Remembers(h, a, m) == \E p \in 1 .. Len(h) : h[p] = a /\ Len(h) - p >= m

\* Trimming forgets no hit that is young enough, and nothing behind it.
LEMMA TrimRemembers ==
  ASSUME NEW h \in Seq(Int), NEW t \in Int, NEW span \in Int,
         NEW a \in Int, a > t - span, NEW m \in Int, Remembers(h, a, m)
  PROVE  Remembers(Trim(h, t, span), a, m)
  <1> DEFINE s == Trim(h, t, span)
  <1>1. PICK k \in 0 .. Len(h) :
          /\ Len(s) = Len(h) - k
          /\ \A i \in 1 .. Len(s) : s[i] = h[i + k]
          /\ \A j \in 1 .. k : h[j] <= t - span
    BY TrimDropsOldest
  <1> HIDE DEF s
  <1>2. PICK p \in 1 .. Len(h) : h[p] = a /\ Len(h) - p >= m
    BY DEF Remembers
  <1>3. p > k
    BY <1>1, <1>2
  <1>4. p - k \in 1 .. Len(s) /\ s[p - k] = a /\ Len(s) - (p - k) >= m
    BY <1>1, <1>2, <1>3
  <1>5. Remembers(s, a, m)
    BY <1>4 DEF Remembers
  <1> QED
    BY <1>5 DEF s

\* Recording a hit puts it behind every young enough hit if there is room; if
\* there is none the hit is over the limit.
LEMMA HitRemembers ==
  ASSUME NEW h \in Seq(Int), NEW t \in Int, NEW r \in Rule
  PROVE  /\ \A a \in Int, m \in Int :
              a > t - Span(r) /\ Remembers(h, a, m) =>
                /\ Remembers(Hit(h, t, r), a, m)
                /\ ~OverLimit(Hit(h, t, r), r) => Remembers(Hit(h, t, r), a, m + 1)
         /\ ~OverLimit(Hit(h, t, r), r) => Remembers(Hit(h, t, r), t, 0)
  <1> DEFINE live == Trim(h, t, Span(r))
  <1>1. Span(r) \in Int /\ r.count \in Nat
    BY SecondAssumption DEF Span, Rule
  <1>2. live \in Seq(Int)
    BY <1>1, TrimType
  <1>3. \A a \in Int, m \in Int :
          a > t - Span(r) /\ Remembers(h, a, m) => Remembers(live, a, m)
    BY <1>1, TrimRemembers
  <1>4. Hit(h, t, r) = IF Len(live) < MaxHits(r) THEN Append(live, t) ELSE live
    BY DEF Hit
  <1> HIDE DEF live
  <1>5. CASE Len(live) < MaxHits(r)
    <2>1. /\ Len(Append(live, t)) = Len(live) + 1
          /\ \A i \in 1 .. Len(live) : Append(live, t)[i] = live[i]
          /\ Append(live, t)[Len(live) + 1] = t
      BY <1>2, AppendProperties
    <2>2. \A a \in Int, m \in Int :
            Remembers(live, a, m) =>
              Remembers(Append(live, t), a, m) /\ Remembers(Append(live, t), a, m + 1)
      <3> SUFFICES ASSUME NEW a \in Int, NEW m \in Int, NEW p \in 1 .. Len(live),
                          live[p] = a, Len(live) - p >= m
                   PROVE  Remembers(Append(live, t), a, m) /\ Remembers(Append(live, t), a, m + 1)
        BY DEF Remembers
      <3>1. /\ p \in 1 .. Len(Append(live, t))
            /\ Append(live, t)[p] = a
            /\ Len(Append(live, t)) - p >= m + 1
            /\ Len(Append(live, t)) - p >= m
        BY <1>2, <2>1, LenProperties
      <3> QED
        BY <3>1 DEF Remembers
    <2>3. Remembers(Append(live, t), t, 0)
      BY <1>2, <2>1 DEF Remembers
    <2> QED
      BY <1>3, <1>4, <1>5, <2>2, <2>3
  <1>6. CASE ~(Len(live) < MaxHits(r))
    <2>1. OverLimit(live, r)
      BY <1>1, <1>2, <1>6 DEF OverLimit, MaxHits
    <2> QED
      BY <1>3, <1>4, <1>6, <2>1
  <1> QED
    BY <1>5, <1>6

LEMMA HitType ==
  ASSUME NEW S \in SUBSET Int, NEW h \in Seq(S), NEW t \in S, NEW r \in Rule
  PROVE  Hit(h, t, r) \in Seq(S)
  <1>1. Span(r) \in Int
    BY SecondAssumption DEF Span, Rule
  <1>2. Trim(h, t, Span(r)) \in Seq(S)
    BY <1>1, TrimType
  <1> QED
    BY <1>2, AppendProperties DEF Hit

LEMMA FirstHit ==
  ASSUME NEW t \in Int, NEW r \in Rule
  PROVE  Hit(<<>>, t, r) = <<t>>
  <1> DEFINE live == Trim(<<>>, t, Span(r))
  <1>1. Span(r) \in Int /\ MaxHits(r) \in Nat \ {0} /\ <<>> \in Seq(Int) /\ Len(<<>>) = 0
    BY SecondAssumption, EmptySeq DEF Span, MaxHits, Rule
  <1>2. Len(live) = 0 /\ live \in Seq(Int)
    <2>1. PICK none \in Seq(Int) : none = <<>>
      BY <1>1
    <2>2. Trim(none, t, Span(r)) \in Seq(Int) /\ Len(none) = 0
      BY <1>1, <2>1, TrimType
    <2>3. PICK span \in Int : span = Span(r)
      BY <1>1
    <2>4. PICK k \in 0 .. Len(none) :
            /\ Len(Trim(none, t, span)) = Len(none) - k
            /\ \A i \in 1 .. Len(Trim(none, t, span)) : Trim(none, t, span)[i] = none[i + k]
            /\ \A j \in 1 .. k : none[j] <= t - span
            /\ k < Len(none) => none[k + 1] > t - span
      BY TrimDropsOldest
    <2>5. PICK n \in Nat : n = Len(Trim(none, t, span))
      BY <2>2, <2>3
    <2>6. n = 0
      <3>1. k = 0
        BY <2>2
      <3>2. Len(none) - k = 0
        BY <2>2, <3>1
      <3> QED
        BY <2>4, <2>5, <3>2
    <2> QED
      BY <2>1, <2>2, <2>3, <2>5, <2>6
  <1>3. Hit(<<>>, t, r) = IF Len(live) < MaxHits(r) THEN Append(live, t) ELSE live
    BY DEF Hit
  <1> HIDE DEF live
  <1>4. live = <<>>
    BY <1>2, EmptySeq
  <1> QED
    BY <1>1, <1>2, <1>3, <1>4
-----------------------------------------------------------------------------
\* A history as the table keeps it between two operations.
OrderedUpTo(h, t) ==
  /\ h # <<>>
  /\ \A i \in 1 .. Len(h), j \in 1 .. Len(h) : i <= j => h[i] <= h[j]
  /\ h[Len(h)] <= t

\* Trimming keeps the order; it may leave nothing.
LEMMA TrimKeepsOrder ==
  ASSUME NEW h \in Seq(Int), NEW t \in Int, NEW span \in Int,
         h = <<>> \/ OrderedUpTo(h, t)
  PROVE  Trim(h, t, span) = <<>> \/ OrderedUpTo(Trim(h, t, span), t)
  <1> DEFINE s == Trim(h, t, span)
  <1>1. s \in Seq(Int)
    BY TrimType
  <1>2. PICK k \in 0 .. Len(h) : Len(s) = Len(h) - k /\ \A i \in 1 .. Len(s) : s[i] = h[i + k]
    BY TrimDropsOldest
  <1> HIDE DEF s
  <1>3. CASE h = <<>>
    <2>1. Len(s) = 0
      BY <1>2, <1>3, EmptySeq
    <2> QED
      BY <1>1, <2>1, EmptySeq DEF s
  <1>4. CASE OrderedUpTo(h, t) /\ s # <<>>
    <2>1. Len(s) \in Nat \ {0}
      BY <1>1, <1>4, EmptySeq
    <2>2. s[Len(s)] <= t
      BY <1>2, <1>4, <2>1 DEF OrderedUpTo
    <2>3. ASSUME NEW i \in 1 .. Len(s), NEW j \in 1 .. Len(s), i <= j
          PROVE  s[i] <= s[j]
      <3>1. i + k \in 1 .. Len(h) /\ j + k \in 1 .. Len(h) /\ i + k <= j + k
        BY <1>2, <2>3
      <3> QED
        BY <1>2, <1>4, <3>1 DEF OrderedUpTo
    <2> QED
      BY <1>4, <2>2, <2>3 DEF OrderedUpTo, s
  <1> QED
    BY <1>3, <1>4 DEF s

LEMMA HitKeepsOrder ==
  ASSUME NEW h \in Seq(Int), NEW t \in Int, NEW r \in Rule,
         h = <<>> \/ OrderedUpTo(h, t)
  PROVE  OrderedUpTo(Hit(h, t, r), t)
  <1> DEFINE live == Trim(h, t, Span(r))
             hit == Append(live, t)
  <1>1. Span(r) \in Int /\ MaxHits(r) \in Nat \ {0}
    BY SecondAssumption DEF Span, MaxHits, Rule
  <1>2. live \in Seq(Int) /\ (live = <<>> \/ OrderedUpTo(live, t))
    BY <1>1, TrimType, TrimKeepsOrder
  <1>3. Hit(h, t, r) = IF Len(live) < MaxHits(r) THEN hit ELSE live
    BY DEF Hit
  <1> HIDE DEF live
  <1>4. CASE Len(live) < MaxHits(r)
    <2>1. /\ hit # <<>> /\ Len(hit) = Len(live) + 1 /\ Len(live) \in Nat
          /\ \A i \in 1 .. Len(live) : hit[i] = live[i]
          /\ hit[Len(live) + 1] = t
      BY <1>2, AppendProperties, LenProperties
    <2> HIDE DEF hit
    <2>2. \A i \in 1 .. Len(live) : live[i] <= t
      <3>1. CASE live = <<>>
        BY <3>1, EmptySeq
      <3>2. CASE OrderedUpTo(live, t)
        <4> TAKE i \in 1 .. Len(live)
        <4>1. Len(live) \in 1 .. Len(live) /\ i <= Len(live)
          BY <2>1
        <4>2. live[i] <= live[Len(live)] /\ live[Len(live)] <= t
          BY <3>2, <4>1 DEF OrderedUpTo
        <4>3. live[i] \in Int /\ live[Len(live)] \in Int
          BY <1>2, <4>1
        <4> QED
          BY <4>2, <4>3
      <3> QED
        BY <1>2, <3>1, <3>2
    <2>3. ASSUME NEW i \in 1 .. Len(hit), NEW j \in 1 .. Len(hit), i <= j
          PROVE  hit[i] <= hit[j]
      <3>1. CASE j \in 1 .. Len(live)
        <4>1. i \in 1 .. Len(live) /\ live # <<>>
          BY <2>1, <2>3, <3>1, EmptySeq
        <4> QED
          BY <1>2, <2>1, <2>3, <3>1, <4>1 DEF OrderedUpTo
      <3>2. CASE j = Len(live) + 1
        BY <2>1, <2>2, <2>3, <3>2
      <3> QED
        BY <2>1, <3>1, <3>2
    <2> QED
      BY <1>3, <1>4, <2>1, <2>3 DEF OrderedUpTo
  <1>5. CASE ~(Len(live) < MaxHits(r))
    <2>1. live # <<>>
      BY <1>1, <1>5, EmptySeq
    <2> QED
      BY <1>2, <1>3, <1>5, <2>1
  <1> QED
    BY <1>4, <1>5

LEMMA LaterIsFine ==
  ASSUME NEW h \in Seq(Int), NEW t \in Int, NEW u \in Int, t <= u, OrderedUpTo(h, t)
  PROVE  OrderedUpTo(h, u)
  <1>1. Len(h) \in 1 .. Len(h) /\ h[Len(h)] \in Int
    BY EmptySeq, LenProperties DEF OrderedUpTo
  <1> QED
    BY <1>1 DEF OrderedUpTo
-----------------------------------------------------------------------------
\* When a client that was refused may come back.

LEMMA CeilSecondsRoundsUp ==
  ASSUME NEW ticks \in Int
  PROVE  /\ CeilSeconds(ticks) \in Int
         /\ CeilSeconds(ticks) * Second >= ticks
         /\ (CeilSeconds(ticks) - 1) * Second < ticks
  <1> DEFINE q == (-ticks) \div Second
  <1>1. q \in Int /\ Second * q <= -ticks /\ -ticks < Second * q + Second
    BY SecondAssumption
  <1>2. CeilSeconds(ticks) = -q
    BY DEF CeilSeconds
  <1> HIDE DEF q
  <1>3. (-q) * Second = -(Second * q) /\ ((-q) - 1) * Second = -(Second * q) - Second
    BY <1>1, SecondAssumption
  <1>4. Second * q \in Int
    BY <1>1, SecondAssumption
  <1> QED
    BY <1>1, <1>2, <1>3, <1>4, SecondAssumption

\* Of a history in excess, the count-th hit from the end decides: a later hit
\* finds room if and only if that one has expired by then.
LEMMA DecisiveHit ==
  ASSUME NEW h \in Seq(Int), NEW t \in Int, NEW u \in Int, NEW r \in Rule,
         OrderedUpTo(h, t), OverLimit(h, r)
  PROVE  OverLimit(Hit(h, u, r), r) <=> h[Len(h) - r.count + 1] > u - Span(r)
  <1> DEFINE live == Trim(h, u, Span(r))
  <1>1. r.count \in Nat \ {0} /\ Span(r) \in Int
    BY SecondAssumption DEF Rule, Span
  <1>2. PICK size \in Nat : size = Len(h) /\ size > r.count
    BY DEF OverLimit
  <1>3. PICK m \in 1 .. size : m = size - r.count + 1
    BY <1>1, <1>2
  <1>4. PICK k \in 0 .. size :
          /\ Len(live) = size - k
          /\ \A j \in 1 .. k : h[j] <= u - Span(r)
          /\ k < size => h[k + 1] > u - Span(r)
    BY <1>1, <1>2, TrimDropsOldest
  <1>5. live \in Seq(Int)
    BY <1>1, TrimType
  <1>6. Len(Hit(h, u, r)) = IF size - k < r.count + 1 THEN size - k + 1 ELSE size - k
    <2>1. Len(Append(live, u)) = Len(live) + 1
      BY <1>5, AppendProperties
    <2> HIDE DEF live
    <2>2. Hit(h, u, r) = IF Len(live) < MaxHits(r) THEN Append(live, u) ELSE live
      BY DEF Hit, live
    <2> QED
      BY <1>4, <2>1, <2>2 DEF MaxHits
  <1>7. OverLimit(Hit(h, u, r), r) <=> k < m
    <2>1. OverLimit(Hit(h, u, r), r) <=> Len(Hit(h, u, r)) > r.count
      BY DEF OverLimit
    <2>2. size - k < r.count + 1 => (size - k + 1 > r.count <=> k < m)
      BY <1>1, <1>3, <1>4
    <2>3. ~(size - k < r.count + 1) => (size - k > r.count <=> k < m)
      BY <1>1, <1>3, <1>4
    <2> QED
      BY <1>6, <2>1, <2>2, <2>3
  <1>8. k < m <=> h[m] > u - Span(r)
    <2>1. PICK old \in Int, limit \in Int : old = h[m] /\ limit = u - Span(r)
      BY <1>1, <1>2
    <2>2. CASE k < m
      <3>1. k + 1 \in 1 .. size /\ k + 1 <= m /\ k < size
        BY <1>3, <1>4, <2>2
      <3>2. PICK young \in Int : young = h[k + 1]
        BY <1>2, <3>1
      <3>3. young > limit /\ young <= old
        BY <1>2, <1>3, <1>4, <2>1, <3>1, <3>2 DEF OrderedUpTo
      <3>4. old > limit
        BY <3>3
      <3> QED
        BY <2>1, <2>2, <3>4
    <2>3. CASE ~(k < m)
      <3>1. m \in 1 .. k
        BY <1>3, <1>4, <2>3
      <3>2. old <= limit
        BY <1>4, <2>1, <3>1
      <3>3. ~(old > limit)
        BY <3>2
      <3> QED
        BY <2>1, <2>3, <3>3
    <2> QED
      BY <2>2, <2>3
  <1> QED
    BY <1>2, <1>3, <1>7, <1>8
=============================================================================
