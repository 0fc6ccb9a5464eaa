------------------------ MODULE MemoryCounters_proofs -----------------------
(***************************************************************************)
(* Theorems about the counter table, for every set of clients, endpoints   *)
(* and policies, every table size and every grain of the clock; and about  *)
(* its uses: under policies that change at run time, for every number of   *)
(* concurrent calls and requests, and as the limiter WindowPromise.        *)
(***************************************************************************)
EXTENDS PolicyUpdates, MemoryCountersPromise, SlidingWindow_proofs, FiniteSetTheorems

-----------------------------------------------------------------------------
\* The table's types.

Times == 0 .. MaxTime

Admissions == Seq([at : Times, limit : Nat \ {0}])

\* A rule that reaches a counter is a Rule of the configuration.
LEMMA RuleIsRule ==
  ASSUME NEW c \in Counters, NEW r \in RulesAt(HandlerOf(c), IndexOf(c))
  PROVE  r \in Rule /\ Span(r) \in Nat \ {0} /\ r.count \in Nat \ {0}
  <1>1. HandlerOf(c) \in Handlers
    BY DEF Counters, HandlerOf
  <1>2. PICK p \in Policies : IndexOf(c) \in DOMAIN p[HandlerOf(c)] /\ r = p[HandlerOf(c)][IndexOf(c)]
    BY DEF RulesAt
  <1>3. p[HandlerOf(c)] \in Seq(Rule)
    BY <1>1, CountersAssumption
  <1>4. r \in Rule
    BY <1>2, <1>3
  <1> QED
    BY <1>4, SecondAssumption DEF Rule, Span

\* The rule a policy keeps for a counter is one of the rules that may reach it.
LEMMA RuleForIsRule ==
  ASSUME TypeOK, NEW p \in Policies, NEW c \in RuledBy(p)
  PROVE  RuleFor(c, p) \in RulesAt(HandlerOf(c), IndexOf(c)) /\ c \in Counters
  BY DEF RuledBy, RuleFor, RulesAt, TypeOK

\* Eviction only takes counters away.
LEMMA KeptIsKept ==
  ASSUME NEW c, NEW kept \in KeptBeforeHit(c)
  PROVE  kept \subseteq DOMAIN histories
  BY DEF KeptBeforeHit, EvictionOutcomes, MostRecentlyHit, NonEmpty

LEMMA HistoryType ==
  ASSUME TypeOK, NEW c
  PROVE  HistoryOf(c) \in Seq(Times)
  BY EmptySeq DEF HistoryOf, TypeOK, Times

\* The state has its shape, in every behaviour of the table.
THEOREM TypeCorrect == Spec => []TypeOK
  <1>1. Init => TypeOK
    BY FS_EmptySet, CountersAssumption DEF Init, TypeOK
  <1>2. TypeOK /\ [Next]_vars => TypeOK'
    <2> SUFFICES ASSUME TypeOK, [Next]_vars
                 PROVE  TypeOK'
      OBVIOUS
    <2> USE DEF Times
    <2>1. CASE Tick
      <3>1. now' \in 0 .. MaxTime
        BY <2>1, CountersAssumption DEF TypeOK, Tick
      <3> QED
        BY <2>1, <3>1 DEF TypeOK, Tick
    <2>2. ASSUME NEW c \in Counters, NEW r \in RulesAt(HandlerOf(c), IndexOf(c)),
                 RecordHit(c, r)
          PROVE  TypeOK'
      <3> DEFINE hit == Hit(HistoryOf(c), now, r)
      <3>1. PICK kept \in KeptBeforeHit(c) :
              /\ histories' = [d \in kept \cup {c} |-> IF d = c THEN hit ELSE histories[d]]
              /\ admitted' = [d \in Counters |->
                   IF d \in DOMAIN histories \ kept THEN <<>>
                   ELSE IF d = c /\ ~OverLimit(hit, r)
                        THEN Append(admitted[d], [at |-> now, limit |-> r.count])
                        ELSE admitted[d]]
              /\ trimmedBy' = [d \in Counters |->
                   IF d \in DOMAIN histories \ kept THEN {}
                   ELSE IF d = c THEN trimmedBy[d] \cup {Span(r)} ELSE trimmedBy[d]]
              /\ UNCHANGED now
        BY <2>2 DEF RecordHit
      <3>2. r \in Rule /\ Span(r) \in Nat \ {0} /\ r.count \in Nat \ {0}
        BY RuleIsRule
      <3>3. now \in Times /\ Times \in SUBSET Int /\ HistoryOf(c) \in Seq(Times)
        <4>1. HistoryOf(c) \in Seq(Times)
          BY HistoryType
        <4> QED
          BY <4>1 DEF TypeOK
      <3>4. hit \in Seq(Times)
        BY <3>2, <3>3, HitType
      <3>5. kept \subseteq DOMAIN histories
        BY KeptIsKept
      <3> HIDE DEF hit
      <3>6. DOMAIN histories' \subseteq Counters /\ IsFiniteSet(DOMAIN histories')
        <4>1. IsFiniteSet(kept)
          BY <3>5, FS_Subset DEF TypeOK
        <4> QED
          BY <3>1, <3>5, <4>1, FS_AddElement DEF TypeOK
      <3>7. histories' \in [DOMAIN histories' -> Seq(Times)]
        BY <3>1, <3>4, <3>5 DEF TypeOK
      <3>8. admitted' \in [Counters -> Admissions]
        <4>1. [at |-> now, limit |-> r.count] \in [at : Times, limit : Nat \ {0}]
          BY <3>2, <3>3
        <4>2. Append(admitted[c], [at |-> now, limit |-> r.count]) \in Admissions
          BY <4>1, AppendProperties DEF TypeOK, Admissions
        <4>3. <<>> \in Admissions
          BY EmptySeq DEF Admissions
        <4>4. \A d \in Counters : admitted[d] \in Admissions
          BY DEF TypeOK, Admissions
        <4> QED
          BY <3>1, <4>2, <4>3, <4>4
      <3>9. trimmedBy' \in [Counters -> SUBSET Nat]
        BY <3>1, <3>2 DEF TypeOK
      <3> QED
        BY <3>1, <3>3, <3>6, <3>7, <3>8, <3>9 DEF TypeOK, Admissions
    <2>3. ASSUME NEW h \in Handlers, CleanupHandler(h)
          PROVE  TypeOK'
      <3>1. DOMAIN histories' \subseteq DOMAIN histories
        BY <2>3 DEF CleanupHandler
      <3>2. IsFiniteSet(DOMAIN histories')
        BY <3>1, FS_Subset DEF TypeOK
      <3>3. histories' \in [DOMAIN histories' -> Seq(Times)]
        BY <2>3 DEF CleanupHandler, TypeOK
      <3>4. admitted' \in [Counters -> Admissions]
        BY <2>3, EmptySeq DEF CleanupHandler, TypeOK, Admissions
      <3>5. trimmedBy' \in [Counters -> SUBSET Nat] /\ now' \in Times
        BY <2>3 DEF CleanupHandler, TypeOK
      <3> QED
        BY <3>1, <3>2, <3>3, <3>4, <3>5 DEF TypeOK, Admissions
    <2>4. ASSUME NEW p \in Policies, CleanupOrphaned(p)
          PROVE  TypeOK'
      <3>1. \A c \in RuledBy(p) : c \in DOMAIN histories /\ Span(RuleFor(c, p)) \in Nat
        <4> SUFFICES ASSUME NEW c \in RuledBy(p)
                     PROVE  c \in DOMAIN histories /\ Span(RuleFor(c, p)) \in Nat
          OBVIOUS
        <4>1. RuleFor(c, p) \in RulesAt(HandlerOf(c), IndexOf(c)) /\ c \in Counters
          BY RuleForIsRule
        <4>2. c \in DOMAIN histories
          BY DEF RuledBy
        <4> QED
          BY <4>1, <4>2, RuleIsRule
      <3>2. DOMAIN histories' \subseteq DOMAIN histories
        BY <2>4, <3>1 DEF CleanupOrphaned
      <3>3. IsFiniteSet(DOMAIN histories')
        BY <3>2, FS_Subset DEF TypeOK
      <3>4. \A c \in RuledBy(p) : LiveUnder(c, p) \in Seq(Times)
        <4> SUFFICES ASSUME NEW c \in RuledBy(p)
                     PROVE  LiveUnder(c, p) \in Seq(Times)
          OBVIOUS
        <4>1. histories[c] \in Seq(Times) /\ now \in Int /\ Span(RuleFor(c, p)) \in Int
          BY <3>1 DEF TypeOK
        <4>2. Times \in SUBSET Int
          OBVIOUS
        <4> QED
          BY <4>1, <4>2, TrimType DEF LiveUnder
      <3>5. histories' \in [DOMAIN histories' -> Seq(Times)]
        BY <2>4, <3>4 DEF CleanupOrphaned
      <3>6. admitted' \in [Counters -> Admissions]
        BY <2>4, EmptySeq DEF CleanupOrphaned, TypeOK, Admissions
      <3>7. trimmedBy' \in [Counters -> SUBSET Nat] /\ now' \in Times
        BY <2>4, <3>1 DEF CleanupOrphaned, TypeOK
      <3> QED
        BY <3>2, <3>3, <3>5, <3>6, <3>7 DEF TypeOK, Admissions
    <2>5. CASE UNCHANGED vars
      BY <2>5 DEF vars, TypeOK
    <2> QED
      BY <2>1, <2>2, <2>3, <2>4, <2>5 DEF Next
  <1> QED
    BY <1>1, <1>2, PTL DEF Spec
-----------------------------------------------------------------------------
\* AdmittedSpread is not inductive: it says nothing of the history, on which the
\* next verdict depends.  What makes it so: an admitted hit that is younger than
\* every window that trimmed the counter is still in the history, with at least
\* as many hits behind it as were admitted after it.
AdmittedRemembered ==
  \A c \in Counters : \A i \in DOMAIN admitted[c] :
    (\A w \in trimmedBy[c] : admitted[c][i].at > now - w) =>
      Remembers(HistoryOf(c), admitted[c][i].at, Len(admitted[c]) - i)

\* The same two statements for one counter, as a step changes one at a time.
RememberedAt(c) ==
  \A i \in DOMAIN admitted[c] :
    (\A w \in trimmedBy[c] : admitted[c][i].at > now - w) =>
      Remembers(HistoryOf(c), admitted[c][i].at, Len(admitted[c]) - i)

SpreadAt(c) ==
  \A n \in DOMAIN admitted[c] :
    LET last == admitted[c][n]
    IN  n > last.limit =>
          \E w \in trimmedBy[c] : last.at - admitted[c][n - last.limit].at >= w

\* A counter whose log is emptied satisfies both; so does one left alone.
LEMMA ForgottenIsFine ==
  ASSUME NEW c, admitted'[c] = <<>>
  PROVE  RememberedAt(c)' /\ SpreadAt(c)'
  BY EmptySeq DEF RememberedAt, SpreadAt

LEMMA UntouchedIsFine ==
  ASSUME NEW c, RememberedAt(c), SpreadAt(c),
         admitted'[c] = admitted[c], trimmedBy'[c] = trimmedBy[c],
         HistoryOf(c)' = HistoryOf(c), now' = now
  PROVE  RememberedAt(c)' /\ SpreadAt(c)'
  BY DEF RememberedAt, SpreadAt

\* The counter that is hit: what its history remembers, and the verdict.
LEMMA HitIsFine ==
  ASSUME TypeOK, TypeOK', NEW c \in Counters, NEW r \in Rule,
         RememberedAt(c), SpreadAt(c),
         HistoryOf(c)' = Hit(HistoryOf(c), now, r),
         admitted'[c] = IF OverLimit(HistoryOf(c)', r) THEN admitted[c]
                        ELSE Append(admitted[c], [at |-> now, limit |-> r.count]),
         trimmedBy'[c] = trimmedBy[c] \cup {Span(r)},
         now' = now
  PROVE  RememberedAt(c)' /\ SpreadAt(c)'
  <1> DEFINE old == admitted[c]
             new == admitted'[c]
             h == HistoryOf(c)'
             seen == [at |-> now, limit |-> r.count]
             Fresh(a) == \A w \in trimmedBy'[c] : a > now - w
  <1>1. /\ now \in Int /\ r.count \in Nat \ {0} /\ Span(r) \in Int
        /\ HistoryOf(c) \in Seq(Int)
    <2>1. HistoryOf(c) \in Seq(Times)
      BY HistoryType
    <2>2. HistoryOf(c) \in Seq(Int)
      <3>1. Times \subseteq Int
        BY DEF Times
      <3> QED
        BY <2>1, <3>1, SeqMonotonic
    <2> QED
      BY <2>2, SecondAssumption DEF TypeOK, Span, Rule
  <1>2. h \in Seq(Int)
    BY <1>1, HitType
  <1>3. old \in Admissions /\ seen \in [at : Times, limit : Nat \ {0}]
    BY <1>1 DEF TypeOK, Admissions, Times
  <1>4. \A i \in 1 .. Len(old) : old[i] \in [at : Times, limit : Nat \ {0}]
    BY <1>3, ElementOfSeq DEF Admissions
  <1>5. Len(old) \in Nat /\ DOMAIN old = 1 .. Len(old)
    BY <1>3 DEF Admissions
  <1>6. /\ OverLimit(h, r) => new = old
        /\ ~OverLimit(h, r) => /\ Len(new) = Len(old) + 1
                               /\ DOMAIN new = 1 .. Len(old) + 1
                               /\ \A i \in 1 .. Len(old) : new[i] = old[i]
                               /\ new[Len(old) + 1] = seen
    <2>1. CASE OverLimit(h, r)
      BY <2>1
    <2>2. CASE ~OverLimit(h, r)
      <3>1. new = Append(old, seen)
        BY <2>2
      <3>2. Append(old, seen) \in Admissions
        BY <1>3, AppendProperties DEF Admissions
      <3> QED
        BY <2>2, <3>1, <3>2, <1>3, AppendProperties, LenProperties DEF Admissions
    <2> QED
      BY <2>1, <2>2
  \* Every fresh admission of old is remembered in h, with one more hit behind
  \* it if this one is admitted.
  <1>7. ASSUME NEW i \in 1 .. Len(old), Fresh(old[i].at)
        PROVE  Remembers(h, old[i].at, Len(new) - i)
    <2>1. Remembers(HistoryOf(c), old[i].at, Len(old) - i)
      BY <1>5, <1>7 DEF RememberedAt
    <2>2. old[i].at \in Int /\ old[i].at > now - Span(r) /\ Len(old) - i \in Int
      BY <1>4, <1>5, <1>7 DEF Times
    <2>3. /\ Remembers(h, old[i].at, Len(old) - i)
          /\ ~OverLimit(h, r) => Remembers(h, old[i].at, (Len(old) - i) + 1)
      BY <1>1, <2>1, <2>2, HitRemembers
    <2>4. CASE OverLimit(h, r)
      BY <1>6, <2>3, <2>4
    <2>5. CASE ~OverLimit(h, r)
      <3>1. Len(new) - i = (Len(old) - i) + 1
        BY <1>5, <1>6, <2>5
      <3> QED
        BY <2>3, <2>5, <3>1
    <2> QED
      BY <2>4, <2>5
  <1>8. RememberedAt(c)'
    <2> SUFFICES ASSUME NEW i \in DOMAIN new, Fresh(new[i].at)
                 PROVE  Remembers(h, new[i].at, Len(new) - i)
      BY DEF RememberedAt
    <2>1. CASE i \in 1 .. Len(old)
      BY <1>6, <1>7, <2>1
    <2>2. CASE i \notin 1 .. Len(old)
      <3>1. ~OverLimit(h, r) /\ i = Len(old) + 1
        BY <1>5, <1>6, <2>2
      <3>2. new[i].at = now /\ Len(new) - i = 0
        BY <1>5, <1>6, <3>1
      <3>3. Remembers(h, now, 0)
        BY <1>1, <3>1, HitRemembers
      <3> QED
        BY <3>2, <3>3
    <2> QED
      BY <2>1, <2>2
  <1>9. SpreadAt(c)'
    <2> SUFFICES ASSUME NEW n \in DOMAIN new, n > new[n].limit
                 PROVE  \E w \in trimmedBy'[c] : new[n].at - new[n - new[n].limit].at >= w
      BY DEF SpreadAt
    <2>1. CASE n \in 1 .. Len(old)
      <3>1. new[n] = old[n] /\ old[n].limit \in Nat \ {0}
        BY <1>4, <1>6, <2>1
      <3>2. n - old[n].limit \in 1 .. Len(old)
        BY <1>5, <2>1, <3>1
      <3>3. new[n - old[n].limit] = old[n - old[n].limit]
        BY <1>6, <3>2
      <3>4. \E w \in trimmedBy[c] : old[n].at - old[n - old[n].limit].at >= w
        BY <1>5, <2>1, <3>1 DEF SpreadAt
      <3> QED
        BY <3>1, <3>3, <3>4
    <2>2. CASE n \notin 1 .. Len(old)
      <3>1. ~OverLimit(h, r) /\ n = Len(old) + 1 /\ new[n] = seen
        BY <1>5, <1>6, <2>2
      <3>2. n - r.count \in 1 .. Len(old) /\ new[n].at = now /\ new[n].limit = r.count
        BY <1>1, <1>5, <3>1
      <3>3. new[n - r.count] = old[n - r.count] /\ Len(new) - (n - r.count) = r.count
        BY <1>1, <1>5, <1>6, <3>1, <3>2
      <3>4. SUFFICES ASSUME \A w \in trimmedBy'[c] : ~(now - old[n - r.count].at >= w)
                     PROVE  FALSE
        BY <3>2, <3>3
      <3>5. Fresh(old[n - r.count].at)
        <4>1. trimmedBy'[c] \in SUBSET Nat
          BY DEF TypeOK
        <4>2. old[n - r.count].at \in Int
          BY <1>4, <3>2 DEF Times
        <4>3. ASSUME NEW w \in trimmedBy'[c]
              PROVE  old[n - r.count].at > now - w
          <5>1. w \in Nat /\ ~(now - old[n - r.count].at >= w)
            BY <3>4, <4>1
          <5> QED
            BY <1>1, <4>2, <5>1
        <4> QED
          BY <4>3
      <3>6. Remembers(h, old[n - r.count].at, r.count)
        BY <1>7, <3>2, <3>3, <3>5
      <3>7. Len(h) > r.count
        BY <1>1, <1>2, <3>6 DEF Remembers
      <3> QED
        BY <3>1, <3>7 DEF OverLimit
    <2> QED
      BY <2>1, <2>2
  <1> QED
    BY <1>8, <1>9

\* A counter trimmed by a cleanup.
LEMMA TrimIsFine ==
  ASSUME TypeOK, NEW c \in DOMAIN histories, NEW r \in Rule,
         RememberedAt(c), SpreadAt(c),
         HistoryOf(c)' = Trim(histories[c], now, Span(r)),
         admitted'[c] = admitted[c],
         trimmedBy'[c] = trimmedBy[c] \cup {Span(r)},
         now' = now
  PROVE  RememberedAt(c)' /\ SpreadAt(c)'
  <1>1. c \in Counters /\ admitted[c] \in Admissions
    BY DEF TypeOK, Admissions, Times
  <1>2. \A i \in DOMAIN admitted[c] :
          /\ admitted[c][i].at \in Int
          /\ Len(admitted[c]) - i \in Int
          /\ admitted[c][i].limit \in Nat \ {0}
    <2>1. DOMAIN admitted[c] = 1 .. Len(admitted[c]) /\ Len(admitted[c]) \in Nat
      BY <1>1, LenProperties DEF Admissions
    <2>2. \A i \in DOMAIN admitted[c] : admitted[c][i] \in [at : Times, limit : Nat \ {0}]
      BY <1>1, <2>1, ElementOfSeq DEF Admissions
    <2> QED
      BY <2>1, <2>2 DEF Times
  <1>3. now \in Int /\ Span(r) \in Int /\ histories[c] \in Seq(Int)
    <2>1. histories[c] \in Seq(Times) /\ Times \subseteq Int
      BY DEF TypeOK, Times
    <2>2. histories[c] \in Seq(Int)
      BY <2>1, SeqMonotonic
    <2> QED
      BY <2>2, SecondAssumption DEF TypeOK, Span, Rule
  <1>4. HistoryOf(c) = histories[c]
    BY DEF HistoryOf
  <1>5. RememberedAt(c)'
    <2> SUFFICES ASSUME NEW i \in DOMAIN admitted[c],
                        \A w \in trimmedBy[c] \cup {Span(r)} : admitted[c][i].at > now - w
                 PROVE  Remembers(HistoryOf(c)', admitted[c][i].at, Len(admitted[c]) - i)
      BY DEF RememberedAt
    <2>1. Remembers(histories[c], admitted[c][i].at, Len(admitted[c]) - i)
      BY <1>4 DEF RememberedAt
    <2>2. admitted[c][i].at > now - Span(r)
      OBVIOUS
    <2>3. Remembers(Trim(histories[c], now, Span(r)), admitted[c][i].at, Len(admitted[c]) - i)
      BY <1>2, <1>3, <2>1, <2>2, TrimRemembers
    <2> QED
      BY <2>3
  <1>6. SpreadAt(c)'
    BY DEF SpreadAt
  <1> QED
    BY <1>5, <1>6

AdmissionInv == TypeOK /\ AdmittedRemembered /\ AdmittedSpread

LEMMA InvPerCounter ==
  ASSUME \A c \in Counters : RememberedAt(c) /\ SpreadAt(c)
  PROVE  AdmittedRemembered /\ AdmittedSpread
  BY DEF AdmittedRemembered, AdmittedSpread, RememberedAt, SpreadAt

LEMMA InvAtCounter ==
  ASSUME AdmittedRemembered, AdmittedSpread, NEW c \in Counters
  PROVE  RememberedAt(c) /\ SpreadAt(c)
  BY DEF AdmittedRemembered, AdmittedSpread, RememberedAt, SpreadAt

\* Time makes fewer admissions young and changes no history.
LEMMA TickIsFine ==
  ASSUME TypeOK, Tick, NEW c \in Counters, RememberedAt(c), SpreadAt(c)
  PROVE  RememberedAt(c)' /\ SpreadAt(c)'
  <1>1. /\ HistoryOf(c)' = HistoryOf(c) /\ admitted' = admitted
        /\ trimmedBy' = trimmedBy /\ now' = now + 1
    BY DEF Tick, HistoryOf
  <1>2. SpreadAt(c)'
    BY <1>1 DEF SpreadAt
  <1>3. ASSUME NEW i \in DOMAIN admitted[c], NEW w \in trimmedBy[c],
               admitted[c][i].at > now' - w
        PROVE  admitted[c][i].at > now - w
    <2>1. admitted[c] \in Admissions
      BY DEF TypeOK, Admissions, Times
    <2>2. admitted[c][i] \in [at : Times, limit : Nat \ {0}]
      <3>1. i \in 1 .. Len(admitted[c])
        BY <2>1, LenProperties DEF Admissions
      <3> QED
        BY <2>1, <3>1, ElementOfSeq DEF Admissions
    <2>3. admitted[c][i].at \in Int /\ now \in Int /\ w \in Nat
      BY <2>2 DEF TypeOK, Times
    <2> QED
      BY <1>1, <1>3, <2>3
  <1>4. RememberedAt(c)'
    BY <1>1, <1>3 DEF RememberedAt
  <1> QED
    BY <1>2, <1>4

\* A limit holds over every window, for every client, endpoint and policy, and
\* whatever the callers, the cleanups and the evictions do.
THEOREM LimitHolds == Spec => []AdmittedSpread
  <1>1. Init => AdmissionInv
    <2> SUFFICES ASSUME Init PROVE AdmissionInv
      OBVIOUS
    <2>1. TypeOK
      BY FS_EmptySet, CountersAssumption DEF Init, TypeOK
    <2>2. \A c \in Counters : RememberedAt(c) /\ SpreadAt(c)
      BY EmptySeq DEF Init, RememberedAt, SpreadAt
    <2> QED
      BY <2>1, <2>2, InvPerCounter DEF AdmissionInv
  <1>2. AdmissionInv /\ TypeOK' /\ [Next]_vars => AdmissionInv'
    <2> SUFFICES ASSUME AdmissionInv, TypeOK', [Next]_vars, NEW c \in Counters
                 PROVE  RememberedAt(c)' /\ SpreadAt(c)'
      BY DEF AdmissionInv, AdmittedRemembered, AdmittedSpread, RememberedAt, SpreadAt
    <2>0. TypeOK /\ RememberedAt(c) /\ SpreadAt(c)
      BY InvAtCounter DEF AdmissionInv
    <2>1. CASE Tick
      BY <2>0, <2>1, TickIsFine
    <2>2. ASSUME NEW d \in Counters, NEW r \in RulesAt(HandlerOf(d), IndexOf(d)),
                 RecordHit(d, r)
          PROVE  RememberedAt(c)' /\ SpreadAt(c)'
      <3> DEFINE hit == Hit(HistoryOf(d), now, r)
      <3>1. PICK kept \in KeptBeforeHit(d) :
              /\ histories' = [e \in kept \cup {d} |-> IF e = d THEN hit ELSE histories[e]]
              /\ admitted' = [e \in Counters |->
                   IF e \in DOMAIN histories \ kept THEN <<>>
                   ELSE IF e = d /\ ~OverLimit(hit, r)
                        THEN Append(admitted[e], [at |-> now, limit |-> r.count])
                        ELSE admitted[e]]
              /\ trimmedBy' = [e \in Counters |->
                   IF e \in DOMAIN histories \ kept THEN {}
                   ELSE IF e = d THEN trimmedBy[e] \cup {Span(r)} ELSE trimmedBy[e]]
              /\ UNCHANGED now
        BY <2>2 DEF RecordHit
      <3>2. kept \subseteq DOMAIN histories /\ d \notin DOMAIN histories \ kept
        BY KeptIsKept DEF KeptBeforeHit
      <3> HIDE DEF hit
      <3>3. CASE c \in DOMAIN histories \ kept
        BY <3>1, <3>3, ForgottenIsFine
      <3>4. CASE c = d
        <4>1. HistoryOf(c)' = hit
          BY <3>1, <3>4 DEF HistoryOf
        <4>2. admitted'[c] = IF OverLimit(hit, r) THEN admitted[c]
                             ELSE Append(admitted[c], [at |-> now, limit |-> r.count])
          BY <3>1, <3>2, <3>4
        <4>3. trimmedBy'[c] = trimmedBy[c] \cup {Span(r)}
          BY <3>1, <3>2, <3>4
        <4>4. r \in Rule /\ hit = Hit(HistoryOf(c), now, r) /\ now' = now
          BY <3>1, <3>4, RuleIsRule DEF hit
        <4> QED
          BY <2>0, <4>1, <4>2, <4>3, <4>4, HitIsFine
      <3>5. CASE c # d /\ c \notin DOMAIN histories \ kept
        <4>1. HistoryOf(c)' = HistoryOf(c)
          BY <3>1, <3>2, <3>5 DEF HistoryOf
        <4>2. admitted'[c] = admitted[c] /\ trimmedBy'[c] = trimmedBy[c] /\ now' = now
          BY <3>1, <3>5
        <4> QED
          BY <2>0, <4>1, <4>2, UntouchedIsFine
      <3> QED
        BY <3>3, <3>4, <3>5
    <2>3. ASSUME NEW h \in Handlers, CleanupHandler(h)
          PROVE  RememberedAt(c)' /\ SpreadAt(c)'
      <3>1. CASE c \in DOMAIN histories /\ HandlerOf(c) = h
        BY <2>3, <3>1, ForgottenIsFine DEF CleanupHandler
      <3>2. CASE ~(c \in DOMAIN histories /\ HandlerOf(c) = h)
        <4>1. HistoryOf(c)' = HistoryOf(c)
          BY <2>3, <3>2 DEF CleanupHandler, HistoryOf
        <4>2. admitted'[c] = admitted[c] /\ trimmedBy'[c] = trimmedBy[c] /\ now' = now
          BY <2>3, <3>2 DEF CleanupHandler
        <4> QED
          BY <2>0, <4>1, <4>2, UntouchedIsFine
      <3> QED
        BY <3>1, <3>2
    <2>4. ASSUME NEW p \in Policies, CleanupOrphaned(p)
          PROVE  RememberedAt(c)' /\ SpreadAt(c)'
      <3>1. CASE c \in DOMAIN histories \ RuledBy(p)
        BY <2>4, <3>1, ForgottenIsFine DEF CleanupOrphaned
      <3>2. CASE c \in RuledBy(p)
        <4>1. c \in DOMAIN histories /\ RuleFor(c, p) \in Rule
          BY <2>0, <3>2, RuleForIsRule, RuleIsRule DEF RuledBy
        <4>2. HistoryOf(c)' = LiveUnder(c, p)
          BY <2>4, <3>2, <4>1 DEF CleanupOrphaned, HistoryOf
        <4>3. /\ admitted'[c] = admitted[c] /\ now' = now
              /\ trimmedBy'[c] = trimmedBy[c] \cup {Span(RuleFor(c, p))}
          BY <2>4, <3>2, <4>1 DEF CleanupOrphaned
        <4> QED
          BY <2>0, <4>1, <4>2, <4>3, TrimIsFine DEF LiveUnder
      <3>3. CASE c \notin DOMAIN histories
        <4>1. HistoryOf(c)' = HistoryOf(c)
          BY <2>4, <3>3 DEF CleanupOrphaned, HistoryOf, RuledBy
        <4>2. admitted'[c] = admitted[c] /\ trimmedBy'[c] = trimmedBy[c] /\ now' = now
          BY <2>4, <3>3 DEF CleanupOrphaned, RuledBy
        <4> QED
          BY <2>0, <4>1, <4>2, UntouchedIsFine
      <3> QED
        BY <3>1, <3>2, <3>3
    <2>5. CASE UNCHANGED vars
      <3>1. HistoryOf(c)' = HistoryOf(c)
        BY <2>5 DEF vars, HistoryOf
      <3> QED
        BY <2>0, <2>5, <3>1, UntouchedIsFine DEF vars
    <2> QED
      BY <2>1, <2>2, <2>3, <2>4, <2>5 DEF Next
  <1>3. AdmissionInv => AdmittedSpread
    BY DEF AdmissionInv
  <1> QED
    BY <1>1, <1>2, <1>3, TypeCorrect, PTL DEF Spec
-----------------------------------------------------------------------------
\* A pass of the eviction leaves room for one counter.
LEMMA EvictionMakesRoom ==
  ASSUME NEW c, c \notin DOMAIN histories, NEW kept \in KeptBeforeHit(c)
  PROVE  Cardinality(kept) < MaxCounters
  <1>1. kept \in EvictionOutcomes
    BY DEF KeptBeforeHit
  <1>2. TrimBy >= 1 /\ TrimBy \in Int
    BY CountersAssumption DEF TrimBy
  <1>3. TargetSize < MaxCounters
    BY <1>2, CountersAssumption DEF TargetSize
  <1>4. CASE Cardinality(DOMAIN histories) < MaxCounters
    BY <1>1, <1>4 DEF EvictionOutcomes
  <1>5. CASE ~(Cardinality(DOMAIN histories) < MaxCounters) /\ Cardinality(NonEmpty) < MaxCounters
    BY <1>1, <1>5 DEF EvictionOutcomes
  <1>6. CASE ~(Cardinality(DOMAIN histories) < MaxCounters) /\ ~(Cardinality(NonEmpty) < MaxCounters)
    BY <1>1, <1>3, <1>6 DEF EvictionOutcomes, MostRecentlyHit
  <1> QED
    BY <1>4, <1>5, <1>6

\* However many clients there are, the table stays within its bound.
THEOREM TableStaysBounded == Spec => []TableBounded
  <1>1. Init => TableBounded
    BY FS_EmptySet, CountersAssumption DEF Init, TableBounded
  <1>2. TypeOK /\ TypeOK' /\ TableBounded /\ [Next]_vars => TableBounded'
    <2> SUFFICES ASSUME TypeOK, TypeOK', TableBounded, [Next]_vars
                 PROVE  Cardinality(DOMAIN histories') <= MaxCounters
      BY DEF TableBounded
    <2>0. /\ IsFiniteSet(DOMAIN histories) /\ Cardinality(DOMAIN histories) \in Nat
          /\ Cardinality(DOMAIN histories) <= MaxCounters /\ MaxCounters \in Nat
      BY FS_CardinalityType, CountersAssumption DEF TypeOK, TableBounded
    <2>1. ASSUME DOMAIN histories' \subseteq DOMAIN histories
          PROVE  Cardinality(DOMAIN histories') <= MaxCounters
      <3>1. /\ Cardinality(DOMAIN histories') <= Cardinality(DOMAIN histories)
            /\ Cardinality(DOMAIN histories') \in Nat
        BY <2>0, <2>1, FS_Subset, FS_CardinalityType
      <3> QED
        BY <2>0, <3>1
    <2>2. CASE Tick
      BY <2>1, <2>2 DEF Tick
    <2>3. ASSUME NEW c \in Counters, NEW r \in RulesAt(HandlerOf(c), IndexOf(c)),
                 RecordHit(c, r)
          PROVE  Cardinality(DOMAIN histories') <= MaxCounters
      <3>1. PICK kept \in KeptBeforeHit(c) : DOMAIN histories' = kept \cup {c}
        BY <2>3 DEF RecordHit
      <3>2. kept \subseteq DOMAIN histories
        BY KeptIsKept
      <3>3. CASE c \in DOMAIN histories
        BY <2>1, <3>1, <3>2, <3>3
      <3>4. CASE c \notin DOMAIN histories
        <4>1. Cardinality(kept) < MaxCounters
          BY <3>4, EvictionMakesRoom
        <4>2. IsFiniteSet(kept) /\ Cardinality(kept) \in Nat
          BY <2>0, <3>2, FS_Subset, FS_CardinalityType
        <4>3. Cardinality(kept \cup {c}) <= Cardinality(kept) + 1
          <5>1. Cardinality(kept \cup {c}) =
                  IF c \in kept THEN Cardinality(kept) ELSE Cardinality(kept) + 1
            BY <4>2, FS_AddElement
          <5> QED
            BY <4>2, <5>1
        <4>4. Cardinality(kept \cup {c}) \in Nat
          BY <4>2, FS_AddElement, FS_CardinalityType
        <4> QED
          BY <2>0, <3>1, <4>1, <4>2, <4>3, <4>4
      <3> QED
        BY <3>3, <3>4
    <2>4. ASSUME NEW h \in Handlers, CleanupHandler(h)
          PROVE  Cardinality(DOMAIN histories') <= MaxCounters
      BY <2>1, <2>4 DEF CleanupHandler
    <2>5. ASSUME NEW p \in Policies, CleanupOrphaned(p)
          PROVE  Cardinality(DOMAIN histories') <= MaxCounters
      BY <2>1, <2>5 DEF CleanupOrphaned, RuledBy
    <2>6. CASE UNCHANGED vars
      BY <2>1, <2>6 DEF vars
    <2> QED
      BY <2>2, <2>3, <2>4, <2>5, <2>6 DEF Next
  <1> QED
    BY <1>1, <1>2, TypeCorrect, PTL DEF Spec
-----------------------------------------------------------------------------
\* No counter is ever empty or out of clock order between two operations.
THEOREM OrderHolds == Spec => []HistoriesOrdered
  <1>1. Init => HistoriesOrdered
    BY DEF Init, HistoriesOrdered
  <1>2. TypeOK /\ HistoriesOrdered /\ [Next]_vars => HistoriesOrdered'
    <2> SUFFICES ASSUME TypeOK, HistoriesOrdered, [Next]_vars, NEW c \in DOMAIN histories'
                 PROVE  OrderedUpTo(histories'[c], now')
      BY DEF HistoriesOrdered, OrderedUpTo
    <2>0. \A d \in DOMAIN histories : OrderedUpTo(histories[d], now) /\ histories[d] \in Seq(Int)
      <3>1. Times \subseteq Int
        BY DEF Times
      <3>2. \A d \in DOMAIN histories : histories[d] \in Seq(Times)
        BY DEF TypeOK, Times
      <3>3. \A d \in DOMAIN histories : histories[d] \in Seq(Int)
        BY <3>1, <3>2, SeqMonotonic
      <3> QED
        BY <3>3 DEF HistoriesOrdered, OrderedUpTo
    <2>00. now \in Int
      BY DEF TypeOK
    <2>1. CASE Tick
      BY <2>0, <2>00, <2>1, LaterIsFine DEF Tick
    <2>2. ASSUME NEW d \in Counters, NEW r \in RulesAt(HandlerOf(d), IndexOf(d)),
                 RecordHit(d, r)
          PROVE  OrderedUpTo(histories'[c], now')
      <3> DEFINE hit == Hit(HistoryOf(d), now, r)
      <3>1. PICK kept \in KeptBeforeHit(d) :
              /\ histories' = [e \in kept \cup {d} |-> IF e = d THEN hit ELSE histories[e]]
              /\ now' = now
        BY <2>2 DEF RecordHit
      <3>2. r \in Rule
        BY RuleIsRule
      <3>3. HistoryOf(d) \in Seq(Int) /\ (HistoryOf(d) = <<>> \/ OrderedUpTo(HistoryOf(d), now))
        BY <2>0, EmptySeq DEF HistoryOf
      <3>4. OrderedUpTo(hit, now)
        BY <2>00, <3>2, <3>3, HitKeepsOrder
      <3>5. kept \subseteq DOMAIN histories
        BY KeptIsKept
      <3> HIDE DEF hit
      <3> QED
        BY <2>0, <3>1, <3>4, <3>5
    <2>3. ASSUME NEW h \in Handlers, CleanupHandler(h)
          PROVE  OrderedUpTo(histories'[c], now')
      BY <2>0, <2>3 DEF CleanupHandler
    <2>4. ASSUME NEW p \in Policies, CleanupOrphaned(p)
          PROVE  OrderedUpTo(histories'[c], now')
      <3>1. /\ c \in RuledBy(p) /\ LiveUnder(c, p) # <<>>
            /\ histories'[c] = LiveUnder(c, p) /\ now' = now
        BY <2>4 DEF CleanupOrphaned
      <3>2. c \in DOMAIN histories
        BY <3>1 DEF RuledBy
      <3>3. Span(RuleFor(c, p)) \in Int
        BY <3>1, RuleForIsRule, RuleIsRule
      <3> QED
        BY <2>0, <2>00, <3>1, <3>2, <3>3, TrimKeepsOrder DEF LiveUnder
    <2>5. CASE UNCHANGED vars
      BY <2>0, <2>5 DEF vars
    <2> QED
      BY <2>1, <2>2, <2>3, <2>4, <2>5 DEF Next
  <1> QED
    BY <1>1, <1>2, TypeCorrect, PTL DEF Spec
-----------------------------------------------------------------------------
\* When a client that was refused may come back.

\* A client told to retry after s seconds is let through then and not a second
\* earlier, under whatever rules its counter was filled (policy.py evaluate,
\* memory.py record_hit).
THEOREM RetryAfterIsExact == Spec => []RetryAfterExact
  <1>1. TypeOK /\ HistoriesOrdered => RetryAfterExact
    <2> SUFFICES ASSUME TypeOK, HistoriesOrdered,
                        NEW c \in DOMAIN histories,
                        NEW r \in RulesAt(HandlerOf(c), IndexOf(c)),
                        OverLimit(Hit(histories[c], now, r), r)
                 PROVE  LET h == Hit(histories[c], now, r)
                            s == RetryAfterSeconds(h, now, r)
                        IN  /\ ~OverLimit(Hit(h, now + s * Second, r), r)
                            /\ s > 1 => OverLimit(Hit(h, now + (s - 1) * Second, r), r)
      BY DEF RetryAfterExact
    <2>1. r \in Rule /\ r.count \in Nat \ {0} /\ Span(r) \in Nat
      BY RuleIsRule DEF TypeOK, Rule
    <2>2. now \in Int /\ histories[c] \in Seq(Int)
      <3>1. histories[c] \in Seq(Times) /\ Times \subseteq Int
        BY DEF TypeOK, Times
      <3> QED
        BY <3>1, SeqMonotonic DEF TypeOK
    <2> DEFINE h == Hit(histories[c], now, r)
    <2>3. OrderedUpTo(h, now)
      BY <2>1, <2>2, HitKeepsOrder DEF HistoriesOrdered, OrderedUpTo
    <2>4. h \in Seq(Int)
      BY <2>1, <2>2, HitType
    <2>5. OverLimit(h, r)
      OBVIOUS
    <2> HIDE DEF h
    <2>6. PICK from \in Int : from = h[Len(h) - r.count + 1] /\ RetryFrom(h, r) = from
      <3>1. Len(h) \in Nat /\ Len(h) > r.count
        BY <2>4, <2>5 DEF OverLimit
      <3>2. Len(h) >= MaxHits(r) /\ Len(h) - MaxHits(r) + 2 = Len(h) - r.count + 1
        BY <2>1, <3>1 DEF MaxHits
      <3>3. Len(h) - r.count + 1 \in 1 .. Len(h)
        BY <2>1, <3>1
      <3> QED
        BY <2>4, <3>2, <3>3 DEF RetryFrom
    <2> DEFINE wait == Span(r) - (now - from)
    <2>7. PICK s \in Int : /\ s = RetryAfterSeconds(h, now, r)
                           /\ s = IF CeilSeconds(wait) < 1 THEN 1 ELSE CeilSeconds(wait)
      <3>1. CeilSeconds(wait) \in Int
        BY <2>1, <2>2, CeilSecondsRoundsUp
      <3>2. RetryAfterSeconds(h, now, r) = IF CeilSeconds(wait) < 1 THEN 1 ELSE CeilSeconds(wait)
        BY <2>6 DEF RetryAfterSeconds
      <3> QED
        BY <3>1, <3>2
    <2>8. wait \in Int
      BY <2>1, <2>2, <2>6
    <2>9. s * Second >= wait /\ s * Second \in Int
      <3>1. CASE CeilSeconds(wait) < 1
        <4>1. CeilSeconds(wait) * Second <= 0
          BY <2>8, <3>1, CeilSecondsRoundsUp, SecondAssumption
        <4>2. CeilSeconds(wait) * Second \in Int /\ CeilSeconds(wait) * Second >= wait
          BY <2>8, CeilSecondsRoundsUp, SecondAssumption
        <4> HIDE DEF wait
        <4> QED
          BY <2>7, <2>8, <3>1, <4>1, <4>2, SecondAssumption
      <3>2. CASE ~(CeilSeconds(wait) < 1)
        BY <2>7, <2>8, <3>2, CeilSecondsRoundsUp, SecondAssumption
      <3> QED
        BY <3>1, <3>2
    <2>10. s > 1 => (s - 1) * Second < wait /\ (s - 1) * Second \in Int
      BY <2>7, <2>8, CeilSecondsRoundsUp, SecondAssumption
    <2>11. ~OverLimit(Hit(h, now + s * Second, r), r)
      <3>1. PICK later \in Int : later = now + s * Second
        BY <2>2, <2>9
      <3>2. PICK span \in Int : span = Span(r)
        BY <2>1
      <3>3. ~(from > later - span)
        <4>1. PICK ticks \in Int : ticks = s * Second
          BY <2>9
        <4>2. ticks >= span - (now - from) /\ later = now + ticks
          BY <2>9, <3>1, <3>2, <4>1
        <4> QED
          BY <2>2, <4>2
      <3>4. ~(h[Len(h) - r.count + 1] > later - Span(r))
        BY <2>6, <3>2, <3>3
      <3>5. ~OverLimit(Hit(h, later, r), r)
        BY <2>1, <2>2, <2>3, <2>4, <2>5, <3>4, DecisiveHit
      <3> QED
        BY <3>1, <3>5
    <2>12. s > 1 => OverLimit(Hit(h, now + (s - 1) * Second, r), r)
      <3>1. SUFFICES ASSUME s > 1
                     PROVE  OverLimit(Hit(h, now + (s - 1) * Second, r), r)
        OBVIOUS
      <3>2. PICK ticks \in Int : ticks = (s - 1) * Second /\ ticks < wait
        BY <2>10, <3>1
      <3>3. PICK later \in Int : later = now + ticks
        BY <2>2
      <3>4. PICK span \in Int : span = Span(r)
        BY <2>1
      <3>5. from > later - span
        <4>1. ticks < span - (now - from)
          BY <3>2, <3>4
        <4> QED
          BY <2>2, <3>3, <4>1
      <3>6. h[Len(h) - r.count + 1] > later - Span(r)
        BY <2>6, <3>4, <3>5
      <3>7. OverLimit(Hit(h, later, r), r)
        BY <2>1, <2>2, <2>3, <2>4, <2>5, <3>6, DecisiveHit
      <3> QED
        BY <3>2, <3>3, <3>7
    <2> QED
      BY <2>7, <2>11, <2>12 DEF h
  <1> QED
    BY <1>1, TypeCorrect, OrderHolds, PTL
-----------------------------------------------------------------------------
\* What an eviction costs.

EvictsFromACrowd ==
  DOMAIN histories' \ DOMAIN histories # {} =>
    \A d \in DOMAIN histories \ DOMAIN histories' :
      Cardinality({c \in DOMAIN histories' : LastHit(c)' >= LastHit(d)}) > TargetSize

\* A counter is evicted only when TargetSize others and the new one have been hit
\* since (memory.py _evict_counters_if_needed).
THEOREM EvictionIsFair == Spec => EvictionNeedsCrowd
  <1>1. TypeOK /\ HistoriesOrdered /\ [Next]_vars => [EvictsFromACrowd]_vars
    <2> SUFFICES ASSUME TypeOK, HistoriesOrdered, Next
                 PROVE  EvictsFromACrowd
      OBVIOUS
    <2>1. CASE DOMAIN histories' \subseteq DOMAIN histories
      BY <2>1 DEF EvictsFromACrowd
    <2>2. ASSUME NEW c \in Counters, NEW r \in RulesAt(HandlerOf(c), IndexOf(c)),
                 RecordHit(c, r), c \notin DOMAIN histories,
                 NEW d \in DOMAIN histories \ DOMAIN histories'
          PROVE  Cardinality({e \in DOMAIN histories' : LastHit(e)' >= LastHit(d)}) > TargetSize
      <3> DEFINE hit == Hit(HistoryOf(c), now, r)
      <3>1. PICK kept \in KeptBeforeHit(c) :
              histories' = [e \in kept \cup {c} |-> IF e = c THEN hit ELSE histories[e]]
        BY <2>2 DEF RecordHit
      <3>2. hit = <<now>> /\ now \in Int
        <4>1. r \in Rule /\ now \in Int
          BY RuleIsRule DEF TypeOK
        <4> QED
          BY <2>2, <4>1, FirstHit DEF HistoryOf
      <3> HIDE DEF hit
      <3>3. DOMAIN histories' = kept \cup {c} /\ kept \subseteq DOMAIN histories /\ d \notin kept
        BY <2>2, <3>1, KeptIsKept
      <3>4. NonEmpty = DOMAIN histories
        BY DEF NonEmpty, HistoriesOrdered
      <3>5. kept \in MostRecentlyHit
        <4>1. kept \in EvictionOutcomes
          BY <2>2 DEF KeptBeforeHit
        <4> QED
          BY <2>2, <3>3, <3>4, <4>1 DEF EvictionOutcomes
      <3>6. Cardinality(kept) = TargetSize /\ \A e \in kept : LastHit(d) <= LastHit(e)
        BY <2>2, <3>3, <3>4, <3>5 DEF MostRecentlyHit
      <3>7. \A e \in DOMAIN histories : LastHit(e) \in Int /\ LastHit(e) <= now
        <4> SUFFICES ASSUME NEW e \in DOMAIN histories
                     PROVE  LastHit(e) \in Int /\ LastHit(e) <= now
          OBVIOUS
        <4>1. histories[e] \in Seq(Times) /\ histories[e] # <<>>
          BY DEF TypeOK, HistoriesOrdered, Times
        <4>2. PICK n \in Nat \ {0} : n = Len(histories[e])
          BY <4>1, EmptySeq
        <4>3. histories[e][n] \in Times
          BY <4>1, <4>2, ElementOfSeq
        <4>4. histories[e][n] <= now
          BY <4>1, <4>2 DEF HistoriesOrdered
        <4> QED
          BY <4>2, <4>3, <4>4 DEF LastHit, Times
      <3>8. ASSUME NEW e \in kept \cup {c}
            PROVE  LastHit(e)' >= LastHit(d)
        <4>1. CASE e = c
          <5>1. LastHit(e)' = now
            BY <3>1, <3>2, <4>1 DEF LastHit
          <5> QED
            BY <2>2, <3>2, <3>7, <5>1
        <4>2. CASE e # c
          <5>1. LastHit(e)' = LastHit(e)
            BY <3>1, <4>2 DEF LastHit
          <5> QED
            BY <2>2, <3>3, <3>6, <3>7, <4>2, <5>1
        <4> QED
          BY <4>1, <4>2
      <3>9. {e \in DOMAIN histories' : LastHit(e)' >= LastHit(d)} = kept \cup {c}
        BY <3>3, <3>8
      <3>10. Cardinality(kept \cup {c}) = TargetSize + 1 /\ TargetSize \in Int
        <4>1. IsFiniteSet(kept) /\ c \notin kept
          BY <2>2, <3>3, FS_Subset DEF TypeOK
        <4>2. Cardinality(kept \cup {c}) = Cardinality(kept) + 1 /\ Cardinality(kept) \in Nat
          BY <4>1, FS_AddElement, FS_CardinalityType
        <4> QED
          BY <3>6, <4>2
      <3> QED
        BY <3>9, <3>10
    <2>3. ASSUME NEW c \in Counters, NEW r \in RulesAt(HandlerOf(c), IndexOf(c)),
                 RecordHit(c, r)
          PROVE  EvictsFromACrowd
      <3>1. CASE c \in DOMAIN histories
        <4>1. DOMAIN histories' \subseteq DOMAIN histories
          BY <2>3, <3>1, KeptIsKept DEF RecordHit
        <4> QED
          BY <2>1, <4>1
      <3>2. CASE c \notin DOMAIN histories
        BY <2>2, <2>3, <3>2 DEF EvictsFromACrowd
      <3> QED
        BY <3>1, <3>2
    <2>4. CASE Tick
      BY <2>1, <2>4 DEF Tick
    <2>5. ASSUME NEW h \in Handlers, CleanupHandler(h)
          PROVE  EvictsFromACrowd
      BY <2>1, <2>5 DEF CleanupHandler
    <2>6. ASSUME NEW p \in Policies, CleanupOrphaned(p)
          PROVE  EvictsFromACrowd
      <3>1. DOMAIN histories' \subseteq DOMAIN histories
        BY <2>6 DEF CleanupOrphaned, RuledBy
      <3> QED
        BY <2>1, <3>1
    <2> QED
      BY <2>3, <2>4, <2>5, <2>6 DEF Next
  <1> QED
    BY <1>1, TypeCorrect, OrderHolds, PTL DEF Spec, EvictionNeedsCrowd, EvictsFromACrowd
-----------------------------------------------------------------------------
(***************************************************************************)
(* Policies changed at run time.  The system only ever uses the counter    *)
(* table as MemoryCounters allows, so that the theorems about the table    *)
(* hold in it, and updates disturb no more than they must.                 *)
(***************************************************************************)

\* A policy of the configuration gives every handler a sequence of rules.
LEMMA PolicyType ==
  ASSUME NEW p \in Policies, NEW h \in Handlers
  PROVE  p[h] \in Seq(Rule) /\ Len(p[h]) \in Nat /\ DOMAIN p[h] = 1 .. Len(p[h])
  BY CountersAssumption

\* What a request records a hit for is a counter, under one of its rules.
LEMMA TurnIsRuled ==
  ASSUME NEW r, IsEvaluation(r)
  PROVE  LET c == <<r.keys[r.next], r.handler, r.next>>
         IN  /\ c \in Counters /\ HandlerOf(c) = r.handler
             /\ r.rules[r.next] \in RulesAt(HandlerOf(c), IndexOf(c))
  <1> DEFINE c == <<r.keys[r.next], r.handler, r.next>>
  <1>1. PICK p \in Policies : r.rules = p[r.handler]
    BY DEF IsEvaluation
  <1>2. r.handler \in Handlers /\ r.next \in DOMAIN p[r.handler]
    BY <1>1, PolicyType DEF IsEvaluation
  <1>3. r.next \in Indices
    BY <1>2 DEF Indices
  <1>4. r.keys[r.next] \in RequestKeys
    BY <1>1, <1>2 DEF IsEvaluation
  <1>5. r.rules[r.next] \in RulesAt(r.handler, r.next)
    BY <1>1, <1>2 DEF RulesAt
  <1> QED
    BY <1>2, <1>3, <1>4, <1>5 DEF Counters, HandlerOf, IndexOf

\* A request that has read its rules is at the first of them.
LEMMA FirstTurn ==
  ASSUME NEW h \in Handlers, policies \in Policies, policies[h] # <<>>,
         NEW keys \in [DOMAIN policies[h] -> RequestKeys], generation[h] \in Nat
  PROVE  IsEvaluation([at |-> "evaluating", handler |-> h, rules |-> policies[h],
                       keys |-> keys, next |-> 1, generation |-> generation[h]])
  <1>1. policies[h] \in Seq(Rule) /\ Len(policies[h]) \in Nat
    BY PolicyType
  <1>2. 1 \in 1 .. Len(policies[h])
    BY <1>1, EmptySeq
  <1> QED
    BY <1>2 DEF IsEvaluation

\* The loop stops behind the last rule.
LEMMA ProceedIsFine ==
  ASSUME NEW r, IsEvaluation(r)
  PROVE  /\ Proceed(r) = Evaluated \/ IsEvaluation(Proceed(r))
         /\ Proceed(r).at = "evaluating" =>
              Proceed(r).handler = r.handler /\ Proceed(r).generation = r.generation
  <1>1. PICK p \in Policies : r.rules = p[r.handler]
    BY DEF IsEvaluation
  <1>2. Len(r.rules) \in Nat /\ r.next \in 1 .. Len(r.rules)
    BY <1>1, PolicyType DEF IsEvaluation
  <1>3. CASE r.next = Len(r.rules)
    BY <1>3 DEF Proceed, Evaluated
  <1>4. CASE r.next # Len(r.rules)
    <2> DEFINE s == [r EXCEPT !.next = @ + 1]
    <2>1. r.next + 1 \in 1 .. Len(r.rules)
      BY <1>2, <1>4
    <2>2. Proceed(r) = s
      BY <1>4 DEF Proceed
    <2>3. /\ DOMAIN s = DOMAIN r /\ s.next = r.next + 1
          /\ s.at = r.at /\ s.handler = r.handler /\ s.rules = r.rules
          /\ s.keys = r.keys /\ s.generation = r.generation
      BY DEF IsEvaluation
    <2>4. IsEvaluation(s)
      BY <2>1, <2>3 DEF IsEvaluation
    <2> QED
      BY <2>2, <2>3, <2>4
  <1> QED
    BY <1>3, <1>4
-----------------------------------------------------------------------------
\* The calls and requests keep their shape, in every behaviour.
THEOREM UpdatesTypeCorrect == UpdatesSpec => []UpdatesTypeOK
  <1>1. UpdatesInit => UpdatesTypeOK
    BY DEF UpdatesInit, UpdatesTypeOK
  <1>2. UpdatesTypeOK /\ [UpdatesNext]_updateVars => UpdatesTypeOK'
    <2> SUFFICES ASSUME UpdatesTypeOK, [UpdatesNext]_updateVars
                 PROVE  UpdatesTypeOK'
      OBVIOUS
    <2>1. CASE UpdatesTick
      BY <2>1 DEF UpdatesTick, steps, ghosts, UpdatesTypeOK
    <2>2. ASSUME NEW u \in Updaters, NEW h \in Handlers, NEW rules, Swap(u, h, rules)
          PROVE  UpdatesTypeOK'
      <3>1. policies' \in Policies /\ UNCHANGED <<request, recordedBy>>
        BY <2>2 DEF Swap
      <3>2. updater' \in [Updaters -> {Waiting} \cup Calls]
        BY <2>2, <3>1 DEF Swap, Snapshot, Calls, UpdatesTypeOK
      <3>3. generation' \in [Handlers -> Nat]
        BY <2>2 DEF Swap, UpdatesTypeOK
      <3>4. UnderEvaluation(h) \subseteq Nat
        <4> SUFFICES ASSUME NEW g \in UnderEvaluation(h)
                     PROVE  g \in Nat
          OBVIOUS
        <4>1. PICK q \in Requests : request[q].at = "evaluating" /\ g = request[q].generation
          BY DEF UnderEvaluation
        <4>2. IsEvaluation(request[q])
          BY <4>1 DEF UpdatesTypeOK, Waiting, Evaluated
        <4> QED
          BY <4>1, <4>2 DEF IsEvaluation
      <3>5. late' \in [Handlers -> SUBSET Nat]
        BY <2>2, <3>4 DEF Swap, UpdatesTypeOK
      <3>6. copied' \in [Updaters -> [Handlers -> Nat]]
        BY <2>2, <3>3 DEF Swap, UpdatesTypeOK
      <3> QED
        BY <3>1, <3>2, <3>3, <3>5, <3>6 DEF UpdatesTypeOK
    <2>3. ASSUME NEW u \in Updaters, CleanHandler(u) \/ CleanOrphans(u)
          PROVE  UpdatesTypeOK'
      <3>1. updater[u] \in Calls
        BY <2>3 DEF CleanHandler, CleanOrphans, UpdatesTypeOK, Waiting
      <3>2. updater' \in [Updaters -> {Waiting} \cup Calls]
        <4>1. /\ [updater[u] EXCEPT !.at = "cleaned"] \in Calls
              /\ [updater[u] EXCEPT !.at = "returned"] \in Calls
          BY <3>1 DEF Calls
        <4>2. \/ updater' = [updater EXCEPT ![u] = [updater[u] EXCEPT !.at = "cleaned"]]
              \/ updater' = [updater EXCEPT ![u] = [updater[u] EXCEPT !.at = "returned"]]
          BY <2>3 DEF CleanHandler, CleanOrphans, UpdatesTypeOK
        <4> QED
          BY <4>1, <4>2 DEF UpdatesTypeOK
      <3>3. recordedBy' \in [Counters -> SUBSET Nat]
        BY <2>3 DEF CleanHandler, CleanOrphans, ForgetDropped, UpdatesTypeOK
      <3> QED
        BY <2>3, <3>2, <3>3 DEF CleanHandler, CleanOrphans, UpdatesTypeOK
    <2>4. ASSUME NEW q \in Requests, NEW h \in Handlers,
                 NEW keys \in [DOMAIN policies[h] -> RequestKeys], ReadRules(q, h, keys)
          PROVE  UpdatesTypeOK'
      <3> DEFINE r == [at |-> "evaluating", handler |-> h, rules |-> policies[h],
                       keys |-> keys, next |-> 1, generation |-> generation[h]]
      <3>1. IsEvaluation(r)
        BY <2>4, FirstTurn DEF ReadRules, UpdatesTypeOK
      <3> HIDE DEF r
      <3>2. request' = [request EXCEPT ![q] = r]
        BY <2>4 DEF ReadRules, r
      <3>3. DOMAIN request' = Requests
        BY <3>2 DEF UpdatesTypeOK
      <3>4. ASSUME NEW z \in Requests
            PROVE  request'[z] \in {Waiting, Evaluated} \/ IsEvaluation(request'[z])
        BY <3>1, <3>2 DEF UpdatesTypeOK
      <3>5. UNCHANGED <<policies, updater, ghosts>>
        BY <2>4 DEF ReadRules
      <3> QED
        BY <3>3, <3>4, <3>5 DEF UpdatesTypeOK, ghosts, IsEvaluation
    <2>5. ASSUME NEW q \in Requests, Evaluate(q)
          PROVE  UpdatesTypeOK'
      <3> DEFINE r == request[q]
      <3>1. IsEvaluation(r)
        BY <2>5 DEF Evaluate, UpdatesTypeOK, Waiting, Evaluated
      <3>2. Proceed(r) = Evaluated \/ IsEvaluation(Proceed(r))
        BY <3>1, ProceedIsFine
      <3>3. request' = [request EXCEPT ![q] = Proceed(r)]
        BY <2>5 DEF Evaluate
      <3>4. DOMAIN request' = Requests
        BY <3>3 DEF UpdatesTypeOK
      <3>5. ASSUME NEW z \in Requests
            PROVE  request'[z] \in {Waiting, Evaluated} \/ IsEvaluation(request'[z])
        BY <3>2, <3>3 DEF UpdatesTypeOK
      <3>6. recordedBy' \in [Counters -> SUBSET Nat]
        BY <2>5, <3>1 DEF Evaluate, UpdatesTypeOK, IsEvaluation
      <3>7. UNCHANGED <<policies, updater, generation, late, copied>>
        BY <2>5 DEF Evaluate
      <3> QED
        BY <3>4, <3>5, <3>6, <3>7 DEF UpdatesTypeOK, IsEvaluation
    <2>6. CASE UNCHANGED updateVars
      BY <2>6 DEF updateVars, steps, ghosts, UpdatesTypeOK
    <2> QED
      BY <2>1, <2>2, <2>3, <2>4, <2>5, <2>6 DEF UpdatesNext
  <1> QED
    BY <1>1, <1>2, PTL DEF UpdatesSpec
-----------------------------------------------------------------------------
\* Calls and requests use the counter table as MemoryCounters lets arbitrary
\* callers use it: every theorem about the table holds beside them.
THEOREM UpdatesUseTable == UpdatesSpec => Spec
  <1>1. UpdatesInit => Init
    BY DEF UpdatesInit
  <1>2. UpdatesTypeOK /\ [UpdatesNext]_updateVars => [Next]_vars
    <2> SUFFICES ASSUME UpdatesTypeOK, [UpdatesNext]_updateVars
                 PROVE  [Next]_vars
      OBVIOUS
    <2>1. CASE UpdatesTick
      BY <2>1 DEF UpdatesTick, Next
    <2>2. ASSUME NEW u \in Updaters, NEW h \in Handlers, NEW rules, Swap(u, h, rules)
          PROVE  [Next]_vars
      BY <2>2 DEF Swap
    <2>3. ASSUME NEW u \in Updaters, CleanHandler(u)
          PROVE  [Next]_vars
      <3>1. updater[u].handler \in Handlers
        BY <2>3 DEF CleanHandler, UpdatesTypeOK, Calls, Waiting
      <3> QED
        BY <2>3, <3>1 DEF CleanHandler, Next
    <2>4. ASSUME NEW u \in Updaters, CleanOrphans(u)
          PROVE  [Next]_vars
      <3>1. updater[u].snapshot \in Policies
        BY <2>4 DEF CleanOrphans, UpdatesTypeOK, Calls, Waiting
      <3> QED
        BY <2>4, <3>1 DEF CleanOrphans, Next
    <2>5. ASSUME NEW q \in Requests, NEW h, NEW keys, ReadRules(q, h, keys)
          PROVE  [Next]_vars
      BY <2>5 DEF ReadRules
    <2>6. ASSUME NEW q \in Requests, Evaluate(q)
          PROVE  [Next]_vars
      <3> DEFINE r == request[q]
                 c == <<r.keys[r.next], r.handler, r.next>>
      <3>1. IsEvaluation(r)
        BY <2>6 DEF Evaluate, UpdatesTypeOK, Waiting, Evaluated
      <3>2. c \in Counters /\ r.rules[r.next] \in RulesAt(HandlerOf(c), IndexOf(c))
        BY <3>1, TurnIsRuled
      <3>3. RecordHit(c, r.rules[r.next])
        BY <2>6 DEF Evaluate
      <3> QED
        BY <3>2, <3>3 DEF Next
    <2>7. CASE UNCHANGED updateVars
      BY <2>7 DEF updateVars
    <2> QED
      BY <2>1, <2>2, <2>3, <2>4, <2>5, <2>6, <2>7 DEF UpdatesNext
  <1> QED
    BY <1>1, <1>2, UpdatesTypeCorrect, PTL DEF UpdatesSpec, Spec

\* A limit of L means L under policy changes too (AdmittedSpread).
THEOREM LimitHoldsUnderUpdates == UpdatesSpec => []AdmittedSpread
  BY UpdatesUseTable, LimitHolds, PTL
-----------------------------------------------------------------------------
\* OldHitsAreLate is inductive with two more facts: a request under evaluation
\* read the rules in force or was there at the last swap, and a counter that
\* does not exist has been hit by nobody.
Fresh(h) == {generation[h]} \cup late[h]

EvaluationsAreLate == \A h \in Handlers : UnderEvaluation(h) \subseteq Fresh(h)

NoHitsElsewhere == \A c \in Counters \ DOMAIN histories : recordedBy[c] = {}

Swapping(h) == \E u \in Updaters : updater[u].at = "swapped" /\ updater[u].handler = h

FreshStartInv ==
  /\ EvaluationsAreLate
  /\ NoHitsElsewhere
  /\ \A h \in Handlers : ~Swapping(h) =>
       \A c \in Counters : HandlerOf(c) = h => recordedBy[c] \subseteq Fresh(h)

THEOREM FreshStart == UpdatesSpec => []OldHitsAreLate
  <1>1. UpdatesInit => FreshStartInv
    BY DEF UpdatesInit, FreshStartInv, EvaluationsAreLate, NoHitsElsewhere, UnderEvaluation, Waiting
  <1>2. TypeOK /\ UpdatesTypeOK /\ UpdatesTypeOK' /\ FreshStartInv /\ [UpdatesNext]_updateVars
          => FreshStartInv'
    <2> SUFFICES ASSUME TypeOK, UpdatesTypeOK, UpdatesTypeOK', FreshStartInv,
                        [UpdatesNext]_updateVars
                 PROVE  FreshStartInv'
      OBVIOUS
    <2>1. CASE UpdatesTick
      BY <2>1 DEF UpdatesTick, Tick, steps, ghosts, FreshStartInv, EvaluationsAreLate,
                  NoHitsElsewhere, UnderEvaluation, Swapping, Fresh
    <2>2. ASSUME NEW u \in Updaters, NEW h \in Handlers, NEW rules, Swap(u, h, rules)
          PROVE  FreshStartInv'
      <3>1. UNCHANGED <<histories, request, recordedBy>>
        BY <2>2 DEF Swap, vars
      <3>2. \A g \in Handlers : UnderEvaluation(g)' = UnderEvaluation(g)
        BY <3>1 DEF UnderEvaluation
      <3>3. /\ late'[h] = UnderEvaluation(h)
            /\ \A g \in Handlers \ {h} : Fresh(g)' = Fresh(g)
        BY <2>2 DEF Swap, UpdatesTypeOK, Fresh
      <3>4. EvaluationsAreLate'
        BY <3>2, <3>3 DEF FreshStartInv, EvaluationsAreLate, Fresh
      <3>5. NoHitsElsewhere'
        BY <3>1 DEF FreshStartInv, NoHitsElsewhere
      <3>6. updater'[u].at = "swapped" /\ updater'[u].handler = h
        BY <2>2 DEF Swap, UpdatesTypeOK
      <3>7. Swapping(h)'
        BY <3>6 DEF Swapping
      <3>8. \A z \in Updaters : updater[z].at = "swapped" => updater'[z] = updater[z]
        BY <2>2 DEF Swap, UpdatesTypeOK, Waiting
      <3>9. \A g \in Handlers : Swapping(g) => Swapping(g)'
        BY <3>8 DEF Swapping
      <3> QED
        BY <3>1, <3>3, <3>4, <3>5, <3>7, <3>9 DEF FreshStartInv
    <2>3. ASSUME NEW u \in Updaters, CleanHandler(u)
          PROVE  FreshStartInv'
      <3> DEFINE h == updater[u].handler
      <3>1. /\ UNCHANGED <<request, generation, late>>
            /\ DOMAIN histories' = {c \in DOMAIN histories : HandlerOf(c) # h}
            /\ recordedBy' = [c \in Counters |-> IF c \in DOMAIN histories' THEN recordedBy[c] ELSE {}]
        BY <2>3 DEF CleanHandler, CleanupHandler, ForgetDropped
      <3>2. EvaluationsAreLate'
        BY <3>1 DEF FreshStartInv, EvaluationsAreLate, UnderEvaluation, Fresh
      <3>3. NoHitsElsewhere'
        BY <3>1 DEF NoHitsElsewhere
      <3>4. \A z \in Updaters \ {u} : updater'[z] = updater[z]
        BY <2>3 DEF CleanHandler, UpdatesTypeOK
      <3>5. ASSUME NEW g \in Handlers, ~Swapping(g)',
                   NEW c \in Counters, HandlerOf(c) = g
            PROVE  recordedBy'[c] \subseteq Fresh(g)'
        <4>1. CASE g = h
          BY <3>1, <3>5, <4>1
        <4>2. CASE g # h
          <5>1. ~Swapping(g)
            BY <3>4, <3>5, <4>2 DEF Swapping
          <5> QED
            BY <3>1, <3>5, <5>1 DEF FreshStartInv, Fresh
        <4> QED
          BY <4>1, <4>2
      <3> QED
        BY <3>2, <3>3, <3>5 DEF FreshStartInv
    <2>4. ASSUME NEW u \in Updaters, CleanOrphans(u)
          PROVE  FreshStartInv'
      <3>1. /\ UNCHANGED <<request, generation, late>>
            /\ recordedBy' = [c \in Counters |-> IF c \in DOMAIN histories' THEN recordedBy[c] ELSE {}]
        BY <2>4 DEF CleanOrphans, ForgetDropped
      <3>2. EvaluationsAreLate'
        BY <3>1 DEF FreshStartInv, EvaluationsAreLate, UnderEvaluation, Fresh
      <3>3. NoHitsElsewhere'
        BY <3>1 DEF NoHitsElsewhere
      <3>4. \A z \in Updaters : updater[z].at = "swapped" => updater'[z] = updater[z]
        BY <2>4 DEF CleanOrphans, UpdatesTypeOK
      <3>5. \A g \in Handlers : Swapping(g) => Swapping(g)'
        BY <3>4 DEF Swapping
      <3> QED
        BY <3>1, <3>2, <3>3, <3>5 DEF FreshStartInv, Fresh
    <2>5. ASSUME NEW q \in Requests, NEW h \in Handlers, NEW keys, ReadRules(q, h, keys)
          PROVE  FreshStartInv'
      <3>1. UNCHANGED <<histories, updater, generation, recordedBy, late>>
        BY <2>5 DEF ReadRules, vars, ghosts
      <3>2. /\ request'[q].generation = generation[h] /\ request'[q].handler = h
            /\ \A z \in Requests \ {q} : request'[z] = request[z]
        BY <2>5 DEF ReadRules, UpdatesTypeOK
      <3>3. ASSUME NEW g \in Handlers, NEW n \in UnderEvaluation(g)'
            PROVE  n \in Fresh(g)
        <4>1. PICK z \in Requests :
                /\ request'[z].at = "evaluating" /\ request'[z].handler = g
                /\ n = request'[z].generation
          BY <3>3 DEF UnderEvaluation
        <4>2. CASE z = q
          BY <3>2, <4>1, <4>2 DEF Fresh
        <4>3. CASE z # q
          BY <3>2, <4>1, <4>3 DEF FreshStartInv, EvaluationsAreLate, UnderEvaluation
        <4> QED
          BY <4>2, <4>3
      <3>4. EvaluationsAreLate'
        BY <3>1, <3>3 DEF EvaluationsAreLate, Fresh
      <3> QED
        BY <3>1, <3>4 DEF FreshStartInv, NoHitsElsewhere, Swapping, Fresh
    <2>6. ASSUME NEW q \in Requests, Evaluate(q)
          PROVE  FreshStartInv'
      <3> DEFINE r == request[q]
                 c == <<r.keys[r.next], r.handler, r.next>>
      <3>1. IsEvaluation(r)
        BY <2>6 DEF Evaluate, UpdatesTypeOK, Waiting, Evaluated
      <3>2. c \in Counters /\ HandlerOf(c) = r.handler /\ r.handler \in Handlers
        BY <3>1, TurnIsRuled DEF IsEvaluation
      <3>3. /\ UNCHANGED <<updater, generation, late>>
            /\ request' = [request EXCEPT ![q] = Proceed(r)]
            /\ recordedBy' = [d \in Counters |->
                 IF d = c THEN recordedBy[d] \cup {r.generation}
                 ELSE IF d \in DOMAIN histories' THEN recordedBy[d] ELSE {}]
        BY <2>6 DEF Evaluate
      <3>4. c \in DOMAIN histories'
        BY <2>6 DEF Evaluate, RecordHit
      <3>5. NoHitsElsewhere'
        BY <3>3, <3>4 DEF NoHitsElsewhere
      <3>6. r.at = "evaluating" /\ r.generation \in UnderEvaluation(r.handler)
        BY <3>1 DEF IsEvaluation, UnderEvaluation
      <3>7. r.generation \in Fresh(r.handler)
        BY <3>2, <3>6 DEF FreshStartInv, EvaluationsAreLate
      <3>8. ASSUME NEW g \in Handlers
            PROVE  UnderEvaluation(g)' \subseteq UnderEvaluation(g)
        <4> SUFFICES ASSUME NEW n \in UnderEvaluation(g)'
                     PROVE  n \in UnderEvaluation(g)
          OBVIOUS
        <4>1. PICK z \in Requests :
                /\ request'[z].at = "evaluating" /\ request'[z].handler = g
                /\ n = request'[z].generation
          BY DEF UnderEvaluation
        <4>2. CASE z = q
          <5>1. request'[z] = Proceed(r)
            BY <3>3, <4>2 DEF UpdatesTypeOK
          <5>2. r.handler = g /\ n = r.generation
            BY <3>1, <4>1, <5>1, ProceedIsFine
          <5> QED
            BY <3>6, <5>2
        <4>3. CASE z # q
          BY <3>3, <4>1, <4>3 DEF UpdatesTypeOK, UnderEvaluation
        <4> QED
          BY <4>2, <4>3
      <3>9. EvaluationsAreLate'
        BY <3>3, <3>8 DEF FreshStartInv, EvaluationsAreLate, Fresh
      <3>10. ASSUME NEW g \in Handlers, ~Swapping(g)', NEW d \in Counters, HandlerOf(d) = g
             PROVE  recordedBy'[d] \subseteq Fresh(g)'
        <4>1. recordedBy[d] \subseteq Fresh(g) /\ Fresh(g)' = Fresh(g)
          BY <3>3, <3>10 DEF FreshStartInv, Swapping, Fresh
        <4>2. d = c => r.generation \in Fresh(g)
          BY <3>2, <3>7, <3>10
        <4> QED
          BY <3>3, <4>1, <4>2
      <3> QED
        BY <3>5, <3>9, <3>10 DEF FreshStartInv
    <2>7. CASE UNCHANGED updateVars
      BY <2>7 DEF updateVars, vars, steps, ghosts, FreshStartInv, EvaluationsAreLate,
                  NoHitsElsewhere, UnderEvaluation, Swapping, Fresh
    <2> QED
      BY <2>1, <2>2, <2>3, <2>4, <2>5, <2>6, <2>7 DEF UpdatesNext
  <1>3. TypeOK /\ FreshStartInv => OldHitsAreLate
    BY DEF TypeOK, FreshStartInv, OldHitsAreLate, Swapping, Fresh
  <1>4. UpdatesSpec => []TypeOK
    BY UpdatesUseTable, TypeCorrect, PTL
  <1> QED
    BY <1>1, <1>2, <1>3, <1>4, UpdatesTypeCorrect, PTL DEF UpdatesSpec
-----------------------------------------------------------------------------
\* A call whose copy of h's rules is as old as the rules in force has copied
\* those.
CopiesAgree ==
  \A u \in Updaters, h \in Handlers :
    /\ copied[u][h] <= generation[h]
    /\ updater[u] # Waiting /\ copied[u][h] = generation[h] =>
         updater[u].snapshot[h] = policies[h]

LEMMA CopiesAlwaysAgree == UpdatesSpec => []CopiesAgree
  <1>1. UpdatesInit => CopiesAgree
    BY DEF UpdatesInit, CopiesAgree
  <1>2. UpdatesTypeOK /\ CopiesAgree /\ [UpdatesNext]_updateVars => CopiesAgree'
    <2> SUFFICES ASSUME UpdatesTypeOK, CopiesAgree, [UpdatesNext]_updateVars
                 PROVE  CopiesAgree'
      OBVIOUS
    <2>1. CASE UpdatesTick
      BY <2>1 DEF UpdatesTick, steps, ghosts, CopiesAgree
    <2>2. ASSUME NEW u \in Updaters, NEW h \in Handlers, NEW rules, Swap(u, h, rules)
          PROVE  CopiesAgree'
      <3>1. /\ generation'[h] = generation[h] + 1 /\ generation[h] \in Nat
            /\ \A g \in Handlers \ {h} : generation'[g] = generation[g]
        BY <2>2 DEF Swap, UpdatesTypeOK
      <3>2. \A g \in Handlers \ {h} : policies'[g] = policies[g]
        BY <2>2, CountersAssumption DEF Swap, UpdatesTypeOK
      <3>3. /\ copied'[u] = generation' /\ updater'[u].snapshot = policies'
            /\ \A z \in Updaters \ {u} : copied'[z] = copied[z] /\ updater'[z] = updater[z]
        BY <2>2 DEF Swap, Snapshot, UpdatesTypeOK
      <3>4. ASSUME NEW z \in Updaters, NEW g \in Handlers
            PROVE  /\ copied'[z][g] <= generation'[g]
                   /\ updater'[z] # Waiting /\ copied'[z][g] = generation'[g] =>
                        updater'[z].snapshot[g] = policies'[g]
        <4>1. copied[z][g] \in Nat /\ generation[g] \in Nat
          BY DEF UpdatesTypeOK
        <4>2. CASE z = u
          BY <3>1, <3>3, <4>1, <4>2
        <4>3. CASE z # u /\ g = h
          BY <3>1, <3>3, <4>1, <4>3 DEF CopiesAgree
        <4>4. CASE z # u /\ g # h
          BY <3>1, <3>2, <3>3, <4>1, <4>4 DEF CopiesAgree
        <4> QED
          BY <4>2, <4>3, <4>4
      <3> QED
        BY <3>4 DEF CopiesAgree
    <2>3. ASSUME NEW u \in Updaters, CleanHandler(u) \/ CleanOrphans(u)
          PROVE  CopiesAgree'
      <3>1. UNCHANGED <<policies, generation, copied>>
        BY <2>3 DEF CleanHandler, CleanOrphans
      <3>2. updater[u] # Waiting /\ updater'[u].snapshot = updater[u].snapshot
        BY <2>3 DEF CleanHandler, CleanOrphans, UpdatesTypeOK, Waiting, Calls
      <3>3. \A z \in Updaters \ {u} : updater'[z] = updater[z]
        BY <2>3 DEF CleanHandler, CleanOrphans, UpdatesTypeOK
      <3> QED
        BY <3>1, <3>2, <3>3 DEF CopiesAgree
    <2>4. ASSUME NEW q \in Requests, NEW h, NEW keys, ReadRules(q, h, keys)
          PROVE  CopiesAgree'
      BY <2>4 DEF ReadRules, ghosts, CopiesAgree
    <2>5. ASSUME NEW q \in Requests, Evaluate(q)
          PROVE  CopiesAgree'
      BY <2>5 DEF Evaluate, CopiesAgree
    <2>6. CASE UNCHANGED updateVars
      BY <2>6 DEF updateVars, steps, ghosts, CopiesAgree
    <2> QED
      BY <2>1, <2>2, <2>3, <2>4, <2>5, <2>6 DEF UpdatesNext
  <1> QED
    BY <1>1, <1>2, UpdatesTypeCorrect, PTL DEF UpdatesSpec

\* What one step of call u leaves of the hits of c, a counter of another handler.
Spared(u, c) ==
  LET h == HandlerOf(c)
      left == IF c \in DOMAIN histories' THEN histories'[c] ELSE <<>>
  IN  h # updater[u].handler /\ copied[u][h] = generation[h] =>
        Trim(left, now, Span(RuleFor(c, policies))) = LiveUnder(c, policies)

\* An update of one endpoint takes no hit that another endpoint still counts,
\* unless that other endpoint's rules were replaced meanwhile.
THEOREM StrangersAreKept == UpdatesSpec => StrangersKept
  <1>1. ASSUME TypeOK, UpdatesTypeOK, CopiesAgree, [UpdatesNext]_updateVars,
               NEW u \in Updaters, updater'[u] # updater[u], updater[u] # Waiting,
               NEW c \in RuledBy(policies)
        PROVE  Spared(u, c)
    <2>1. /\ c \in DOMAIN histories /\ c \in Counters /\ HandlerOf(c) \in Handlers
          /\ histories[c] \in Seq(Int) /\ now \in Int /\ Span(RuleFor(c, policies)) \in Int
      <3>1. c \in DOMAIN histories /\ c \in Counters
        BY <1>1 DEF RuledBy, TypeOK
      <3>2. RuleFor(c, policies) \in RulesAt(HandlerOf(c), IndexOf(c))
        BY <1>1, RuleForIsRule DEF UpdatesTypeOK
      <3>3. Span(RuleFor(c, policies)) \in Int
        BY <3>1, <3>2, RuleIsRule
      <3>4. histories[c] \in Seq(Times) /\ Times \subseteq Int
        BY <1>1, <3>1 DEF TypeOK, Times
      <3>5. histories[c] \in Seq(Int)
        BY <3>4, SeqMonotonic
      <3> QED
        BY <1>1, <3>1, <3>3, <3>5 DEF TypeOK, Counters, HandlerOf
    <2>2. CASE CleanHandler(u)
      <3>1. HandlerOf(c) # updater[u].handler => c \in DOMAIN histories' /\ histories'[c] = histories[c]
        BY <2>1, <2>2 DEF CleanHandler, CleanupHandler
      <3> QED
        BY <3>1 DEF Spared, LiveUnder
    <2>3. CASE CleanOrphans(u)
      <3> DEFINE p == updater[u].snapshot
                 live == LiveUnder(c, policies)
      <3> SUFFICES ASSUME copied[u][HandlerOf(c)] = generation[HandlerOf(c)]
                   PROVE  Trim(IF c \in DOMAIN histories' THEN histories'[c] ELSE <<>>,
                               now, Span(RuleFor(c, policies))) = live
        BY DEF Spared
      <3>1. p[HandlerOf(c)] = policies[HandlerOf(c)]
        BY <1>1, <2>1 DEF CopiesAgree
      <3>2. c \in RuledBy(p) /\ LiveUnder(c, p) = live
        BY <1>1, <3>1 DEF RuledBy, LiveUnder, RuleFor
      <3>3. histories' = [d \in {e \in RuledBy(p) : LiveUnder(e, p) # <<>>} |-> LiveUnder(d, p)]
        BY <2>3 DEF CleanOrphans, CleanupOrphaned
      <3>4. (IF c \in DOMAIN histories' THEN histories'[c] ELSE <<>>) = live
        BY <3>2, <3>3
      <3>5. Trim(live, now, Span(RuleFor(c, policies))) = live
        BY <2>1, TrimIdempotent DEF LiveUnder
      <3> QED
        BY <3>4, <3>5
    <2>4. CleanHandler(u) \/ CleanOrphans(u)
      <3>1. CASE UpdatesTick \/ UNCHANGED updateVars
        BY <1>1, <3>1 DEF UpdatesTick, updateVars, steps
      <3>2. ASSUME NEW z \in Updaters, NEW h, NEW rules, Swap(z, h, rules)
            PROVE  FALSE
        BY <1>1, <3>2 DEF Swap, UpdatesTypeOK
      <3>3. ASSUME NEW z \in Updaters, CleanHandler(z) \/ CleanOrphans(z)
            PROVE  z = u
        BY <1>1, <3>3 DEF CleanHandler, CleanOrphans, UpdatesTypeOK
      <3>4. ASSUME NEW q \in Requests, Evaluate(q) \/ \E h, keys : ReadRules(q, h, keys)
            PROVE  FALSE
        BY <1>1, <3>4 DEF Evaluate, ReadRules
      <3> QED
        BY <1>1, <3>1, <3>2, <3>3, <3>4 DEF UpdatesNext
    <2> QED
      BY <2>2, <2>3, <2>4
  <1>2. TypeOK /\ UpdatesTypeOK /\ CopiesAgree /\ [UpdatesNext]_updateVars =>
          \A u \in Updaters : updater'[u] # updater[u] /\ updater[u] # Waiting =>
            \A c \in RuledBy(policies) :
              LET h == HandlerOf(c)
                  left == IF c \in DOMAIN histories' THEN histories'[c] ELSE <<>>
              IN  h # updater[u].handler /\ copied[u][h] = generation[h] =>
                    Trim(left, now, Span(RuleFor(c, policies))) = LiveUnder(c, policies)
    BY <1>1 DEF Spared
  <1>3. UpdatesSpec => []TypeOK
    BY UpdatesUseTable, TypeCorrect, PTL
  <1> QED
    BY <1>2, <1>3, UpdatesTypeCorrect, CopiesAlwaysAgree, PTL DEF UpdatesSpec, StrangersKept
-----------------------------------------------------------------------------
(***************************************************************************)
(* The counter table implements WindowPromise.                             *)
(***************************************************************************)

\* The last n elements of s, or all of them.
Latest(s, n) == IF Len(s) <= n THEN s ELSE SubSeq(s, Len(s) - n + 1, Len(s))

\* Counted from the end, the latest elements of s are those of s.
LEMMA LatestProperties ==
  ASSUME NEW s \in Seq(Int), NEW n \in Nat \ {0}
  PROVE  LET z == Latest(s, n)
         IN  /\ z \in Seq(Int)
             /\ Len(z) = IF Len(s) <= n THEN Len(s) ELSE n
             /\ \A m \in 1 .. Len(z) : z[Len(z) + 1 - m] = s[Len(s) + 1 - m]
  <1>1. PICK k \in Nat : k = Len(s)
    OBVIOUS
  <1>2. CASE k <= n
    BY <1>1, <1>2 DEF Latest
  <1>3. CASE k > n
    <2> DEFINE z == SubSeq(s, k - n + 1, k)
    <2>1. Latest(s, n) = z
      BY <1>1, <1>3 DEF Latest
    <2>2. \A i \in k - n + 1 .. k : s[i] \in Int
      <3> TAKE i \in k - n + 1 .. k
      <3>1. i \in 1 .. Len(s)
        BY <1>1, <1>3
      <3> QED
        BY <3>1, ElementOfSeq
    <2>3. k - n + 1 \in Int /\ k \in Int /\ k - n + 1 <= k /\ k - (k - n + 1) + 1 = n
      BY <1>3
    <2>4. z \in Seq(Int) /\ Len(z) = n /\ \A i \in 1 .. n : z[i] = s[(k - n + 1) + i - 1]
      BY <2>2, <2>3, SubSeqProperties
    <2> HIDE DEF z
    <2>5. ASSUME NEW m \in 1 .. n
          PROVE  z[n + 1 - m] = s[k + 1 - m]
      <3>1. n + 1 - m \in 1 .. n /\ (k - n + 1) + (n + 1 - m) - 1 = k + 1 - m
        BY <1>3
      <3> QED
        BY <2>4, <3>1
    <2> QED
      BY <1>1, <1>3, <2>1, <2>4, <2>5
  <1> QED
    BY <1>1, <1>2, <1>3

\* What appending does, counted from the end.
LEMMA AppendFromEnd ==
  ASSUME NEW s \in Seq(Int), NEW x \in Int
  PROVE  LET z == Append(s, x)
         IN  /\ z \in Seq(Int)
             /\ Len(z) = Len(s) + 1
             /\ z[Len(s) + 1] = x
             /\ \A m \in 1 .. Len(s) : z[Len(s) + 1 - m] = s[Len(s) + 1 - m]
  <1>1. PICK k \in Nat : k = Len(s)
    OBVIOUS
  <1>2. PICK z \in Seq(Int) : /\ z = Append(s, x)
                              /\ Len(z) = k + 1
                              /\ \A i \in 1 .. k : z[i] = s[i]
                              /\ z[k + 1] = x
    BY <1>1, AppendProperties
  <1>3. ASSUME NEW m \in 1 .. k
        PROVE  z[k + 1 - m] = s[k + 1 - m]
    <2>1. k + 1 - m \in 1 .. k
      OBVIOUS
    <2> QED
      BY <1>2, <2>1
  <1> QED
    BY <1>1, <1>2, <1>3

\* The latest of an extended log, counted from the end.
LEMMA LatestOfAppend ==
  ASSUME NEW s \in Seq(Int), NEW x \in Int, NEW n \in Nat \ {0}
  PROVE  LET z == Latest(Append(s, x), n)
         IN  /\ z \in Seq(Int)
             /\ Len(z) = IF Len(s) + 1 <= n THEN Len(s) + 1 ELSE n
             /\ z[Len(z)] = x
             /\ \A m \in 1 .. Len(z) - 1 : z[Len(z) - m] = s[Len(s) + 1 - m]
  <1>1. PICK k \in Nat : k = Len(s)
    OBVIOUS
  <1>2. PICK e \in Seq(Int) : /\ e = Append(s, x)
                              /\ Len(e) = k + 1
                              /\ e[k + 1] = x
                              /\ \A m \in 1 .. k : e[k + 1 - m] = s[k + 1 - m]
    <2>1. PICK e \in Seq(Int) : /\ e = Append(s, x)
                                /\ Len(e) = Len(s) + 1
                                /\ e[Len(s) + 1] = x
                                /\ \A m \in 1 .. Len(s) : e[Len(s) + 1 - m] = s[Len(s) + 1 - m]
      BY AppendFromEnd
    <2> QED
      BY <1>1, <2>1
  <1>3. PICK z \in Seq(Int) : /\ z = Latest(e, n)
                              /\ Len(z) = IF Len(e) <= n THEN Len(e) ELSE n
                              /\ \A m \in 1 .. Len(z) : z[Len(z) + 1 - m] = e[Len(e) + 1 - m]
    BY LatestProperties
  <1>4. PICK size \in Nat \ {0} : /\ size = Len(z)
                                  /\ size = IF k + 1 <= n THEN k + 1 ELSE n
                                  /\ size <= k + 1
    BY <1>2, <1>3
  <1>5. \A m \in 1 .. size : z[size + 1 - m] = e[k + 1 + 1 - m]
    BY <1>2, <1>3, <1>4
  <1>6. z[size] = x
    <2>1. 1 \in 1 .. size /\ size + 1 - 1 = size /\ k + 1 + 1 - 1 = k + 1
      OBVIOUS
    <2> QED
      BY <1>2, <1>5, <2>1
  <1>7. ASSUME NEW m \in 1 .. size - 1
        PROVE  z[size - m] = s[k + 1 - m]
    <2>1. /\ m + 1 \in 1 .. size /\ size + 1 - (m + 1) = size - m
          /\ k + 1 + 1 - (m + 1) = k + 1 - m /\ m \in 1 .. k
      BY <1>4
    <2>2. z[size - m] = e[k + 1 - m]
      BY <1>5, <2>1
    <2> QED
      BY <1>2, <2>1, <2>2
  <1> QED
    BY <1>1, <1>2, <1>3, <1>4, <1>6, <1>7

\* It does not matter whether the log was cut before: cutting forgets nothing
\* that a later cut would keep.
LEMMA CutBeforeAppend ==
  ASSUME NEW s \in Seq(Int), NEW x \in Int, NEW n \in Nat \ {0}
  PROVE  Latest(Append(Latest(s, n), x), n) = Latest(Append(s, x), n)
  <1>1. PICK k \in Nat : k = Len(s)
    OBVIOUS
  <1>2. PICK c \in Seq(Int) : /\ c = Latest(s, n)
                              /\ Len(c) = IF k <= n THEN k ELSE n
                              /\ \A m \in 1 .. Len(c) : c[Len(c) + 1 - m] = s[k + 1 - m]
    BY <1>1, LatestProperties
  <1>3. PICK z \in Seq(Int) : /\ z = Latest(Append(s, x), n)
                              /\ Len(z) = IF Len(s) + 1 <= n THEN Len(s) + 1 ELSE n
                              /\ z[Len(z)] = x
                              /\ \A m \in 1 .. Len(z) - 1 : z[Len(z) - m] = s[Len(s) + 1 - m]
    BY LatestOfAppend
  <1>4. PICK y \in Seq(Int) : /\ y = Latest(Append(c, x), n)
                              /\ Len(y) = IF Len(c) + 1 <= n THEN Len(c) + 1 ELSE n
                              /\ y[Len(y)] = x
                              /\ \A m \in 1 .. Len(y) - 1 : y[Len(y) - m] = c[Len(c) + 1 - m]
    BY LatestOfAppend
  <1>5. PICK size \in Nat \ {0} : size = Len(z) /\ size = Len(y) /\ size - 1 <= Len(c)
    <2>1. PICK cut \in Nat : cut = Len(c) /\ cut = IF k <= n THEN k ELSE n
      BY <1>2
    <2>2. PICK size \in Nat : size = Len(z) /\ size = IF k + 1 <= n THEN k + 1 ELSE n
      BY <1>1, <1>3
    <2>3. PICK other \in Nat : other = Len(y) /\ other = IF cut + 1 <= n THEN cut + 1 ELSE n
      BY <1>4, <2>1
    <2>4. size = other /\ size \in Nat \ {0} /\ size - 1 <= cut
      BY <2>1, <2>2, <2>3
    <2> QED
      BY <2>1, <2>2, <2>3, <2>4
  <1>6. ASSUME NEW i \in 1 .. size
        PROVE  y[i] = z[i]
    <2>1. CASE i = size
      BY <1>3, <1>4, <1>5, <2>1
    <2>2. CASE i # size
      <3>1. PICK m \in 1 .. size - 1 : i = size - m
        <4>1. size - i \in 1 .. size - 1 /\ i = size - (size - i)
          BY <2>2
        <4> QED
          BY <4>1
      <3>2. m \in 1 .. Len(c)
        BY <1>2, <1>5
      <3>3. y[size - m] = c[Len(c) + 1 - m] /\ z[size - m] = s[k + 1 - m]
        BY <1>1, <1>3, <1>4, <1>5
      <3> QED
        BY <1>2, <3>1, <3>2, <3>3
    <2> QED
      BY <2>1, <2>2
  <1>7. y = z
    BY <1>5, <1>6, SeqEqual
  <1> QED
    BY <1>2, <1>3, <1>4, <1>7
-----------------------------------------------------------------------------
\* The m-th last entry of the log a is no older than the m-th last hit of the
\* history h, for every m up to n that h reaches.
KeepsUp(a, h, n) ==
  \A m \in 1 .. Len(h) :
    m <= n => m <= Len(a) /\ a[Len(a) + 1 - m] >= h[Len(h) + 1 - m]

LEMMA KeepsUpAfterTrim ==
  ASSUME NEW a, NEW h \in Seq(Int), NEW t \in Int, NEW span \in Int, NEW n,
         KeepsUp(a, h, n)
  PROVE  KeepsUp(a, Trim(h, t, span), n)
  <1>1. PICK s \in Seq(Int) : s = Trim(h, t, span)
    BY TrimType
  <1>2. PICK k \in 0 .. Len(h) : Len(s) = Len(h) - k /\ \A i \in 1 .. Len(s) : s[i] = h[i + k]
    BY <1>1, TrimDropsOldest
  <1>3. ASSUME NEW m \in 1 .. Len(s)
        PROVE  m \in 1 .. Len(h) /\ s[Len(s) + 1 - m] = h[Len(h) + 1 - m]
    <2>1. Len(s) + 1 - m \in 1 .. Len(s) /\ (Len(s) + 1 - m) + k = Len(h) + 1 - m
      BY <1>2
    <2>2. m \in 1 .. Len(h)
      BY <1>2
    <2> QED
      BY <1>2, <2>1, <2>2
  <1>4. KeepsUp(a, s, n)
    BY <1>3 DEF KeepsUp
  <1> QED
    BY <1>1, <1>4

\* The log notes every hit, the history only those it has room for.
LEMMA KeepsUpAfterHit ==
  ASSUME NEW a \in Seq(Int), NEW h \in Seq(Int), NEW t \in Int, NEW r \in Rule,
         KeepsUp(a, h, r.count), h = <<>> \/ OrderedUpTo(h, t)
  PROVE  KeepsUp(Latest(Append(a, t), r.count), Hit(h, t, r), r.count)
  <1>1. PICK n \in Nat \ {0} : n = r.count
    BY DEF Rule
  <1>2. Span(r) \in Int
    BY SecondAssumption DEF Span, Rule
  <1>3. PICK live \in Seq(Int) : live = Trim(h, t, Span(r))
    BY <1>2, TrimType
  <1>4. KeepsUp(a, live, n) /\ (live = <<>> \/ OrderedUpTo(live, t))
    BY <1>1, <1>2, <1>3, KeepsUpAfterTrim, TrimKeepsOrder
  <1>5. PICK k \in Nat, j \in Nat : k = Len(a) /\ j = Len(live)
    OBVIOUS
  <1>6. PICK z \in Seq(Int) : /\ z = Latest(Append(a, t), n)
                              /\ Len(z) = IF Len(a) + 1 <= n THEN Len(a) + 1 ELSE n
                              /\ z[Len(z)] = t
                              /\ \A m \in 1 .. Len(z) - 1 : z[Len(z) - m] = a[Len(a) + 1 - m]
    <2>1. LET z == Latest(Append(a, t), n)
          IN  /\ z \in Seq(Int)
              /\ Len(z) = IF Len(a) + 1 <= n THEN Len(a) + 1 ELSE n
              /\ z[Len(z)] = t
              /\ \A m \in 1 .. Len(z) - 1 : z[Len(z) - m] = a[Len(a) + 1 - m]
      BY LatestOfAppend
    <2> QED
      BY <2>1
  <1>7. PICK size \in Nat : /\ size = Len(z)
                            /\ size = IF k + 1 <= n THEN k + 1 ELSE n
    BY <1>5, <1>6
  \* From the second on, the log is one entry ahead of what was there.
  <1>8. ASSUME NEW m \in 2 .. j + 1, m <= n
        PROVE  m <= size /\ z[size + 1 - m] >= live[j + 2 - m]
    <2>1. m - 1 \in 1 .. j /\ m - 1 <= n
      BY <1>8
    <2>2. m - 1 <= k /\ a[k + 1 - (m - 1)] >= live[j + 1 - (m - 1)]
      BY <1>4, <1>5, <2>1 DEF KeepsUp
    <2>3. m <= size /\ m - 1 \in 1 .. size - 1 /\ size - (m - 1) = size + 1 - m
      BY <1>7, <1>8, <2>2
    <2>4. z[size + 1 - m] = a[k + 1 - (m - 1)]
      BY <1>5, <1>6, <1>7, <2>3
    <2>5. j + 1 - (m - 1) = j + 2 - m
      OBVIOUS
    <2> QED
      BY <2>2, <2>3, <2>4, <2>5
  <1>9. 1 <= size /\ z[size + 1 - 1] = t
    BY <1>6, <1>7
  <1>10. CASE j < n + 1
    <2>1. PICK hit \in Seq(Int) : /\ hit = Append(live, t)
                                  /\ Len(hit) = Len(live) + 1
                                  /\ hit[Len(live) + 1] = t
                                  /\ \A m \in 1 .. Len(live) : hit[Len(live) + 1 - m] = live[Len(live) + 1 - m]
      BY AppendFromEnd
    <2>2. Hit(h, t, r) = hit
      BY <1>1, <1>3, <1>5, <1>10, <2>1 DEF Hit, MaxHits
    <2>3. ASSUME NEW m \in 1 .. j + 1, m <= n
          PROVE  m <= size /\ z[size + 1 - m] >= hit[j + 1 + 1 - m]
      <3>1. CASE m = 1
        <4>1. j + 1 + 1 - m = j + 1 /\ hit[j + 1] = t
          BY <1>5, <2>1, <3>1
        <4> QED
          BY <1>9, <3>1, <4>1
      <3>2. CASE m # 1
        <4>1. m \in 2 .. j + 1 /\ m - 1 \in 1 .. j
          BY <3>2
        <4>2. j + 1 - (m - 1) = j + 2 - m /\ j + 1 + 1 - m = j + 2 - m
          OBVIOUS
        <4>3. hit[j + 2 - m] = live[j + 2 - m]
          BY <1>5, <2>1, <4>1, <4>2
        <4> QED
          BY <1>8, <2>3, <4>1, <4>2, <4>3
      <3> QED
        BY <3>1, <3>2
    <2>4. KeepsUp(z, hit, n)
      BY <1>5, <1>7, <2>1, <2>3 DEF KeepsUp
    <2> QED
      BY <1>1, <1>6, <2>2, <2>4
  <1>11. CASE ~(j < n + 1)
    <2>1. Hit(h, t, r) = live
      BY <1>1, <1>3, <1>5, <1>11 DEF Hit, MaxHits
    <2>2. OrderedUpTo(live, t)
      BY <1>4, <1>5, <1>11, EmptySeq
    <2>3. \A i \in 1 .. j : live[i] \in Int /\ live[i] <= live[j] /\ live[j] <= t
      BY <1>5, <2>2 DEF OrderedUpTo
    <2>4. ASSUME NEW m \in 1 .. j, m <= n
          PROVE  m <= size /\ z[size + 1 - m] >= live[j + 1 - m]
      <3>1. CASE m = 1
        <4>1. j + 1 - m = j /\ j \in 1 .. j
          BY <3>1
        <4> QED
          BY <1>9, <2>3, <3>1, <4>1
      <3>2. CASE m # 1
        <4>1. m \in 2 .. j + 1
          BY <3>2
        <4>2. /\ j + 2 - m \in 1 .. j /\ j + 1 - m \in 1 .. j /\ j + 1 - m <= j + 2 - m
          BY <3>2
        <4>3. live[j + 1 - m] <= live[j + 2 - m] /\ live[j + 1 - m] \in Int /\ live[j + 2 - m] \in Int
          BY <1>5, <2>2, <2>3, <4>2 DEF OrderedUpTo
        <4>4. m <= size /\ z[size + 1 - m] >= live[j + 2 - m]
          BY <1>8, <2>4, <4>1
        <4>5. z[size + 1 - m] \in Int
          <5>1. size + 1 - m \in 1 .. Len(z)
            BY <1>7, <4>4
          <5> QED
            BY <5>1, ElementOfSeq
        <4> QED
          BY <4>3, <4>4, <4>5
      <3> QED
        BY <3>1, <3>2
    <2>5. KeepsUp(z, live, n)
      BY <1>5, <1>7, <2>4 DEF KeepsUp
    <2> QED
      BY <1>1, <1>6, <2>1, <2>5
  <1> QED
    BY <1>10, <1>11

\* A hit is judged to exceed the limit only if the log is full of young entries.
LEMMA RefusedIsFull ==
  ASSUME NEW a \in Seq(Int), NEW h \in Seq(Int), NEW t \in Int, NEW r \in Rule,
         KeepsUp(a, h, r.count), h = <<>> \/ OrderedUpTo(h, t),
         Len(a) <= r.count, OverLimit(Hit(h, t, r), r)
  PROVE  Len(a) = r.count /\ a[1] > t - Span(r)
  <1>1. PICK n \in Nat \ {0} : n = r.count
    BY DEF Rule
  <1>2. PICK span \in Int : span = Span(r)
    BY SecondAssumption DEF Span, Rule
  <1>3. PICK live \in Seq(Int) : live = Trim(h, t, Span(r))
    BY <1>2, TrimType
  <1>4. PICK j \in Nat : j = Len(live)
    OBVIOUS
  <1>5. KeepsUp(a, live, n) /\ (live = <<>> \/ OrderedUpTo(live, t))
    BY <1>1, <1>2, <1>3, KeepsUpAfterTrim, TrimKeepsOrder
  <1>6. j >= n
    <2> SUFFICES ASSUME j < n
                 PROVE  FALSE
      OBVIOUS
    <2>1. Hit(h, t, r) = Append(live, t)
      BY <1>1, <1>3, <1>4 DEF Hit, MaxHits
    <2>2. Len(Append(live, t)) = j + 1
      BY <1>4
    <2>3. j + 1 > n
      BY <1>1, <2>1, <2>2 DEF OverLimit
    <2> QED
      BY <2>3
  <1>7. live[1] > t - span
    <2>1. PICK k \in 0 .. Len(h) : /\ Len(live) = Len(h) - k
                                   /\ \A i \in 1 .. Len(live) : live[i] = h[i + k]
                                   /\ k < Len(h) => h[k + 1] > t - span
      BY <1>2, <1>3, TrimDropsOldest
    <2>2. 1 \in 1 .. Len(live) /\ k < Len(h)
      BY <1>4, <1>6, <2>1
    <2>3. live[1] = h[1 + k] /\ 1 + k = k + 1
      BY <2>1, <2>2
    <2> QED
      BY <2>1, <2>2, <2>3
  <1>8. live[j + 1 - n] > t - span
    <2>1. OrderedUpTo(live, t)
      BY <1>4, <1>5, <1>6, EmptySeq
    <2>2. 1 \in 1 .. j /\ j + 1 - n \in 1 .. j /\ 1 <= j + 1 - n
      BY <1>6
    <2>3. live[1] <= live[j + 1 - n] /\ live[1] \in Int /\ live[j + 1 - n] \in Int
      BY <1>4, <2>1, <2>2 DEF OrderedUpTo
    <2> QED
      BY <1>2, <1>7, <2>3
  <1>9. PICK k \in Nat : k = Len(a)
    OBVIOUS
  <1>10. n <= k /\ a[k + 1 - n] >= live[j + 1 - n]
    <2>1. n \in 1 .. j /\ n <= n
      BY <1>6
    <2> QED
      BY <1>4, <1>5, <1>9, <2>1 DEF KeepsUp
  <1>11. k = n /\ k + 1 - n = 1
    BY <1>1, <1>9, <1>10
  <1>12. a[1] \in Int /\ live[j + 1 - n] \in Int
    <2>1. 1 \in 1 .. Len(a) /\ j + 1 - n \in 1 .. Len(live)
      BY <1>4, <1>6, <1>9, <1>11
    <2> QED
      BY <2>1, ElementOfSeq
  <1>13. a[1] > t - span
    BY <1>2, <1>8, <1>10, <1>11, <1>12
  <1> QED
    BY <1>1, <1>2, <1>9, <1>11, <1>13
-----------------------------------------------------------------------------
\* The one rule that ever reaches a counter.
LEMMA RuleOfCounter ==
  ASSUME OneRule, NEW c \in Counters
  PROVE  /\ RulesAt(HandlerOf(c), IndexOf(c)) = {RuleOf(c)}
         /\ RuleOf(c) \in Rule
         /\ Limits[c] = RuleOf(c).count /\ Limits[c] \in Nat \ {0}
         /\ Windows[c] = Span(RuleOf(c)) /\ Windows[c] \in Nat \ {0}
  <1>1. PICK r \in RulesAt(HandlerOf(c), IndexOf(c)) : RulesAt(HandlerOf(c), IndexOf(c)) = {r}
    BY DEF OneRule
  <1>2. RuleOf(c) = r
    BY <1>1 DEF RuleOf
  <1>3. r \in Rule /\ Span(r) \in Nat \ {0} /\ r.count \in Nat \ {0}
    BY RuleIsRule
  <1> QED
    BY <1>1, <1>2, <1>3 DEF Limits, Windows

LEMMA NotedIs ==
  ASSUME NEW log, NEW c, NEW lost
  PROVE  P!Noted(log, c, lost) =
           [d \in Counters |-> IF d \in lost THEN <<>>
                               ELSE IF d = c THEN Latest(Append(log[d], now), Limits[d])
                               ELSE log[d]]
  BY DEF P!Noted, P!Recent, Latest

LEMMA WithoutIs ==
  ASSUME NEW log, NEW lost
  PROVE  P!Without(log, lost) = [d \in Counters |-> IF d \in lost THEN <<>> ELSE log[d]]
  BY DEF P!Without

\* What a hit of counter c does when the counters in lost are evicted for it.
HitStep(c, lost) ==
  /\ lost = DOMAIN histories \ DOMAIN histories'
  /\ DOMAIN histories' = (DOMAIN histories \ lost) \cup {c}
  /\ histories'[c] = Hit(HistoryOf(c), now, RuleOf(c))
  /\ \A d \in DOMAIN histories \ (lost \cup {c}) : histories'[d] = histories[d]
  /\ admitted' = [d \in Counters |->
       IF d \in lost THEN <<>>
       ELSE IF d = c /\ ~OverLimit(histories'[c], RuleOf(c))
            THEN Append(admitted[d], [at |-> now, limit |-> RuleOf(c).count])
            ELSE admitted[d]]
  /\ trimmedBy' = [d \in Counters |->
       IF d \in lost THEN {}
       ELSE IF d = c THEN trimmedBy[d] \cup {Span(RuleOf(c))} ELSE trimmedBy[d]]
  /\ arrivals' = P!Noted(arrivals, c, lost)
  /\ now' = now

LEMMA HitSteps ==
  ASSUME NEW c \in Counters, PromiseRecordHit(c)
  PROVE  \E lost \in SUBSET (DOMAIN histories \ {c}) : HitStep(c, lost)
  <1> DEFINE hit == Hit(HistoryOf(c), now, RuleOf(c))
             lost == DOMAIN histories \ DOMAIN histories'
  <1>1. PICK kept \in KeptBeforeHit(c) :
          /\ histories' = [d \in kept \cup {c} |-> IF d = c THEN hit ELSE histories[d]]
          /\ admitted' = [d \in Counters |->
               IF d \in DOMAIN histories \ kept THEN <<>>
               ELSE IF d = c /\ ~OverLimit(hit, RuleOf(c))
                    THEN Append(admitted[d], [at |-> now, limit |-> RuleOf(c).count])
                    ELSE admitted[d]]
          /\ trimmedBy' = [d \in Counters |->
               IF d \in DOMAIN histories \ kept THEN {}
               ELSE IF d = c THEN trimmedBy[d] \cup {Span(RuleOf(c))} ELSE trimmedBy[d]]
          /\ now' = now
    BY DEF PromiseRecordHit, RecordHit
  <1> HIDE DEF hit
  <1>2. kept \subseteq DOMAIN histories /\ (c \in DOMAIN histories => c \in kept)
    BY KeptIsKept DEF KeptBeforeHit
  <1>3. lost = DOMAIN histories \ kept /\ lost \in SUBSET (DOMAIN histories \ {c})
    BY <1>1, <1>2
  <1>4. arrivals' = P!Noted(arrivals, c, lost)
    BY DEF PromiseRecordHit
  <1>5. HitStep(c, lost)
    BY <1>1, <1>2, <1>3, <1>4 DEF HitStep, hit
  <1> QED
    BY <1>3, <1>5
-----------------------------------------------------------------------------
\* What a verdict rests on: the log of arrivals is as long as the limit at most
\* and keeps up with the history, and only the counter's own window trims it.
PromiseInv ==
  /\ arrivals \in [Counters -> Seq(Int)]
  /\ \A c \in Counters : Len(arrivals[c]) <= Limits[c]
  /\ \A c \in Counters : KeepsUp(arrivals[c], HistoryOf(c), Limits[c])
  /\ \A c \in Counters : trimmedBy[c] \subseteq {Windows[c]}

\* The same for one counter.
PromiseAt(c) ==
  /\ arrivals[c] \in Seq(Int)
  /\ Len(arrivals[c]) <= Limits[c]
  /\ KeepsUp(arrivals[c], HistoryOf(c), Limits[c])
  /\ trimmedBy[c] \subseteq {Windows[c]}

\* A log keeps up with a history that is gone.
LEMMA NothingToKeepUpWith ==
  ASSUME NEW a, NEW n
  PROVE  KeepsUp(a, <<>>, n)
  BY EmptySeq DEF KeepsUp

LEMMA HistoryOrder ==
  ASSUME TypeOK, HistoriesOrdered, NEW c
  PROVE  /\ HistoryOf(c) \in Seq(Int) /\ now \in Int
         /\ HistoryOf(c) = <<>> \/ OrderedUpTo(HistoryOf(c), now)
  <1>1. HistoryOf(c) \in Seq(Times)
    BY HistoryType
  <1>2. Times \subseteq Int
    BY DEF Times
  <1>3. HistoryOf(c) \in Seq(Int)
    BY <1>1, <1>2, SeqMonotonic
  <1>4. now \in Int
    BY DEF TypeOK
  <1> QED
    BY <1>3, <1>4 DEF HistoryOf, HistoriesOrdered, OrderedUpTo

LEMMA HitKeepsPromiseInv ==
  ASSUME OneRule, TypeOK, HistoriesOrdered, PromiseInv, NEW c \in Counters,
         PromiseRecordHit(c), NEW d \in Counters
  PROVE  PromiseAt(d)'
  <1>1. PICK lost \in SUBSET (DOMAIN histories \ {c}) : HitStep(c, lost)
    BY HitSteps
  <1>2. PromiseAt(d)
    BY DEF PromiseInv, PromiseAt
  <1>3. arrivals' = [e \in Counters |->
          IF e \in lost THEN <<>>
          ELSE IF e = c THEN Latest(Append(arrivals[e], now), Limits[e])
          ELSE arrivals[e]]
    BY <1>1, NotedIs DEF HitStep
  <1>4. Limits[d]' = Limits[d] /\ Windows[d]' = Windows[d]
    BY DEF Limits, Windows, RuleOf
  <1>5. CASE d \in lost
    <2>1. HistoryOf(d)' = <<>> /\ arrivals'[d] = <<>> /\ trimmedBy'[d] = {}
      BY <1>1, <1>3, <1>5 DEF HitStep, HistoryOf
    <2>2. Len(<<>>) <= Limits[d] /\ <<>> \in Seq(Int)
      BY EmptySeq, RuleOfCounter
    <2> QED
      BY <1>4, <2>1, <2>2, NothingToKeepUpWith DEF PromiseAt
  <1>6. CASE d = c
    <2>1. RuleOf(c) \in Rule /\ Limits[c] = RuleOf(c).count /\ Limits[c] \in Nat \ {0}
      BY RuleOfCounter
    <2>2. /\ HistoryOf(c) \in Seq(Int) /\ now \in Int
          /\ HistoryOf(c) = <<>> \/ OrderedUpTo(HistoryOf(c), now)
      BY HistoryOrder
    <2>3. HistoryOf(c)' = Hit(HistoryOf(c), now, RuleOf(c))
      BY <1>1 DEF HitStep, HistoryOf
    <2>4. arrivals'[c] = Latest(Append(arrivals[c], now), Limits[c])
      BY <1>1, <1>3
    <2>5. KeepsUp(arrivals'[c], HistoryOf(c)', Limits[c])
      BY <1>2, <1>6, <2>1, <2>2, <2>3, <2>4, KeepsUpAfterHit DEF PromiseAt
    <2>6. arrivals'[c] \in Seq(Int) /\ Len(arrivals'[c]) <= Limits[c]
      <3>1. PICK a \in Seq(Int) : a = arrivals[c]
        BY <1>2, <1>6 DEF PromiseAt
      <3>2. PICK n \in Nat \ {0} : n = Limits[c]
        BY <2>1
      <3>3. PICK k \in Nat : k = Len(a)
        BY <3>1
      <3>4. /\ Latest(Append(a, now), n) \in Seq(Int)
            /\ Len(Latest(Append(a, now), n)) = IF Len(a) + 1 <= n THEN Len(a) + 1 ELSE n
        <4>1. PICK t \in Int : t = now
          BY <2>2
        <4>2. LET z == Latest(Append(a, t), n)
              IN  /\ z \in Seq(Int)
                  /\ Len(z) = IF Len(a) + 1 <= n THEN Len(a) + 1 ELSE n
                  /\ z[Len(z)] = t
                  /\ \A m \in 1 .. Len(z) - 1 : z[Len(z) - m] = a[Len(a) + 1 - m]
          BY LatestOfAppend
        <4> QED
          BY <4>1, <4>2
      <3>5. (IF k + 1 <= n THEN k + 1 ELSE n) <= n
        OBVIOUS
      <3> QED
        BY <2>4, <3>1, <3>2, <3>3, <3>4, <3>5
    <2>7. trimmedBy'[c] \subseteq {Windows[c]}
      BY <1>1, <1>2, <1>6, RuleOfCounter DEF HitStep, PromiseAt
    <2> QED
      BY <1>4, <1>6, <2>5, <2>6, <2>7 DEF PromiseAt
  <1>7. CASE d \notin lost /\ d # c
    <2>1. HistoryOf(d)' = HistoryOf(d)
      BY <1>1, <1>7 DEF HitStep, HistoryOf
    <2>2. arrivals'[d] = arrivals[d] /\ trimmedBy'[d] = trimmedBy[d]
      BY <1>1, <1>3, <1>7 DEF HitStep
    <2> QED
      BY <1>2, <1>4, <2>1, <2>2 DEF PromiseAt
  <1> QED
    BY <1>5, <1>6, <1>7

LEMMA CleanupKeepsPromiseInv ==
  ASSUME OneRule, TypeOK, HistoriesOrdered, PromiseInv, NEW d \in Counters,
         \/ \E h \in Handlers : PromiseCleanupHandler(h)
         \/ \E p \in Policies : PromiseCleanupOrphaned(p)
  PROVE  PromiseAt(d)'
  <1>1. PromiseAt(d)
    BY DEF PromiseInv, PromiseAt
  <1>2. Limits[d]' = Limits[d] /\ Windows[d]' = Windows[d]
    BY DEF Limits, Windows, RuleOf
  <1>3. Limits[d] \in Nat \ {0}
    BY RuleOfCounter
  <1>4. ASSUME NEW gone \in SUBSET DOMAIN histories, d \in gone, HistoryOf(d)' = <<>>,
               trimmedBy'[d] = {}, arrivals' = P!Without(arrivals, gone)
        PROVE  PromiseAt(d)'
    <2>1. arrivals'[d] = <<>>
      BY <1>4, WithoutIs
    <2>2. <<>> \in Seq(Int) /\ Len(<<>>) <= Limits[d]
      BY <1>3, EmptySeq
    <2> QED
      BY <1>2, <1>4, <2>1, <2>2, NothingToKeepUpWith DEF PromiseAt
  <1>5. ASSUME NEW h \in Handlers, PromiseCleanupHandler(h)
        PROVE  PromiseAt(d)'
    <2> DEFINE gone == {c \in DOMAIN histories : HandlerOf(c) = h}
    <2>1. /\ histories' = [c \in DOMAIN histories \ gone |-> histories[c]]
          /\ trimmedBy' = [c \in Counters |-> IF c \in gone THEN {} ELSE trimmedBy[c]]
      BY <1>5 DEF PromiseCleanupHandler, CleanupHandler
    <2>2. DOMAIN histories \ DOMAIN histories' = gone
      BY <2>1
    <2>3. arrivals' = P!Without(arrivals, gone)
      BY <1>5, <2>2 DEF PromiseCleanupHandler
    <2>4. CASE d \in gone
      <3>1. HistoryOf(d)' = <<>> /\ trimmedBy'[d] = {}
        BY <2>1, <2>4 DEF HistoryOf
      <3> QED
        BY <1>4, <2>3, <2>4, <3>1
    <2>5. CASE d \notin gone
      <3>1. HistoryOf(d)' = HistoryOf(d) /\ trimmedBy'[d] = trimmedBy[d]
        BY <2>1, <2>5 DEF HistoryOf
      <3>2. arrivals'[d] = arrivals[d]
        BY <2>3, <2>5, WithoutIs
      <3> QED
        BY <1>1, <1>2, <3>1, <3>2 DEF PromiseAt
    <2> QED
      BY <2>4, <2>5
  <1>6. ASSUME NEW p \in Policies, PromiseCleanupOrphaned(p)
        PROVE  PromiseAt(d)'
    <2> DEFINE gone == DOMAIN histories \ RuledBy(p)
    <2>1. /\ histories' = [c \in {e \in RuledBy(p) : LiveUnder(e, p) # <<>>} |-> LiveUnder(c, p)]
          /\ trimmedBy' = [c \in Counters |->
               IF c \in gone THEN {}
               ELSE IF c \in RuledBy(p) THEN trimmedBy[c] \cup {Span(RuleFor(c, p))}
                    ELSE trimmedBy[c]]
          /\ arrivals' = P!Without(arrivals, gone)
      BY <1>6 DEF PromiseCleanupOrphaned, CleanupOrphaned
    <2>2. RuledBy(p) \subseteq DOMAIN histories
      BY DEF RuledBy
    <2>3. CASE d \in gone
      <3>1. HistoryOf(d)' = <<>> /\ trimmedBy'[d] = {}
        BY <2>1, <2>3 DEF HistoryOf
      <3> QED
        BY <1>4, <2>1, <2>3, <3>1
    <2>4. CASE d \in RuledBy(p)
      <3>1. RuleFor(d, p) \in RulesAt(HandlerOf(d), IndexOf(d))
        BY <2>4, RuleForIsRule
      <3>2. Span(RuleFor(d, p)) = Windows[d] /\ Windows[d] \in Int
        BY <3>1, RuleOfCounter
      <3>3. trimmedBy'[d] \subseteq {Windows[d]}
        BY <1>1, <2>1, <2>4, <3>2 DEF PromiseAt
      <3>4. arrivals'[d] = arrivals[d]
        BY <2>1, <2>4, WithoutIs
      <3>5. HistoryOf(d)' = LiveUnder(d, p)
        BY <2>1, <2>4 DEF HistoryOf
      <3>6. HistoryOf(d) \in Seq(Int) /\ now \in Int /\ HistoryOf(d) = histories[d]
        BY <2>2, <2>4, HistoryOrder DEF HistoryOf
      <3>7. KeepsUp(arrivals[d], Trim(HistoryOf(d), now, Windows[d]), Limits[d])
        BY <1>1, <3>2, <3>6, KeepsUpAfterTrim DEF PromiseAt
      <3>8. KeepsUp(arrivals'[d], HistoryOf(d)', Limits[d])
        BY <3>2, <3>4, <3>5, <3>6, <3>7 DEF LiveUnder
      <3> QED
        BY <1>1, <1>2, <3>3, <3>4, <3>8 DEF PromiseAt
    <2>5. CASE d \notin DOMAIN histories
      <3>1. HistoryOf(d)' = HistoryOf(d) /\ trimmedBy'[d] = trimmedBy[d]
        BY <2>1, <2>2, <2>5 DEF HistoryOf
      <3>2. arrivals'[d] = arrivals[d]
        BY <2>1, <2>5, WithoutIs
      <3> QED
        BY <1>1, <1>2, <3>1, <3>2 DEF PromiseAt
    <2> QED
      BY <2>3, <2>4, <2>5
  <1> QED
    BY <1>5, <1>6

\* Noting the arrivals changes nothing in the table.
LEMMA PromiseSpecIsSpec == PromiseSpec => Spec
  <1>0. PromiseSpec => OneRule
    BY PTL DEF PromiseSpec, PromiseInit
  <1> SUFFICES ASSUME OneRule
               PROVE  PromiseSpec => Spec
    BY <1>0
  <1>1. PromiseInit => Init
    BY DEF PromiseInit
  <1>2. [PromiseNext]_<<vars, arrivals>> => [Next]_vars
    <2>1. ASSUME NEW c \in Counters, PromiseRecordHit(c)
          PROVE  Next
      <3>1. RuleOf(c) \in RulesAt(HandlerOf(c), IndexOf(c))
        BY RuleOfCounter
      <3> QED
        BY <2>1, <3>1 DEF PromiseRecordHit, Next
    <2> QED
      BY <2>1 DEF PromiseNext, PromiseTick, PromiseCleanupHandler,
                  PromiseCleanupOrphaned, Next
  <1> QED
    BY <1>1, <1>2, PTL DEF PromiseSpec, Spec

LEMMA PromiseInvHolds == PromiseSpec => []PromiseInv
  <1>0. PromiseSpec => OneRule
    BY PTL DEF PromiseSpec, PromiseInit
  <1> SUFFICES ASSUME OneRule
               PROVE  PromiseSpec => []PromiseInv
    BY <1>0
  <1>1. PromiseInit => PromiseInv
    <2> SUFFICES ASSUME PromiseInit, NEW c \in Counters
                 PROVE  arrivals = [d \in Counters |-> <<>>] /\ PromiseAt(c)
      BY DEF PromiseInv, PromiseAt, PromiseInit
    <2>1. arrivals = [d \in Counters |-> <<>>] /\ trimmedBy[c] = {} /\ HistoryOf(c) = <<>>
      BY DEF PromiseInit, Init, HistoryOf
    <2>2. <<>> \in Seq(Int) /\ Len(<<>>) <= Limits[c]
      BY EmptySeq, RuleOfCounter
    <2> QED
      BY <2>1, <2>2, NothingToKeepUpWith DEF PromiseAt
  <1>2. TypeOK /\ HistoriesOrdered /\ PromiseInv /\ [PromiseNext]_<<vars, arrivals>> => PromiseInv'
    <2> SUFFICES ASSUME TypeOK, HistoriesOrdered, PromiseInv, [PromiseNext]_<<vars, arrivals>>
                 PROVE  PromiseInv'
      OBVIOUS
    <2>1. arrivals' = [d \in Counters |-> arrivals'[d]]
      <3>1. CASE UNCHANGED arrivals
        BY <3>1 DEF PromiseInv
      <3>2. ASSUME NEW c \in Counters, PromiseRecordHit(c)
            PROVE  arrivals' = [d \in Counters |-> arrivals'[d]]
        BY <3>2, NotedIs DEF PromiseRecordHit
      <3>3. ASSUME NEW lost, arrivals' = P!Without(arrivals, lost)
            PROVE  arrivals' = [d \in Counters |-> arrivals'[d]]
        BY <3>3, WithoutIs
      <3> QED
        BY <3>1, <3>2, <3>3 DEF PromiseNext, PromiseTick, PromiseCleanupHandler,
                                PromiseCleanupOrphaned
    <2>2. \A d \in Counters : PromiseAt(d)'
      <3>1. CASE (Tick /\ UNCHANGED arrivals) \/ UNCHANGED <<vars, arrivals>>
        BY <3>1 DEF Tick, vars, PromiseInv, PromiseAt, HistoryOf, Limits, Windows, RuleOf
      <3> QED
        BY <3>1, HitKeepsPromiseInv, CleanupKeepsPromiseInv DEF PromiseNext, PromiseTick
    <2> QED
      BY <2>1, <2>2 DEF PromiseInv, PromiseAt
  <1> QED
    BY <1>1, <1>2, PromiseSpecIsSpec, TypeCorrect, OrderHolds, PTL DEF PromiseSpec
-----------------------------------------------------------------------------
\* The clock readings of a log of admissions.
Instants(log) == [n \in DOMAIN log |-> log[n].at]

LEMMA InstantsOf ==
  ASSUME NEW log \in Admissions
  PROVE  /\ Instants(log) \in Seq(Int)
         /\ Len(Instants(log)) = Len(log)
         /\ \A i \in 1 .. Len(log) : Instants(log)[i] = log[i].at
  <1>1. PICK k \in Nat : k = Len(log) /\ DOMAIN log = 1 .. k
    BY LenProperties DEF Admissions
  <1>2. \A i \in 1 .. k : log[i].at \in Int
    <2> TAKE i \in 1 .. k
    <2>1. log[i] \in [at : Times, limit : Nat \ {0}]
      BY <1>1, ElementOfSeq DEF Admissions
    <2> QED
      BY <2>1 DEF Times
  <1>3. Instants(log) = [i \in 1 .. k |-> log[i].at]
    BY <1>1 DEF Instants
  <1>4. Instants(log) \in [1 .. k -> Int]
    BY <1>2, <1>3
  <1>5. Instants(log) \in Seq(Int) /\ Len(Instants(log)) = k
    BY <1>4
  <1> QED
    BY <1>1, <1>3, <1>5

LEMMA InstantsOfNone == Instants(<<>>) = <<>>
  BY DEF Instants

\* One more admission at the end of a log.
LEMMA OneAdmissionMore ==
  ASSUME NEW log \in Admissions, NEW e \in [at : Times, limit : Nat \ {0}],
         NEW k \in Nat, k = Len(log)
  PROVE  \E more \in Admissions : /\ more = Append(log, e)
                                  /\ Len(more) = k + 1
                                  /\ \A i \in 1 .. k : more[i] = log[i]
                                  /\ more[k + 1] = e
  <1> DEFINE S == [at : Times, limit : Nat \ {0}]
  <1>1. log \in Seq(S) /\ e \in S
    BY DEF Admissions
  <1> HIDE DEF S
  <1>2. /\ Append(log, e) \in Seq(S)
        /\ Len(Append(log, e)) = Len(log) + 1
        /\ \A i \in 1 .. Len(log) : Append(log, e)[i] = log[i]
        /\ Append(log, e)[Len(log) + 1] = e
    BY <1>1, AppendProperties
  <1> QED
    BY <1>2 DEF Admissions, S

LEMMA InstantsOfOneMore ==
  ASSUME NEW log \in Admissions, NEW e \in [at : Times, limit : Nat \ {0}]
  PROVE  Instants(Append(log, e)) = Append(Instants(log), e.at)
  <1>1. PICK k \in Nat : k = Len(log)
    BY DEF Admissions
  <1>2. PICK more \in Admissions : /\ more = Append(log, e)
                                   /\ Len(more) = k + 1
                                   /\ \A i \in 1 .. k : more[i] = log[i]
                                   /\ more[k + 1] = e
    BY <1>1, OneAdmissionMore
  <1>3. PICK at \in Int : at = e.at
    BY DEF Times
  <1>4. /\ Instants(log) \in Seq(Int) /\ Len(Instants(log)) = k
        /\ \A i \in 1 .. k : Instants(log)[i] = log[i].at
    BY <1>1, InstantsOf
  <1>5. /\ Instants(more) \in Seq(Int) /\ Len(Instants(more)) = k + 1
        /\ \A i \in 1 .. k + 1 : Instants(more)[i] = more[i].at
    BY <1>2, InstantsOf
  <1>6. PICK z \in Seq(Int) : /\ z = Append(Instants(log), at)
                              /\ Len(z) = k + 1
                              /\ \A i \in 1 .. k : z[i] = Instants(log)[i]
                              /\ z[k + 1] = at
    <2>1. PICK t \in Seq(Int) : t = Instants(log)
      BY <1>4
    <2>2. /\ Append(t, at) \in Seq(Int)
          /\ Len(Append(t, at)) = Len(t) + 1
          /\ \A i \in 1 .. Len(t) : Append(t, at)[i] = t[i]
          /\ Append(t, at)[Len(t) + 1] = at
      BY AppendProperties
    <2> QED
      BY <1>4, <2>1, <2>2
  <1>7. \A i \in 1 .. k + 1 : Instants(more)[i] = z[i]
    <2> TAKE i \in 1 .. k + 1
    <2>1. CASE i = k + 1
      BY <1>2, <1>3, <1>5, <1>6, <2>1
    <2>2. CASE i \in 1 .. k
      <3>1. z[i] = log[i].at
        BY <1>4, <1>6, <2>2
      <3>2. Instants(more)[i] = log[i].at
        BY <1>2, <1>5, <2>2
      <3> QED
        BY <3>1, <3>2
    <2> QED
      BY <2>1, <2>2
  <1>8. Instants(more) = z
    BY <1>5, <1>6, <1>7, SeqEqual
  <1> QED
    BY <1>2, <1>3, <1>6, <1>8

\* What the abstract limiter has granted, read off a log of admissions.
LEMMA GrantedIs ==
  ASSUME NEW log \in Admissions, NEW n
  PROVE  (IF Len(log) <= n THEN Instants(log)
          ELSE SubSeq(Instants(log), Len(log) - n + 1, Len(log))) = Latest(Instants(log), n)
  BY InstantsOf DEF Latest

LEMMA GrantedNow ==
  ASSUME TypeOK
  PROVE  /\ Granted = [c \in Counters |-> Latest(Instants(admitted[c]), Limits[c])]
         /\ \A c \in Counters : admitted[c] \in Admissions
  <1>1. \A c \in Counters : admitted[c] \in Admissions
    BY DEF TypeOK, Admissions, Times
  <1>2. \A c \in Counters : GrantsOf(c) = Instants(admitted[c])
    BY DEF GrantsOf, Instants
  <1> QED
    BY <1>1, <1>2, GrantedIs DEF Granted

LEMMA GrantedNext ==
  ASSUME TypeOK'
  PROVE  Granted' = [c \in Counters |-> Latest(Instants(admitted'[c]), Limits[c])]
  <1>1. \A c \in Counters : admitted'[c] \in Admissions
    BY DEF TypeOK, Admissions, Times
  <1>2. \A c \in Counters : GrantsOf(c)' = Instants(admitted'[c])
    BY DEF GrantsOf, Instants
  <1>3. \A c \in Counters : Limits[c]' = Limits[c]
    BY DEF Limits, RuleOf
  <1> QED
    BY <1>1, <1>2, <1>3, GrantedIs DEF Granted
-----------------------------------------------------------------------------
\* A hit is granted or refused as WindowPromise allows: a grant that came too
\* soon would violate AdmittedSpread, a refusal the log that keeps up.
LEMMA HitIsAllowed ==
  ASSUME OneRule, TypeOK, TypeOK', HistoriesOrdered, AdmittedSpread', PromiseInv,
         PromiseInv', NEW c \in Counters, PromiseRecordHit(c)
  PROVE  \E lost \in SUBSET (Counters \ {c}) : P!Grant(c, lost) \/ P!Refuse(c, lost)
  <1>1. PICK lost \in SUBSET (DOMAIN histories \ {c}) : HitStep(c, lost)
    BY HitSteps
  <1>2. lost \in SUBSET (Counters \ {c})
    BY DEF TypeOK
  <1>3. /\ RuleOf(c) \in Rule /\ Windows[c] = Span(RuleOf(c)) /\ Limits[c] = RuleOf(c).count
        /\ Limits[c] \in Nat \ {0} /\ Windows[c] \in Nat \ {0}
    BY RuleOfCounter
  <1>4. /\ HistoryOf(c) \in Seq(Int) /\ now \in Times /\ now \in Int
        /\ HistoryOf(c) = <<>> \/ OrderedUpTo(HistoryOf(c), now)
    BY HistoryOrder DEF TypeOK, Times
  <1>5. /\ Granted = [d \in Counters |-> Latest(Instants(admitted[d]), Limits[d])]
        /\ \A d \in Counters : admitted[d] \in Admissions
        /\ Granted' = [d \in Counters |-> Latest(Instants(admitted'[d]), Limits[d])]
    BY GrantedNow, GrantedNext
  <1>6. histories'[c] = Hit(HistoryOf(c), now, RuleOf(c))
    BY <1>1 DEF HitStep
  <1>7. \A d \in Counters : Latest(<<>>, Limits[d]) = <<>>
    <2> TAKE d \in Counters
    <2>1. Len(<<>>) <= Limits[d]
      BY RuleOfCounter, EmptySeq
    <2> QED
      BY <2>1 DEF Latest
  <1>8. CASE OverLimit(histories'[c], RuleOf(c))
    <2>1. P!Full(arrivals, c)
      <3>1. /\ arrivals[c] \in Seq(Int) /\ Len(arrivals[c]) <= RuleOf(c).count
            /\ KeepsUp(arrivals[c], HistoryOf(c), RuleOf(c).count)
        BY <1>3 DEF PromiseInv
      <3>2. Len(arrivals[c]) = RuleOf(c).count /\ arrivals[c][1] > now - Span(RuleOf(c))
        BY <1>3, <1>4, <1>6, <1>8, <3>1, RefusedIsFull
      <3> QED
        BY <1>3, <3>2 DEF P!Full
    <2>2. Granted' = P!Without(Granted, lost)
      <3>1. \A d \in Counters : admitted'[d] = IF d \in lost THEN <<>> ELSE admitted[d]
        BY <1>1, <1>8 DEF HitStep
      <3> QED
        BY <1>5, <1>7, <3>1, InstantsOfNone, WithoutIs
    <2>3. P!Refuse(c, lost)
      BY <1>1, <2>1, <2>2 DEF P!Refuse, HitStep
    <2> QED
      BY <1>2, <2>3
  <1>9. CASE ~OverLimit(histories'[c], RuleOf(c))
    <2> DEFINE seen == [at |-> now, limit |-> RuleOf(c).count]
    <2>1. \A d \in Counters : admitted'[d] = IF d \in lost THEN <<>>
                                             ELSE IF d = c THEN Append(admitted[d], seen)
                                             ELSE admitted[d]
      BY <1>1, <1>9 DEF HitStep
    <2>2. seen \in [at : Times, limit : Nat \ {0}] /\ seen.at = now /\ seen.limit = Limits[c]
      BY <1>3, <1>4
    <2> HIDE DEF seen
    <2>3. Granted' = P!Noted(Granted, c, lost)
      <3>1. Latest(Instants(Append(admitted[c], seen)), Limits[c])
              = Latest(Append(Granted[c], now), Limits[c])
        <4>1. Instants(Append(admitted[c], seen)) = Append(Instants(admitted[c]), now)
          BY <1>5, <2>2, InstantsOfOneMore
        <4>2. Instants(admitted[c]) \in Seq(Int)
          BY <1>5, InstantsOf
        <4>3. Latest(Append(Latest(Instants(admitted[c]), Limits[c]), now), Limits[c])
                = Latest(Append(Instants(admitted[c]), now), Limits[c])
          BY <1>3, <1>4, <4>2, CutBeforeAppend
        <4> QED
          BY <1>5, <4>1, <4>3
      <3> QED
        BY <1>5, <1>7, <2>1, <3>1, InstantsOfNone, NotedIs
    <2>4. ~P!Full(Granted, c)
      <3> SUFFICES ASSUME Len(Granted[c]) = Limits[c], Granted[c][1] > now - Windows[c]
                   PROVE  FALSE
        BY DEF P!Full
      <3>1. PICK k \in Nat, n \in Nat \ {0}, w \in Nat \ {0} :
              k = Len(admitted[c]) /\ n = Limits[c] /\ w = Windows[c]
        BY <1>3, <1>5 DEF Admissions
      <3>2. PICK s \in Seq(Int) : /\ s = Instants(admitted[c]) /\ Len(s) = k
                                  /\ \A i \in 1 .. k : s[i] = admitted[c][i].at
        BY <1>5, <3>1, InstantsOf
      <3>3. LET z == Latest(s, n)
            IN  /\ z \in Seq(Int)
                /\ Len(z) = IF Len(s) <= n THEN Len(s) ELSE n
                /\ \A m \in 1 .. Len(z) : z[Len(z) + 1 - m] = s[Len(s) + 1 - m]
        BY LatestProperties
      <3>4. Latest(s, n) = Granted[c]
        BY <1>5, <3>1, <3>2
      <3>5. n <= k /\ k + 1 - n \in 1 .. k
        <4>1. Len(Latest(s, n)) = IF k <= n THEN k ELSE n
          BY <3>2, <3>3
        <4>2. Len(Latest(s, n)) = n
          BY <3>1, <3>4
        <4> QED
          BY <4>1, <4>2
      <3>6. Granted[c][1] = s[k + 1 - n]
        <4>1. n \in 1 .. n /\ n + 1 - n = 1
          OBVIOUS
        <4>2. Len(Latest(s, n)) = n
          BY <3>1, <3>4
        <4>3. Latest(s, n)[n + 1 - n] = s[k + 1 - n]
          BY <3>2, <3>3, <4>1, <4>2
        <4> QED
          BY <3>4, <4>1, <4>3
      <3>7. admitted[c][k + 1 - n].at > now - w /\ admitted[c][k + 1 - n].at \in Int
        <4>1. s[k + 1 - n] \in Int
          BY <3>2, <3>5, ElementOfSeq
        <4> QED
          BY <3>1, <3>2, <3>5, <3>6, <4>1
      <3>8. PICK new \in Admissions : /\ new = admitted'[c]
                                      /\ Len(new) = k + 1
                                      /\ \A i \in 1 .. k : new[i] = admitted[c][i]
                                      /\ new[k + 1] = seen
        <4>1. admitted'[c] = Append(admitted[c], seen)
          BY <1>1, <2>1
        <4>2. \E new \in Admissions : /\ new = admitted'[c]
                                      /\ Len(new) = k + 1
                                      /\ \A i \in 1 .. k : new[i] = admitted[c][i]
                                      /\ new[k + 1] = seen
          <5>1. PICK log \in Admissions : log = admitted[c]
            BY <1>5
          <5>2. k = Len(log)
            BY <3>1, <5>1
          <5>3. \E new \in Admissions : /\ new = Append(log, seen)
                                        /\ Len(new) = k + 1
                                        /\ \A i \in 1 .. k : new[i] = log[i]
                                        /\ new[k + 1] = seen
            BY <2>2, <5>2, OneAdmissionMore
          <5> QED
            BY <4>1, <5>1, <5>3
        <4> QED
          BY <4>2
      <3>9. k + 1 \in DOMAIN new /\ k + 1 > new[k + 1].limit
        <4>1. DOMAIN new = 1 .. k + 1
          BY <3>1, <3>8, LenProperties DEF Admissions
        <4>2. k + 1 \in 1 .. k + 1 /\ k + 1 > n
          BY <3>1, <3>5
        <4>3. new[k + 1].limit = n
          BY <2>2, <3>1, <3>8
        <4> QED
          BY <4>1, <4>2, <4>3
      <3>10. PICK v \in trimmedBy'[c] : new[k + 1].at - new[k + 1 - n].at >= v
        <4>1. \A i \in DOMAIN admitted'[c] :
                i > admitted'[c][i].limit =>
                  \E v \in trimmedBy'[c] :
                    admitted'[c][i].at - admitted'[c][i - admitted'[c][i].limit].at >= v
          BY DEF AdmittedSpread
        <4>2. new[k + 1].limit = n
          BY <2>2, <3>1, <3>8
        <4>3. \A i \in DOMAIN new :
                i > new[i].limit =>
                  \E v \in trimmedBy'[c] : new[i].at - new[i - new[i].limit].at >= v
          BY <3>8, <4>1
        <4>4. PICK i \in DOMAIN new : i = k + 1 /\ i > new[i].limit /\ new[i].limit = n
          BY <3>9, <4>2
        <4>5. \E v \in trimmedBy'[c] : new[i].at - new[i - n].at >= v
          BY <4>3, <4>4
        <4> QED
          BY <4>4, <4>5
      <3>11. v = w
        <4>1. trimmedBy'[c] \subseteq {Windows[c]'}
          BY DEF PromiseInv
        <4>2. Windows[c]' = Windows[c]
          BY DEF Windows, RuleOf
        <4> QED
          BY <3>1, <3>10, <4>1, <4>2
      <3>12. now - admitted[c][k + 1 - n].at >= w
        BY <2>2, <3>5, <3>8, <3>10, <3>11
      <3> QED
        BY <1>4, <3>7, <3>12
    <2>5. P!Grant(c, lost)
      BY <1>1, <2>3, <2>4 DEF P!Grant, HitStep
    <2> QED
      BY <1>2, <2>5
  <1> QED
    BY <1>8, <1>9

\* What a cleanup discards is forgotten by the abstract limiter too.
LEMMA CleanupForgets ==
  ASSUME OneRule, TypeOK, TypeOK',
         \/ \E h \in Handlers : PromiseCleanupHandler(h)
         \/ \E p \in Policies : PromiseCleanupOrphaned(p)
  PROVE  \E lost \in SUBSET Counters : P!Forget(lost)
  <1>1. ASSUME NEW lost \in SUBSET Counters, now' = now,
               arrivals' = P!Without(arrivals, lost),
               admitted' = [c \in Counters |-> IF c \in lost THEN <<>> ELSE admitted[c]]
        PROVE  P!Forget(lost)
    <2>1. \A d \in Counters : Latest(<<>>, Limits[d]) = <<>>
      <3> TAKE d \in Counters
      <3>1. Len(<<>>) <= Limits[d]
        BY RuleOfCounter, EmptySeq
      <3> QED
        BY <3>1 DEF Latest
    <2>2. Granted' = P!Without(Granted, lost)
      BY <1>1, <2>1, GrantedNow, GrantedNext, InstantsOfNone, WithoutIs
    <2> QED
      BY <1>1, <2>2 DEF P!Forget
  <1>2. ASSUME NEW h \in Handlers, PromiseCleanupHandler(h)
        PROVE  \E lost \in SUBSET Counters : P!Forget(lost)
    <2> DEFINE gone == {c \in DOMAIN histories : HandlerOf(c) = h}
    <2>1. /\ DOMAIN histories' = DOMAIN histories \ gone /\ now' = now
          /\ admitted' = [c \in Counters |-> IF c \in gone THEN <<>> ELSE admitted[c]]
      BY <1>2 DEF PromiseCleanupHandler, CleanupHandler
    <2>2. DOMAIN histories \ DOMAIN histories' = gone /\ gone \in SUBSET Counters
      BY <2>1 DEF TypeOK
    <2>3. arrivals' = P!Without(arrivals, gone)
      BY <1>2, <2>2 DEF PromiseCleanupHandler
    <2> QED
      BY <1>1, <2>1, <2>2, <2>3
  <1>3. ASSUME NEW p \in Policies, PromiseCleanupOrphaned(p)
        PROVE  \E lost \in SUBSET Counters : P!Forget(lost)
    <2> DEFINE gone == DOMAIN histories \ RuledBy(p)
    <2>1. /\ now' = now /\ arrivals' = P!Without(arrivals, gone)
          /\ admitted' = [c \in Counters |-> IF c \in gone THEN <<>> ELSE admitted[c]]
      BY <1>3 DEF PromiseCleanupOrphaned, CleanupOrphaned
    <2>2. gone \in SUBSET Counters
      BY DEF TypeOK
    <2> QED
      BY <1>1, <2>1, <2>2
  <1> QED
    BY <1>2, <1>3

\* The table is a sliding-window limiter: every grant, refusal and loss of it is
\* one that WindowPromise allows (memory.py record_hit, policy.py evaluate).
THEOREM CountersKeepPromise == PromiseSpec => KeepsPromise
  <1>0. PromiseSpec => OneRule
    BY PTL DEF PromiseSpec, PromiseInit
  <1> SUFFICES ASSUME OneRule
               PROVE  PromiseSpec => KeepsPromise
    BY <1>0
  <1>1. PromiseInit => P!Init
    <2> SUFFICES ASSUME PromiseInit
                 PROVE  P!Init
      OBVIOUS
    <2>1. now = 0 /\ arrivals = [c \in Counters |-> <<>>] /\ admitted = [c \in Counters |-> <<>>]
      BY DEF PromiseInit, Init
    <2>2. Granted = [c \in Counters |-> <<>>]
      <3> SUFFICES ASSUME NEW c \in Counters
                   PROVE  (IF Len(admitted[c]) <= Limits[c] THEN GrantsOf(c)
                           ELSE SubSeq(GrantsOf(c), Len(admitted[c]) - Limits[c] + 1,
                                       Len(admitted[c]))) = <<>>
        BY DEF Granted
      <3>1. Len(admitted[c]) <= Limits[c]
        BY <2>1, RuleOfCounter, EmptySeq
      <3>2. GrantsOf(c) = Instants(<<>>)
        BY <2>1 DEF GrantsOf, Instants
      <3> QED
        BY <3>1, <3>2, InstantsOfNone
    <2> QED
      BY <2>1, <2>2 DEF P!Init
  <1>2. /\ TypeOK /\ TypeOK' /\ HistoriesOrdered /\ AdmittedSpread' /\ PromiseInv /\ PromiseInv'
        /\ [PromiseNext]_<<vars, arrivals>>
        => [P!Next]_(P!promiseVars)
    <2> SUFFICES ASSUME TypeOK, TypeOK', HistoriesOrdered, AdmittedSpread', PromiseInv,
                        PromiseInv', [PromiseNext]_<<vars, arrivals>>
                 PROVE  [P!Next]_(P!promiseVars)
      OBVIOUS
    <2>1. CASE PromiseTick
      <3>1. now' > now /\ UNCHANGED <<arrivals, admitted>>
        BY <2>1 DEF PromiseTick, Tick, TypeOK
      <3>2. Granted' = Granted
        BY <3>1, GrantedNow, GrantedNext
      <3> QED
        BY <3>1, <3>2 DEF P!Pass, P!Next
    <2>2. ASSUME NEW c \in Counters, PromiseRecordHit(c)
          PROVE  P!Next
      BY <2>2, HitIsAllowed DEF P!Next
    <2>3. CASE \/ \E h \in Handlers : PromiseCleanupHandler(h)
               \/ \E p \in Policies : PromiseCleanupOrphaned(p)
      BY <2>3, CleanupForgets DEF P!Next
    <2>4. CASE UNCHANGED <<vars, arrivals>>
      <3>1. Granted' = Granted
        BY <2>4, GrantedNow, GrantedNext DEF vars
      <3> QED
        BY <2>4, <3>1 DEF vars, P!promiseVars
    <2> QED
      BY <2>1, <2>2, <2>3, <2>4 DEF PromiseNext
  <1> QED
    BY <1>1, <1>2, PromiseSpecIsSpec, TypeCorrect, OrderHolds, LimitHolds, PromiseInvHolds,
       PTL DEF PromiseSpec, KeepsPromise, P!Spec
=============================================================================
