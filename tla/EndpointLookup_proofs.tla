------------------------ MODULE EndpointLookup_proofs ------------------------
(***************************************************************************)
(* Theorems about one request's lookup and judgement, for every tree of    *)
(* routes, every set of actions, every number of rules, and every header   *)
(* that a proxy may send.                                                  *)
(***************************************************************************)
EXTENDS EndpointLookup, SequenceTheorems, FiniteSetTheorems, WellFoundedInduction, TLAPS

evars == <<stage, evaluation, lookup, identity>>

Match == [action : Actions, retry_after : RetryAfters, order : Nat]
-----------------------------------------------------------------------------
\* The order of the matches.

LEMMA ActionFields ==
  ASSUME NEW a \in Actions
  PROVE  /\ a.amount \in Nat
         /\ \/ a.type = "reject" /\ a.amount = 0
            \/ a.type = "delay" /\ a.amount # 0
            \/ a.type = "throttle" /\ a.amount # 0
  BY EvaluationAssumption DEF Actions, Reject, Delay, Throttle

LEMMA PriorityRanks ==
  ASSUME NEW a \in Actions
  PROVE  /\ Priority(a) \in Nat /\ SortKey(a) \in Int
         /\ a.type = "reject" => Priority(a) = 0 /\ SortKey(a) = a.amount
         /\ a.type = "delay" => Priority(a) = 1 /\ SortKey(a) = -a.amount
         /\ a.type = "throttle" => Priority(a) = 2 /\ SortKey(a) = a.amount
  BY ActionFields DEF Priority, SortKey

LEMMA BeforeIsTotal ==
  ASSUME NEW x \in Match, NEW y \in Match, x.order # y.order
  PROVE  Before(x, y) \/ Before(y, x)
  <1> DEFINE px == Priority(x.action)
             py == Priority(y.action)
             sx == SortKey(x.action)
             sy == SortKey(y.action)
  <1>1. px \in Nat /\ py \in Nat /\ sx \in Int /\ sy \in Int /\ x.order \in Nat /\ y.order \in Nat
    BY PriorityRanks DEF Match
  <1>2. /\ Before(x, y) <=> px < py \/ (px = py /\ (sx < sy \/ (sx = sy /\ x.order < y.order)))
        /\ Before(y, x) <=> py < px \/ (py = px /\ (sy < sx \/ (sy = sx /\ y.order < x.order)))
    BY DEF Before
  <1> HIDE DEF px, py, sx, sy
  <1> QED
    BY <1>1, <1>2

LEMMA BeforeIsTransitive ==
  ASSUME NEW x \in Match, NEW y \in Match, NEW z \in Match, Before(x, y), Before(y, z)
  PROVE  Before(x, z)
  <1> DEFINE px == Priority(x.action)
             py == Priority(y.action)
             pz == Priority(z.action)
             sx == SortKey(x.action)
             sy == SortKey(y.action)
             sz == SortKey(z.action)
  <1>1. /\ px \in Nat /\ py \in Nat /\ pz \in Nat
        /\ sx \in Int /\ sy \in Int /\ sz \in Int
        /\ x.order \in Nat /\ y.order \in Nat /\ z.order \in Nat
    BY PriorityRanks DEF Match
  <1>2. /\ Before(x, y) <=> px < py \/ (px = py /\ (sx < sy \/ (sx = sy /\ x.order < y.order)))
        /\ Before(y, z) <=> py < pz \/ (py = pz /\ (sy < sz \/ (sy = sz /\ y.order < z.order)))
        /\ Before(x, z) <=> px < pz \/ (px = pz /\ (sx < sz \/ (sx = sz /\ x.order < z.order)))
    BY DEF Before
  <1> HIDE DEF px, py, pz, sx, sy, sz
  <1> QED
    BY <1>1, <1>2

\* The match that goes before all others of M.
First(x, M) == x \in M /\ \A y \in M \ {x} : Before(x, y)

\* A match more leaves one that goes first.
LEMMA FirstOfOneMore ==
  ASSUME NEW M \in SUBSET Match, NEW z \in Match,
         \A x \in M : x.order # z.order,
         M # {} => \E x \in M : First(x, M)
  PROVE  \E x \in M \cup {z} : First(x, M \cup {z})
  <1>1. CASE M = {}
    BY <1>1 DEF First
  <1>2. CASE M # {}
    <2>1. PICK x \in M : First(x, M)
      BY <1>2
    <2>2. CASE Before(x, z)
      BY <2>1, <2>2 DEF First
    <2>3. CASE Before(z, x)
      <3>1. ASSUME NEW y \in M
            PROVE  Before(z, y)
        BY <2>1, <2>3, BeforeIsTransitive DEF First
      <3> QED
        BY <3>1 DEF First
    <2> QED
      BY <2>1, <2>2, <2>3, BeforeIsTotal
  <1> QED
    BY <1>1, <1>2

LEMMA SelectsTheFirst ==
  ASSUME NEW M, \E x \in M : First(x, M)
  PROVE  First(SelectRuleAction(M), M)
  BY DEF First, SelectRuleAction
-----------------------------------------------------------------------------
\* The inductive invariant of a judgement.

\* Nothing is judged before the lookup is over.
JudgedLast ==
  /\ stage \in {"search", "asking", "resolving", "resolved", "judged"}
  /\ stage # "asking" => limit_todo = <<>>
  /\ stage # "judged" => /\ rules = <<>> /\ next = 1 /\ matched = {} /\ outcome = Pending
                         /\ counted = <<>>
  /\ stage \notin {"resolved", "judged"} => ip_allowed = FALSE

\* Each rule before the next has been counted, and none from there on, unless the
\* storage failed at the next one after it had recorded the hit.
InTurn ==
  /\ rules \in Seq(Actions)
  /\ next \in 1 .. Len(rules) + 1
  /\ ip_allowed => next = 1
  /\ \/ counted = [i \in DOMAIN rules |-> IF i < next THEN 1 ELSE 0]
     \/ /\ outcome = Unavailable
        /\ counted = [i \in DOMAIN rules |-> IF i < next + 1 THEN 1 ELSE 0]
  /\ outcome = Unavailable => ~ip_allowed /\ next <= Len(rules)
  /\ outcome \notin {Pending, Unavailable} => ip_allowed \/ next = Len(rules) + 1

\* The matches are of rules that had their turn, one of each at most, and one
\* of them goes first.
MatchesInTurn ==
  /\ matched \subseteq Match
  /\ \A x \in matched : x.order < next
  /\ \A x, y \in matched : x.order = y.order => x = y
  /\ matched # {} => \E x \in matched : First(x, matched)

\* What was resolved is what the client's request says.
ResolvedFromClient ==
  stage = "resolved" =>
    /\ client \in Clients
    /\ \E resolved \in Resolutions : identifiers = ScopeIdentifiers(client, resolved)
    /\ ClientIp(client) = Nothing => ip_allowed = FALSE

EndpointInv ==
  JudgedLast /\ InTurn /\ MatchesInTurn /\ StrongestApplied /\ ResolvedFromClient
-----------------------------------------------------------------------------
\* What each part of the lookup and of the judgement does to the invariant.

LEMMA InitJudges ==
  ASSUME EndpointInit
  PROVE  EndpointInv
  <1>1. JudgedLast
    BY DEF EndpointInit, Unasked, JudgedLast
  <1>2. InTurn
    BY DEF EndpointInit, Unasked, InTurn, Pending, Unavailable
  <1>3. MatchesInTurn
    BY DEF EndpointInit, Unasked, MatchesInTurn
  <1>4. StrongestApplied
    <2>1. outcome.is = "pending"
      BY DEF EndpointInit, Unasked, Pending
    <2> QED
      BY <2>1 DEF StrongestApplied
  <1>5. ResolvedFromClient
    BY DEF EndpointInit, ResolvedFromClient
  <1> QED
    BY <1>1, <1>2, <1>3, <1>4, <1>5 DEF EndpointInv

\* A step that leaves the judgement alone keeps what is said of it.
LEMMA JudgementKept ==
  ASSUME EndpointInv, UNCHANGED evaluation
  PROVE  InTurn' /\ MatchesInTurn' /\ StrongestApplied'
  <1> USE DEF evaluation, request
  <1>1. InTurn'
    BY DEF EndpointInv, InTurn
  <1>2. MatchesInTurn'
    BY DEF EndpointInv, MatchesInTurn, First
  <1>3. StrongestApplied'
    BY DEF EndpointInv, StrongestApplied, Matching
  <1> QED
    BY <1>1, <1>2, <1>3

\* So does a step that fills in a rate or a permission before any hit.
LEMMA JudgementPending ==
  ASSUME EndpointInv, stage # "judged", ip_allowed' \in BOOLEAN,
         UNCHANGED <<rules, next, matched, outcome, counted>>
  PROVE  InTurn' /\ MatchesInTurn' /\ StrongestApplied'
  <1>1. outcome = Pending /\ next = 1 /\ matched = {}
    BY DEF EndpointInv, JudgedLast
  <1>2. InTurn'
    BY <1>1 DEF EndpointInv, InTurn, Pending, Unavailable
  <1>3. MatchesInTurn'
    BY <1>1 DEF MatchesInTurn
  <1>4. StrongestApplied'
    <2>1. outcome'.is = "pending"
      BY <1>1 DEF Pending
    <2> QED
      BY <2>1 DEF StrongestApplied
  <1> QED
    BY <1>2, <1>3, <1>4

\* The judgement begins with the endpoint's rules, none of them counted.
LEMMA JudgeJudges ==
  ASSUME EndpointInv, Judge
  PROVE  EndpointInv'
  <1>1. PICK rs \in Rules : Begin(rs)
    BY DEF Judge
  <1>2. stage = "resolved" /\ stage' = "judged"
    BY DEF Judge
  <1>3. outcome = Pending /\ next = 1 /\ matched = {}
    BY <1>2 DEF EndpointInv, JudgedLast
  <1>4. UNCHANGED <<route_limit, ip_allowed, next, matched, outcome>> /\ rules' = rs
    BY <1>1 DEF Begin
  <1>5. rs \in Seq(Actions) /\ Len(rs) \in Nat
    <2>1. PICK n \in 1 .. MaxRules : rs \in [1 .. n -> Actions]
      BY DEF Rules
    <2> QED
      BY <2>1, EvaluationAssumption
  <1>6. JudgedLast'
    <2>1. limit_todo = <<>>
      BY <1>2 DEF EndpointInv, JudgedLast
    <2> QED
      BY <1>2, <2>1 DEF Judge, lookup, JudgedLast
  <1>7. InTurn'
    <2>1. counted' = [i \in DOMAIN rs |-> IF i < next THEN 1 ELSE 0]
      <3>1. \A i \in DOMAIN rs : ~(i < 1)
        BY <1>5
      <3> QED
        BY <1>1, <1>3, <3>1 DEF Begin
    <2>2. next' \in 1 .. Len(rules') + 1
      BY <1>3, <1>4, <1>5
    <2>3. outcome' = Pending /\ Pending # Unavailable
      BY <1>3, <1>4 DEF Pending, Unavailable
    <2> QED
      BY <1>3, <1>4, <1>5, <2>1, <2>2, <2>3 DEF InTurn
  <1>8. MatchesInTurn'
    BY <1>3, <1>4 DEF MatchesInTurn
  <1>9. StrongestApplied'
    <2>1. outcome'.is = "pending"
      BY <1>3, <1>4 DEF Pending
    <2> QED
      BY <2>1 DEF StrongestApplied
  <1>10. ResolvedFromClient'
    BY <1>2 DEF ResolvedFromClient
  <1> QED
    BY <1>6, <1>7, <1>8, <1>9, <1>10 DEF EndpointInv

\* One more hit, of the rule whose turn it is.
LEMMA OneMoreCounted ==
  ASSUME rules \in Seq(Actions), next \in 1 .. Len(rules),
         counted = [i \in DOMAIN rules |-> IF i < next THEN 1 ELSE 0]
  PROVE  [counted EXCEPT ![next] = @ + 1] = [i \in DOMAIN rules |-> IF i < next + 1 THEN 1 ELSE 0]
  <1> DEFINE more == [counted EXCEPT ![next] = @ + 1]
  <1>1. DOMAIN rules = 1 .. Len(rules) /\ Len(rules) \in Nat
    OBVIOUS
  <1>2. ASSUME NEW i \in 1 .. Len(rules)
        PROVE  (IF i = next THEN counted[i] + 1 ELSE counted[i]) = IF i < next + 1 THEN 1 ELSE 0
    BY <1>1
  <1>3. more = [i \in 1 .. Len(rules) |-> IF i = next THEN counted[i] + 1 ELSE counted[i]]
    BY <1>1
  <1> QED
    BY <1>1, <1>2, <1>3

\* A hit is of the rule whose turn it is.
LEMMA RecordHitJudges ==
  ASSUME EndpointInv, stage = "judged", UNCHANGED <<stage, lookup, identity>>,
         NEW over \in BOOLEAN, NEW retry_after \in RetryAfters,
         RecordHit(over, retry_after)
  PROVE  EndpointInv'
  <1> DEFINE hit == [action |-> rules[next], retry_after |-> retry_after, order |-> next]
  <1>1. /\ ~ip_allowed /\ outcome = Pending /\ next <= Len(rules)
        /\ counted' = [counted EXCEPT ![next] = @ + 1]
        /\ matched' = matched \cup IF over THEN {hit} ELSE {}
        /\ next' = next + 1
        /\ UNCHANGED <<rules, route_limit, ip_allowed, outcome>>
    BY DEF RecordHit, Evaluating, NextAfter, request
  <1>2. rules \in Seq(Actions) /\ Len(rules) \in Nat /\ next \in 1 .. Len(rules)
    BY <1>1 DEF EndpointInv, InTurn
  <1>3. DOMAIN rules = 1 .. Len(rules)
    BY <1>2
  <1>4. hit \in Match
    BY <1>2, <1>3 DEF Match
  <1>5. JudgedLast'
    BY <1>1 DEF EndpointInv, JudgedLast, lookup
  <1>6. InTurn'
    <2>1. counted' = [i \in DOMAIN rules |-> IF i < next + 1 THEN 1 ELSE 0]
      <3>1. counted = [i \in DOMAIN rules |-> IF i < next THEN 1 ELSE 0]
        BY <1>1 DEF EndpointInv, InTurn, Pending, Unavailable
      <3> QED
        BY <1>1, <1>2, <3>1, OneMoreCounted
    <2>2. next' \in 1 .. Len(rules') + 1
      BY <1>1, <1>2
    <2>3. outcome' = Pending /\ Pending # Unavailable
      BY <1>1 DEF Pending, Unavailable
    <2> QED
      BY <1>1, <1>2, <2>1, <2>2, <2>3 DEF InTurn
  <1>7. MatchesInTurn'
    <2>1. /\ matched \in SUBSET Match
          /\ \A x \in matched : x.order < next
          /\ \A x, y \in matched : x.order = y.order => x = y
          /\ matched # {} => \E x \in matched : First(x, matched)
      BY DEF EndpointInv, MatchesInTurn
    <2>2. \A x \in matched : x.order \in Nat /\ x.order # next /\ x.order < next + 1
      BY <1>2, <2>1 DEF Match
    <2>3. hit.order = next /\ hit.order < next + 1
      BY <1>2
    <2> HIDE DEF hit
    <2>4. CASE over
      <3>1. matched' = matched \cup {hit}
        BY <1>1, <2>4
      <3>2. \E x \in matched \cup {hit} : First(x, matched \cup {hit})
        BY <1>4, <2>1, <2>2, <2>3, FirstOfOneMore
      <3>3. \A x \in matched' : x.order < next'
        BY <1>1, <2>2, <2>3, <3>1
      <3>4. \A x, y \in matched' : x.order = y.order => x = y
        BY <2>1, <2>2, <2>3, <3>1
      <3> QED
        BY <1>4, <2>1, <3>1, <3>2, <3>3, <3>4 DEF MatchesInTurn, First
    <2>5. CASE ~over
      <3>1. matched' = matched
        BY <1>1, <2>5
      <3> QED
        BY <1>1, <2>1, <2>2, <3>1 DEF MatchesInTurn, First
    <2> QED
      BY <2>4, <2>5
  <1>8. StrongestApplied'
    <2>1. outcome'.is = "pending"
      BY <1>1 DEF Pending
    <2> QED
      BY <2>1 DEF StrongestApplied
  <1>9. ResolvedFromClient'
    BY DEF ResolvedFromClient
  <1> QED
    BY <1>5, <1>6, <1>7, <1>8, <1>9 DEF EndpointInv

LEMMA StorageFailsJudges ==
  ASSUME EndpointInv, stage = "judged", UNCHANGED <<stage, lookup, identity>>, StorageFails
  PROVE  EndpointInv'
  <1>1. /\ ~ip_allowed /\ outcome = Pending /\ next <= Len(rules)
        /\ outcome' = Unavailable
        /\ counted' \in {counted, [counted EXCEPT ![next] = @ + 1]}
        /\ UNCHANGED <<rules, route_limit, ip_allowed, next, matched>>
    BY DEF StorageFails, Evaluating, request
  <1>2. JudgedLast'
    BY <1>1 DEF EndpointInv, JudgedLast, lookup
  <1>3. InTurn'
    <2>1. /\ rules \in Seq(Actions) /\ Len(rules) \in Nat /\ next \in 1 .. Len(rules)
          /\ counted = [i \in DOMAIN rules |-> IF i < next THEN 1 ELSE 0]
      BY <1>1 DEF EndpointInv, InTurn, Pending, Unavailable
    <2>2. counted' \in {counted, [i \in DOMAIN rules |-> IF i < next + 1 THEN 1 ELSE 0]}
      BY <1>1, <2>1, OneMoreCounted
    <2> QED
      BY <1>1, <2>1, <2>2 DEF InTurn
  <1>4. MatchesInTurn'
    BY <1>1 DEF EndpointInv, MatchesInTurn, First
  <1>5. StrongestApplied'
    <2>1. outcome'.is = "unavailable"
      BY <1>1 DEF Unavailable
    <2> QED
      BY <2>1 DEF StrongestApplied
  <1>6. ResolvedFromClient'
    BY DEF ResolvedFromClient
  <1> QED
    BY <1>2, <1>3, <1>4, <1>5, <1>6 DEF EndpointInv

\* What a rejection and an answer must be for the precedence to be respected.

LEMMA RejectionRespectsPrecedence ==
  ASSUME NEW x \in Matching("reject"), outcome' = Rejected(x.retry_after),
         \A y \in Matching("reject") : x.order <= y.order,
         matched' = matched
  PROVE  StrongestApplied'
  <1>1. outcome'.is = "rejected" /\ outcome'.retry_after = x.retry_after
    BY DEF Rejected
  <1>2. Matching("reject")' = Matching("reject")
    BY DEF Matching
  <1> QED
    BY <1>1, <1>2 DEF StrongestApplied

LEMMA AnswerRespectsPrecedence ==
  ASSUME NEW delay, NEW rate, outcome' = Served(delay, rate),
         Matching("reject") = {},
         \A x \in Matching("delay") : delay >= x.action.amount,
         Matching("delay") = {} =>
           \A x \in Matching("throttle") : rate # None /\ rate <= x.action.amount,
         Matching("delay") = {} => delay = 0,
         Matching("delay") # {} => \E x \in Matching("delay") : delay = x.action.amount,
         Matching("delay") = {} /\ Matching("throttle") # {} =>
           \E x \in Matching("throttle") : rate = x.action.amount,
         Matching("delay") # {} \/ Matching("throttle") = {} => rate = route_limit,
         UNCHANGED <<matched, route_limit>>
  PROVE  StrongestApplied'
  <1> DEFINE delays == {x.action.amount : x \in Matching("delay")}
             rates == {x.action.amount : x \in Matching("throttle")}
  <1>1. outcome'.is = "served" /\ outcome'.delay = delay /\ outcome'.rate = rate
    BY DEF Served
  <1>2. \A type : Matching(type)' = Matching(type)
    BY DEF Matching
  <1>3. delays = {} <=> Matching("delay") = {}
    OBVIOUS
  <1>4. rates = {} <=> Matching("throttle") = {}
    OBVIOUS
  <1>5. \A d \in delays : delay >= d
    OBVIOUS
  <1>6. delays = {} => \A b \in rates : rate # None /\ rate <= b
    BY <1>3
  <1>7. delay \in delays \cup {0}
    OBVIOUS
  <1>8. rate \in IF delays = {} /\ rates # {} THEN rates ELSE {route_limit}
    BY <1>3, <1>4
  <1>9. delays' = delays /\ rates' = rates
    BY <1>2
  <1> HIDE DEF delays, rates
  <1>10. /\ Matching("reject")' = {}
         /\ \A d \in delays' : outcome'.delay >= d
         /\ delays' = {} => \A b \in rates' : outcome'.rate # None /\ outcome'.rate <= b
         /\ outcome'.delay \in delays' \cup {0}
         /\ outcome'.rate \in IF delays' = {} /\ rates' # {} THEN rates' ELSE {route_limit'}
    BY <1>1, <1>2, <1>5, <1>6, <1>7, <1>8, <1>9
  <1> QED
    BY <1>1, <1>10 DEF StrongestApplied, delays, rates

\* The match that goes first decides, and no match of another kind outranks it.
LEMMA DecideRespectsPrecedence ==
  ASSUME EndpointInv, Decide
  PROVE  StrongestApplied'
  <1>1. UNCHANGED <<rules, route_limit, ip_allowed, next, matched, counted>>
    BY DEF Decide, request
  <1>2. CASE matched = {}
    <2>1. outcome' = Served(0, route_limit)
      BY <1>2 DEF Decide
    <2>2. \A type : Matching(type) = {}
      BY <1>2 DEF Matching
    <2> QED
      BY <1>1, <2>1, <2>2, AnswerRespectsPrecedence
  <1>3. CASE matched # {}
    <2> DEFINE s == SelectRuleAction(matched)
    <2>1. outcome' = Applied(s.action, s.retry_after)
      BY <1>3 DEF Decide
    <2>2. matched \subseteq Match /\ First(s, matched)
      BY <1>3, SelectsTheFirst DEF EndpointInv, MatchesInTurn
    <2> HIDE DEF s
    <2>3. s \in matched /\ s \in Match
      BY <2>2 DEF First
    <2>4. s.action \in Actions /\ s.order \in Nat
      BY <2>3 DEF Match
    <2>5. ASSUME NEW y \in matched
          PROVE  /\ y.action \in Actions /\ y.order \in Nat
                 /\ y = s \/ Before(s, y)
      BY <2>2, <2>5 DEF First, Match
    <2>6. CASE s.action.type = "reject"
      <3>1. outcome' = Rejected(s.retry_after)
        BY <2>1, <2>6 DEF Applied
      <3>2. s \in Matching("reject")
        BY <2>3, <2>6 DEF Matching
      <3>3. ASSUME NEW y \in Matching("reject")
            PROVE  s.order <= y.order
        <4>1. y \in matched /\ y.action.type = "reject"
          BY DEF Matching
        <4>2. SortKey(y.action) = 0 /\ SortKey(s.action) = 0
          BY <2>4, <2>5, <2>6, <4>1, ActionFields, PriorityRanks
        <4>3. Priority(y.action) = 0 /\ Priority(s.action) = 0
          BY <2>4, <2>5, <2>6, <4>1, PriorityRanks
        <4>4. y = s \/ s.order < y.order
          BY <2>5, <4>1, <4>2, <4>3 DEF Before
        <4> QED
          BY <2>4, <2>5, <4>1, <4>4
      <3> QED
        BY <1>1, <3>1, <3>2, <3>3, RejectionRespectsPrecedence
    <2>7. CASE s.action.type = "delay"
      <3>1. outcome' = Served(s.action.amount, route_limit)
        BY <2>1, <2>7 DEF Applied
      <3>2. s \in Matching("delay")
        BY <2>3, <2>7 DEF Matching
      <3>3. Matching("reject") = {}
        <4>1. SUFFICES ASSUME NEW y \in matched, y.action.type = "reject"
                       PROVE  FALSE
          BY DEF Matching
        <4>2. Priority(y.action) = 0 /\ Priority(s.action) = 1 /\ y # s
          BY <2>4, <2>5, <2>7, <4>1, PriorityRanks
        <4> QED
          BY <2>5, <4>2 DEF Before
      <3>4. ASSUME NEW y \in Matching("delay")
            PROVE  s.action.amount >= y.action.amount
        <4>1. y \in matched /\ y.action.type = "delay"
          BY DEF Matching
        <4>2. /\ SortKey(y.action) = -y.action.amount /\ SortKey(s.action) = -s.action.amount
              /\ Priority(y.action) = 1 /\ Priority(s.action) = 1
          BY <2>4, <2>5, <2>7, <4>1, PriorityRanks
        <4>3. y.action.amount \in Nat /\ s.action.amount \in Nat
          BY <2>4, <2>5, <4>1, ActionFields
        <4>4. y = s \/ -s.action.amount < -y.action.amount \/ -s.action.amount = -y.action.amount
          BY <2>5, <4>1, <4>2 DEF Before
        <4> QED
          BY <4>3, <4>4
      <3> QED
        BY <1>1, <3>1, <3>2, <3>3, <3>4, AnswerRespectsPrecedence
    <2>8. CASE s.action.type = "throttle"
      <3>1. outcome' = Served(0, s.action.amount)
        BY <2>1, <2>8 DEF Applied
      <3>2. s \in Matching("throttle")
        BY <2>3, <2>8 DEF Matching
      <3>3. Matching("reject") = {} /\ Matching("delay") = {}
        <4>1. SUFFICES ASSUME NEW y \in matched, y.action.type \in {"reject", "delay"}
                       PROVE  FALSE
          BY DEF Matching
        <4>2. Priority(y.action) \in {0, 1} /\ Priority(s.action) = 2 /\ y # s
          BY <2>4, <2>5, <2>8, <4>1, PriorityRanks
        <4> QED
          BY <2>5, <4>2 DEF Before
      <3>4. ASSUME NEW y \in Matching("throttle")
            PROVE  s.action.amount # None /\ s.action.amount <= y.action.amount
        <4>1. y \in matched /\ y.action.type = "throttle"
          BY DEF Matching
        <4>2. /\ SortKey(y.action) = y.action.amount /\ SortKey(s.action) = s.action.amount
              /\ Priority(y.action) = 2 /\ Priority(s.action) = 2
          BY <2>4, <2>5, <2>8, <4>1, PriorityRanks
        <4>3. y.action.amount \in Nat /\ s.action.amount \in Nat /\ s.action.amount # 0
          BY <2>4, <2>5, <2>8, <4>1, ActionFields
        <4>4. y = s \/ s.action.amount < y.action.amount \/ s.action.amount = y.action.amount
          BY <2>5, <4>1, <4>2 DEF Before
        <4> QED
          BY <4>3, <4>4 DEF None
      <3> QED
        BY <1>1, <3>1, <3>2, <3>3, <3>4, AnswerRespectsPrecedence
    <2> QED
      BY <2>4, <2>6, <2>7, <2>8, ActionFields
  <1> QED
    BY <1>2, <1>3

LEMMA DecideJudges ==
  ASSUME EndpointInv, stage = "judged", UNCHANGED <<stage, lookup, identity>>, Decide
  PROVE  EndpointInv'
  <1>1. /\ outcome = Pending /\ ~Evaluating
        /\ UNCHANGED <<rules, route_limit, ip_allowed, next, matched, counted>>
    BY DEF Decide, request
  <1>2. JudgedLast'
    BY <1>1 DEF EndpointInv, JudgedLast, lookup
  <1>3. InTurn'
    <2>1. Len(rules) \in Nat /\ next \in 1 .. Len(rules) + 1
      BY DEF EndpointInv, InTurn
    <2>2. ip_allowed \/ next = Len(rules) + 1
      BY <1>1, <2>1 DEF Evaluating
    <2>3. outcome' # Unavailable
      <3>1. outcome'.is \in {"served", "rejected"}
        <4>1. CASE matched = {}
          BY <4>1 DEF Decide, Served
        <4>2. CASE matched # {}
          <5> DEFINE s == SelectRuleAction(matched)
          <5>1. s \in matched
            BY <4>2, SelectsTheFirst DEF EndpointInv, MatchesInTurn, First
          <5>2. outcome' = Applied(s.action, s.retry_after)
            BY <4>2 DEF Decide
          <5>3. s.action \in Actions
            BY <5>1 DEF EndpointInv, MatchesInTurn, Match
          <5> HIDE DEF s
          <5> QED
            BY <5>2, <5>3, ActionFields DEF Applied, Served, Rejected
        <4> QED
          BY <4>1, <4>2
      <3> QED
        BY <3>1 DEF Unavailable
    <2> QED
      BY <1>1, <2>2, <2>3 DEF EndpointInv, InTurn
  <1>4. MatchesInTurn'
    BY <1>1 DEF EndpointInv, MatchesInTurn, First
  <1>5. StrongestApplied'
    BY DecideRespectsPrecedence
  <1>6. ResolvedFromClient'
    BY DEF ResolvedFromClient
  <1> QED
    BY <1>2, <1>3, <1>4, <1>5, <1>6 DEF EndpointInv

LEMMA ResolveJudges ==
  ASSUME EndpointInv, Resolve
  PROVE  EndpointInv'
  <1>1. /\ stage = "resolving" /\ stage' = "resolved"
        /\ UNCHANGED <<rules, route_limit, next, matched, outcome, counted, lookup>>
    BY DEF Resolve
  <1>2. ip_allowed' \in BOOLEAN
    BY DEF Resolve
  <1>3. JudgedLast'
    BY <1>1 DEF EndpointInv, JudgedLast, lookup
  <1>4. InTurn' /\ MatchesInTurn' /\ StrongestApplied'
    BY <1>1, <1>2, JudgementPending
  <1>5. ResolvedFromClient'
    BY DEF Resolve, ResolvedFromClient
  <1> QED
    BY <1>3, <1>4, <1>5 DEF EndpointInv

LEMMA EndpointInvariant == EndpointSpec => []EndpointInv
  <1>1. EndpointInit => EndpointInv
    BY InitJudges
  <1>2. EndpointInv /\ [EndpointNext]_evars => EndpointInv'
    <2> SUFFICES ASSUME EndpointInv, [EndpointNext]_evars
                 PROVE  EndpointInv'
      OBVIOUS
    <2>1. CASE Search
      <3>1. InTurn' /\ MatchesInTurn' /\ StrongestApplied'
        BY <2>1, JudgementKept DEF Search
      <3>2. JudgedLast'
        BY <2>1 DEF Search, EndpointInv, JudgedLast, evaluation, request
      <3>3. ResolvedFromClient'
        BY <2>1 DEF Search, ResolvedFromClient
      <3> QED
        BY <3>1, <3>2, <3>3 DEF EndpointInv
    <2>2. CASE GetLimit
      <3>1. stage = "asking" /\ stage' = "asking"
        BY <2>2 DEF GetLimit, EndpointInv, JudgedLast
      <3>2. InTurn' /\ MatchesInTurn' /\ StrongestApplied'
        <4>1. ip_allowed \in BOOLEAN
          BY <3>1 DEF EndpointInv, JudgedLast
        <4> QED
          BY <2>2, <3>1, <4>1, JudgementPending DEF GetLimit
      <3>3. JudgedLast'
        BY <2>2, <3>1 DEF GetLimit, EndpointInv, JudgedLast
      <3>4. ResolvedFromClient'
        BY <3>1 DEF ResolvedFromClient
      <3> QED
        BY <3>2, <3>3, <3>4 DEF EndpointInv
    <2>3. CASE GetRules
      <3>1. InTurn' /\ MatchesInTurn' /\ StrongestApplied'
        BY <2>3, JudgementKept DEF GetRules
      <3>2. JudgedLast'
        BY <2>3 DEF GetRules, EndpointInv, JudgedLast, evaluation, request
      <3>3. ResolvedFromClient'
        BY <2>3 DEF GetRules, EndpointInv, ResolvedFromClient, identity, evaluation, request
      <3> QED
        BY <3>1, <3>2, <3>3 DEF EndpointInv
    <2>4. CASE Proceed
      <3>1. InTurn' /\ MatchesInTurn' /\ StrongestApplied'
        BY <2>4, JudgementKept DEF Proceed
      <3>2. JudgedLast'
        BY <2>4 DEF Proceed, Asked, EndpointInv, JudgedLast, evaluation, request, lookup
      <3>3. ResolvedFromClient'
        BY <2>4 DEF Proceed, ResolvedFromClient
      <3> QED
        BY <3>1, <3>2, <3>3 DEF EndpointInv
    <2>5. CASE Resolve
      BY <2>5, ResolveJudges
    <2>6. CASE Judge
      BY <2>6, JudgeJudges
    <2>7. ASSUME NEW setting, NEW n, Touch(setting, n)
          PROVE  EndpointInv'
      <3>1. UNCHANGED <<evaluation, stage, limit_todo, identity>> /\ stage = "asking"
        BY <2>7 DEF Touch
      <3>2. InTurn' /\ MatchesInTurn' /\ StrongestApplied'
        BY <3>1, JudgementKept
      <3>3. JudgedLast'
        BY <3>1 DEF EndpointInv, JudgedLast, evaluation, request
      <3>4. ResolvedFromClient'
        BY <3>1 DEF ResolvedFromClient
      <3> QED
        BY <3>2, <3>3, <3>4 DEF EndpointInv
    <2>8. CASE stage = "judged" /\ Evaluate /\ UNCHANGED <<stage, lookup, identity>>
      BY <2>8, RecordHitJudges, StorageFailsJudges, DecideJudges DEF Evaluate
    <2>9. CASE UNCHANGED evars
      <3>1. UNCHANGED <<stage, evaluation, lookup, identity>>
        BY <2>9 DEF evars
      <3>2. InTurn' /\ MatchesInTurn' /\ StrongestApplied'
        BY <3>1, JudgementKept
      <3>3. JudgedLast'
        BY <3>1 DEF EndpointInv, JudgedLast, evaluation, request, lookup
      <3>4. ResolvedFromClient'
        BY <3>1 DEF EndpointInv, ResolvedFromClient, evaluation, request, identity
      <3> QED
        BY <3>2, <3>3, <3>4 DEF EndpointInv
    <2> QED
      <3>1. ASSUME NEW n \in Names,
                   \/ \E rate \in Rates : UpdateRoute(n, rate)
                   \/ RemoveRoute(n) \/ UpdatePolicy(n) \/ RemovePolicy(n)
            PROVE  Touch("limit", n) \/ Touch("rules", n)
        BY <3>1 DEF UpdateRoute, RemoveRoute, UpdatePolicy, RemovePolicy
      <3> QED
        BY <2>1, <2>2, <2>3, <2>4, <2>5, <2>6, <2>7, <2>8, <2>9, <3>1 DEF EndpointNext
  <1> QED
    BY <1>1, <1>2, PTL DEF EndpointSpec, evars
-----------------------------------------------------------------------------
\* A Reject wins over any Delay and a Delay over any Throttle, the longest delay
\* and the lowest rate apply, whatever the rules and however their hits and the
\* changes of configuration interleave (policy.py sort_tuple, evaluate).
THEOREM StrongestActionApplies == EndpointSpec => []StrongestApplied
  <1>1. EndpointInv => StrongestApplied
    BY DEF EndpointInv
  <1> QED
    BY <1>1, EndpointInvariant, PTL

\* A judged request has been counted once under each of its rules; one refused
\* by a storage that failed at a rule, once under each before it, under none
\* behind it, and under that rule once or not at all (policy.py evaluate).
THEOREM EachRuleCounts == EndpointSpec => []CountedUnderEachRule
  <1>1. EndpointInv => CountedUnderEachRule
    <2> SUFFICES ASSUME EndpointInv
                 PROVE  CountedUnderEachRule
      OBVIOUS
    <2> DEFINE UpTo(n) == \A i \in DOMAIN rules : counted[i] = IF i <= n THEN 1 ELSE 0
    <2>1. /\ DOMAIN rules = 1 .. Len(rules) /\ Len(rules) \in Nat
          /\ next \in 1 .. Len(rules) + 1
          /\ ip_allowed => next = 1
          /\ outcome = Unavailable => ~ip_allowed /\ next <= Len(rules)
          /\ outcome \notin {Pending, Unavailable} => ip_allowed \/ next = Len(rules) + 1
      BY DEF EndpointInv, InTurn
    <2>2. UpTo(next - 1) \/ (outcome = Unavailable /\ UpTo(next))
      <3>1. CASE counted = [i \in DOMAIN rules |-> IF i < next THEN 1 ELSE 0]
        <4>1. \A i \in DOMAIN rules : i < next <=> i <= next - 1
          BY <2>1
        <4> QED
          BY <3>1, <4>1
      <3>2. CASE /\ outcome = Unavailable
                 /\ counted = [i \in DOMAIN rules |-> IF i < next + 1 THEN 1 ELSE 0]
        <4>1. \A i \in DOMAIN rules : i < next + 1 <=> i <= next
          BY <2>1
        <4> QED
          BY <3>2, <4>1
      <3> QED
        BY <3>1, <3>2 DEF EndpointInv, InTurn
    <2>3. ip_allowed => UpTo(0)
      <3>1. next = 1 => next - 1 = 0
        OBVIOUS
      <3> QED
        BY <2>1, <2>2, <3>1
    <2>4. outcome = Unavailable => next \in DOMAIN rules /\ \E n \in {next - 1, next} : UpTo(n)
      BY <2>1, <2>2
    <2>5. outcome \notin {Pending, Unavailable} /\ ~ip_allowed => UpTo(Len(rules))
      <3>1. next = Len(rules) + 1 => next - 1 = Len(rules)
        BY <2>1
      <3> QED
        BY <2>1, <2>2, <3>1
    <2> QED
      BY <2>1, <2>3, <2>4, <2>5 DEF CountedUnderEachRule
  <1> QED
    BY <1>1, EndpointInvariant, PTL

\* The lists, the built-in scopes and the stand-in for a failed resolver agree on
\* the client's address, and an untrusted header changes none of them
\* (identity.py get_client_ip, get_client_identifier).
THEOREM OneIdentity == EndpointSpec => []IdentityAgrees
  <1>1. EndpointInv => IdentityAgrees
    <2> SUFFICES ASSUME EndpointInv, stage = "resolved"
                 PROVE  IdentityAgrees
      BY DEF IdentityAgrees
    <2>1. client \in Clients
      BY DEF EndpointInv, ResolvedFromClient
    <2>2. PICK resolved \in Resolutions : identifiers = ScopeIdentifiers(client, resolved)
      BY DEF EndpointInv, ResolvedFromClient
    <2>3. ClientIp(client) = Nothing => ip_allowed = FALSE
      BY DEF EndpointInv, ResolvedFromClient
    <2> DEFINE direct == [client EXCEPT !.forwarded = <<>>, !.real = <<>>]
               address == ClientIp(client)
    <2>4. /\ identifiers.ip = IF address # Nothing THEN address ELSE "unknown"
          /\ identifiers.default = ClientIdentifier(client)
          /\ identifiers.user \in {"user", identifiers.ip}
      BY <2>2 DEF ScopeIdentifiers
    <2>5. address # Nothing => ClientIdentifier(client) = address
      BY DEF ClientIdentifier, ClientIp, PeerIp
    <2>6. direct.trusted = client.trusted /\ direct.peer = client.peer
      BY <2>1 DEF Clients
    <2>7. ~client.trusted => Proxied(client) = Nothing /\ Proxied(direct) = Nothing
      BY <2>6 DEF Proxied
    <2>8. ~client.trusted => /\ address = ClientIp(direct)
                             /\ ClientIdentifier(client) = ClientIdentifier(direct)
      <3> HIDE DEF direct
      <3> QED
        BY <2>6, <2>7 DEF ClientIp, ClientIdentifier, PeerIp
    <2> QED
      BY <2>3, <2>4, <2>5, <2>8 DEF IdentityAgrees
  <1> QED
    BY <1>1, EndpointInvariant, PTL
-----------------------------------------------------------------------------
\* The names of an endpoint, each at its place among those that are tried.

\* The sequence s lists the names of conf that t has from place m to place n and
\* not before, each once and in order; k gives their places.
Lists(s, k, t, conf, m, n) ==
  /\ s \in Seq(conf)
  /\ k \in [1 .. Len(s) -> m .. n]
  /\ \A i \in 1 .. Len(s) : s[i] = t[k[i]]
  /\ \A i \in 1 .. Len(s), j \in 1 .. Len(s) : i < j => k[i] < k[j]
  /\ \A j \in m .. n : t[j] \in conf =>
       \/ \E h \in 1 .. m - 1 : t[h] = t[j]
       \/ \E i \in 1 .. Len(s) : s[i] = t[j] /\ k[i] <= j

LEMMA ListsNothing ==
  ASSUME NEW t, NEW conf
  PROVE  Lists(<<>>, [i \in 1 .. 0 |-> i], t, conf, 1, 0)
  BY DEF Lists

LEMMA ListsOneMore ==
  ASSUME NEW t, NEW conf, NEW n \in Nat, NEW s, NEW k, Lists(s, k, t, conf, 1, n)
  PROVE  \E l : Lists(AppendConfiguredName(s, t[n + 1], conf), l, t, conf, 1, n + 1)
  <1> DEFINE name == t[n + 1]
             r == AppendConfiguredName(s, name, conf)
  <1>1. /\ s \in Seq(conf) /\ k \in [1 .. Len(s) -> 1 .. n]
        /\ \A i \in 1 .. Len(s) : s[i] = t[k[i]]
        /\ \A i \in 1 .. Len(s), j \in 1 .. Len(s) : i < j => k[i] < k[j]
        /\ \A j \in 1 .. n : t[j] \in conf => \E i \in 1 .. Len(s) : s[i] = t[j] /\ k[i] <= j
    BY DEF Lists
  <1>2. PICK c \in Nat : c = Len(s)
    BY <1>1, LenProperties
  <1>3. 1 .. n \subseteq 1 .. (n + 1) /\ n + 1 \in 1 .. (n + 1)
        /\ \A j \in 1 .. (n + 1) : j \in 1 .. n \/ j = n + 1
    OBVIOUS
  <1>4. CASE ~(name \in conf /\ ~Contains(s, name))
    <2>1. r = s
      BY <1>4 DEF AppendConfiguredName
    <2>2. k \in [1 .. Len(s) -> 1 .. (n + 1)]
      BY <1>1, <1>3
    <2>3. name \in conf => \E i \in 1 .. Len(s) : s[i] = name /\ k[i] <= n + 1
      <3> SUFFICES ASSUME name \in conf
                   PROVE  \E i \in 1 .. Len(s) : s[i] = name /\ k[i] <= n + 1
        OBVIOUS
      <3>1. PICK i \in 1 .. Len(s) : s[i] = name
        BY <1>4 DEF Contains
      <3>2. k[i] \in 1 .. n
        BY <1>1
      <3> QED
        BY <3>1, <3>2
    <2>4. \A j \in 1 .. (n + 1) : t[j] \in conf => \E i \in 1 .. Len(s) : s[i] = t[j] /\ k[i] <= j
      BY <1>1, <1>3, <2>3
    <2>5. Lists(s, k, t, conf, 1, n + 1)
      BY <1>1, <2>2, <2>4 DEF Lists
    <2> QED
      BY <2>1, <2>5
  <1>5. CASE name \in conf /\ ~Contains(s, name)
    <2> DEFINE l == [i \in 1 .. c + 1 |-> IF i <= c THEN k[i] ELSE n + 1]
    <2>1. r = Append(s, name)
      BY <1>5 DEF AppendConfiguredName
    <2>2. /\ r \in Seq(conf) /\ Len(r) = c + 1
          /\ \A i \in 1 .. c : r[i] = s[i]
          /\ r[c + 1] = name
      BY <1>1, <1>2, <1>5, <2>1, AppendProperties
    <2>3. /\ \A i \in 1 .. c : l[i] = k[i] /\ k[i] \in 1 .. n
          /\ l[c + 1] = n + 1
          /\ 1 .. c \subseteq 1 .. (c + 1) /\ c + 1 \in 1 .. (c + 1)
          /\ \A i \in 1 .. (c + 1) : i \in 1 .. c \/ i = c + 1
      BY <1>1, <1>2
    <2>4. l \in [1 .. (c + 1) -> 1 .. (n + 1)]
      BY <1>3, <2>3
    <2> HIDE DEF l, r
    <2>5. \A i \in 1 .. (c + 1) : r[i] = t[l[i]]
      BY <1>1, <1>2, <2>2, <2>3
    <2>6. \A i \in 1 .. (c + 1), j \in 1 .. (c + 1) : i < j => l[i] < l[j]
      BY <1>1, <1>2, <2>3
    <2>7. ASSUME NEW j \in 1 .. (n + 1), t[j] \in conf
          PROVE  \E i \in 1 .. (c + 1) : r[i] = t[j] /\ l[i] <= j
      <3>1. CASE j \in 1 .. n
        <4>1. PICK i \in 1 .. c : s[i] = t[j] /\ k[i] <= j
          BY <1>1, <1>2, <2>7, <3>1
        <4> QED
          BY <2>2, <2>3, <4>1
      <3>2. CASE j = n + 1
        BY <2>2, <2>3, <3>2
      <3> QED
        BY <1>3, <3>1, <3>2
    <2>8. Lists(r, l, t, conf, 1, n + 1)
      BY <2>2, <2>4, <2>5, <2>6, <2>7 DEF Lists
    <2> QED
      BY <2>8 DEF r
  <1> QED
    BY <1>4, <1>5

\* The head is the first name left, and the tail lists the rest.
LEMMA ListsTheRest ==
  ASSUME NEW t, NEW conf, NEW m \in Nat \ {0}, NEW n \in Nat, NEW s, NEW k,
         Lists(s, k, t, conf, m, n), s # <<>>
  PROVE  \E p \in m .. n :
           /\ Head(s) = t[p] /\ Head(s) \in conf
           /\ \A j \in m .. p - 1 : t[j] \in conf => \E h \in 1 .. m - 1 : t[h] = t[j]
           /\ \E l : Lists(Tail(s), l, t, conf, p + 1, n)
  <1>1. /\ s \in Seq(conf) /\ k \in [1 .. Len(s) -> m .. n]
        /\ \A i \in 1 .. Len(s) : s[i] = t[k[i]]
        /\ \A i \in 1 .. Len(s), j \in 1 .. Len(s) : i < j => k[i] < k[j]
        /\ \A j \in m .. n : t[j] \in conf =>
             \/ \E h \in 1 .. m - 1 : t[h] = t[j]
             \/ \E i \in 1 .. Len(s) : s[i] = t[j] /\ k[i] <= j
    BY DEF Lists
  <1>2. PICK c \in Nat : c = Len(s) /\ c # 0
    BY <1>1, LenProperties, EmptySeq
  <1>3. PICK p \in m .. n : p = k[1]
    BY <1>1, <1>2
  <1>4. Head(s) = t[p] /\ Head(s) \in conf
    <2>1. Head(s) = s[1]
      BY <1>1, <1>2
    <2>2. 1 \in 1 .. c
      BY <1>2
    <2>3. s[1] \in conf
      BY <1>1, <1>2, <2>2, ElementOfSeq
    <2> QED
      BY <1>1, <1>2, <1>3, <2>1, <2>2, <2>3
  <1>5. \A i \in 1 .. c : k[i] \in m .. n /\ p <= k[i] /\ (i # 1 => p < k[i])
    BY <1>1, <1>2, <1>3
  <1>6. ASSUME NEW j \in m .. p - 1, t[j] \in conf
        PROVE  \E h \in 1 .. m - 1 : t[h] = t[j]
    <2>1. j \in m .. n /\ \A i \in 1 .. c : ~(k[i] <= j)
      BY <1>3, <1>5
    <2> QED
      BY <1>1, <1>2, <1>6, <2>1
  <1> DEFINE l == [i \in 1 .. c - 1 |-> k[i + 1]]
             r == Tail(s)
  <1>7. /\ r \in Seq(conf) /\ Len(r) = c - 1
        /\ \A i \in 1 .. c - 1 : r[i] = s[i + 1]
    <2>1. s # <<>> /\ s \in Seq(conf)
      BY <1>1
    <2> QED
      BY <1>2, <2>1, HeadTailProperties
  <1>8. \A i \in 1 .. c - 1 : i + 1 \in 1 .. c /\ i + 1 # 1 /\ l[i] = k[i + 1]
    BY <1>2
  <1>9. l \in [1 .. c - 1 -> p + 1 .. n]
    <2>1. \A i \in 1 .. c - 1 : k[i + 1] \in p + 1 .. n
      BY <1>3, <1>5, <1>8
    <2> QED
      BY <2>1
  <1> HIDE DEF l, r
  <1>10. \A i \in 1 .. c - 1 : r[i] = t[l[i]]
    BY <1>1, <1>2, <1>7, <1>8
  <1>11. \A i \in 1 .. c - 1, j \in 1 .. c - 1 : i < j => l[i] < l[j]
    <2>1. \A i \in 1 .. c - 1, j \in 1 .. c - 1 : i < j => i + 1 < j + 1
      BY <1>2
    <2> QED
      BY <1>1, <1>2, <1>8, <2>1
  <1>12. ASSUME NEW j \in p + 1 .. n, t[j] \in conf
         PROVE  \/ \E h \in 1 .. (p + 1) - 1 : t[h] = t[j]
                \/ \E i \in 1 .. c - 1 : r[i] = t[j] /\ l[i] <= j
    <2>1. 1 .. m - 1 \subseteq 1 .. (p + 1) - 1 /\ p \in 1 .. (p + 1) - 1 /\ j \in m .. n
      BY <1>3
    <2>2. CASE \E h \in 1 .. m - 1 : t[h] = t[j]
      BY <2>1, <2>2
    <2>3. ASSUME NEW i \in 1 .. c, s[i] = t[j], k[i] <= j
          PROVE  \/ \E h \in 1 .. (p + 1) - 1 : t[h] = t[j]
                 \/ \E g \in 1 .. c - 1 : r[g] = t[j] /\ l[g] <= j
      <3>1. CASE i = 1
        BY <1>1, <1>2, <1>3, <2>1, <2>3, <3>1
      <3>2. CASE i # 1
        <4>1. i - 1 \in 1 .. c - 1 /\ (i - 1) + 1 = i
          BY <1>2, <3>2
        <4> QED
          BY <1>7, <1>8, <2>3, <4>1
      <3> QED
        BY <3>1, <3>2
    <2> QED
      BY <1>1, <1>2, <1>12, <2>1, <2>2, <2>3
  <1>13. Lists(r, l, t, conf, p + 1, n)
    BY <1>7, <1>9, <1>10, <1>11, <1>12 DEF Lists
  <1> QED
    BY <1>4, <1>6, <1>13 DEF r
-----------------------------------------------------------------------------
\* Naturals and finite sets of sequences.

LEMMA LeastNatural ==
  ASSUME NEW T \in SUBSET Nat, T # {}
  PROVE  \E n \in T : \A m \in T : n <= m
  <1> DEFINE R == OpToRel(<, Nat)
  <1>1. IsWellFoundedOn(R, Nat)
    BY NatLessThanWellFounded
  <1>2. \A m, n \in Nat : m < n => <<m, n>> \in R
    BY DEF OpToRel
  <1> HIDE DEF R
  <1>3. PICK n \in T : \A m \in T : ~(<<m, n>> \in R)
    BY <1>1, WFMin
  <1>4. ASSUME NEW m \in T
        PROVE  n <= m
    <2>1. m \in Nat /\ n \in Nat
      OBVIOUS
    <2>2. ~(m < n)
      BY <1>2, <1>3, <2>1
    <2> QED
      BY <2>1, <2>2
  <1> QED
    BY <1>4

\* What holds at zero and of each successor holds up to any n.
LEMMA CountingUp ==
  ASSUME NEW n \in Nat, NEW T, 0 \in T, \A i \in 0 .. n - 1 : i \in T => i + 1 \in T
  PROVE  n \in T
  <1> DEFINE Out == {i \in 0 .. n : i \notin T}
  <1>1. SUFFICES ASSUME Out # {}
                 PROVE  FALSE
    OBVIOUS
  <1>2. PICK i \in Out : \A j \in Out : i <= j
    <2>1. Out \in SUBSET Nat
      OBVIOUS
    <2> HIDE DEF Out
    <2> QED
      BY <1>1, <2>1, LeastNatural
  <1>3. i \in 0 .. n /\ i \notin T /\ i # 0
    OBVIOUS
  <1>4. i - 1 \in 0 .. n - 1 /\ (i - 1) + 1 = i /\ i - 1 \in 0 .. n /\ ~(i <= i - 1)
    BY <1>3
  <1>5. i - 1 \in T
    BY <1>2, <1>4
  <1> QED
    BY <1>3, <1>4, <1>5

\* Finitely many routes have a longest.
LEMMA RoutesAreBounded ==
  \E bound \in Nat : \A r \in Routes : Len(r) <= bound
  <1>1. PICK n \in Nat : ExistsSurjection(1 .. n, Routes)
    BY LookupAssumption, FS_NatSurjection
  <1>2. PICK f \in [1 .. n -> Routes] : \A r \in Routes : \E i \in 1 .. n : f[i] = r
    BY <1>1 DEF ExistsSurjection, Surjection
  <1>3. \A r \in Routes : Len(r) \in Nat
    BY LookupAssumption, LenProperties
  <1> DEFINE T == {i \in 0 .. n : \E bound \in Nat : \A j \in 1 .. i : Len(f[j]) <= bound}
  <1>4. 0 \in T
    <2>1. \A j \in 1 .. 0 : Len(f[j]) <= 0
      OBVIOUS
    <2> QED
      BY <2>1
  <1>5. ASSUME NEW i \in 0 .. n - 1, i \in T
        PROVE  i + 1 \in T
    <2>1. PICK bound \in Nat : \A j \in 1 .. i : Len(f[j]) <= bound
      BY <1>5
    <2>2. i + 1 \in 1 .. n /\ i + 1 \in 0 .. n /\ \A j \in 1 .. i + 1 : j \in 1 .. i \/ j = i + 1
      OBVIOUS
    <2>3. PICK l \in Nat : l = Len(f[i + 1])
      BY <1>2, <1>3, <2>2
    <2>4. PICK b \in Nat : b = bound + l
      OBVIOUS
    <2>5. \A j \in 1 .. i : Len(f[j]) \in Nat
      BY <1>2, <1>3
    <2>6. \A j \in 1 .. i + 1 : Len(f[j]) <= b
      BY <2>1, <2>2, <2>3, <2>4, <2>5
    <2> QED
      BY <2>2, <2>6
  <1>6. n \in T
    <2> HIDE DEF T
    <2> QED
      BY <1>4, <1>5, CountingUp
  <1>7. PICK bound \in Nat : \A j \in 1 .. n : Len(f[j]) <= bound
    BY <1>6
  <1> QED
    BY <1>2, <1>7
-----------------------------------------------------------------------------
\* The walk over the routes.

Ways == Routes \cup {<<>>}

\* A route and what leads to it.
LEMMA Leading ==
  ASSUME NEW r \in Ways
  PROVE  /\ r \in Seq(Nat) /\ Len(r) \in Nat
         /\ r = <<>> <=> Len(r) = 0
         /\ \A n \in 0 .. Len(r) : /\ SubSeq(r, 1, n) \in Ways
                                   /\ Len(SubSeq(r, 1, n)) = n
                                   /\ \A i \in 1 .. n : SubSeq(r, 1, n)[i] = r[i]
                                   /\ n # 0 => SubSeq(r, 1, n) \in Routes
         /\ SubSeq(r, 1, Len(r)) = r
         /\ r # <<>> => r \in Routes
  <1>1. r \in Seq(Nat)
    <2>1. \A q \in Routes : q \in Seq(Nat)
      BY LookupAssumption
    <2> QED
      BY <2>1, EmptySeq DEF Ways
  <1>2. Len(r) \in Nat /\ r \in [1 .. Len(r) -> Nat] /\ SubSeq(r, 1, Len(r)) = r
    BY <1>1, LenProperties, SubSeqFull
  <1>3. r = <<>> <=> Len(r) = 0
    BY <1>1, EmptySeq
  <1>4. ASSUME NEW n \in 0 .. Len(r)
        PROVE  /\ SubSeq(r, 1, n) \in Ways
               /\ Len(SubSeq(r, 1, n)) = n
               /\ \A i \in 1 .. n : SubSeq(r, 1, n)[i] = r[i]
               /\ n # 0 => SubSeq(r, 1, n) \in Routes
    <2>1. \A i \in 1 .. n : r[i] \in Nat
      BY <1>2
    <2>2. /\ Len(SubSeq(r, 1, n)) = IF 1 <= n THEN n - 1 + 1 ELSE 0
          /\ \A i \in 1 .. n - 1 + 1 : SubSeq(r, 1, n)[i] = r[1 + i - 1]
      BY <1>2, <2>1, SubSeqProperties
    <2>3. CASE n = 0
      <3>1. SubSeq(r, 1, n) = <<>>
        BY <2>3, SubSeqEmpty
      <3> QED
        BY <2>3, <3>1 DEF Ways
    <2>4. CASE n # 0
      <3>1. n \in 1 .. Len(r) /\ r \in Routes
        BY <1>2, <1>3, <2>4 DEF Ways
      <3>2. SubSeq(r, 1, n) \in Routes
        BY <3>1, LookupAssumption
      <3>3. \A i \in 1 .. n : i \in 1 .. n - 1 + 1 /\ 1 + i - 1 = i
        BY <1>2
      <3>4. 1 <= n /\ n - 1 + 1 = n
        BY <1>2, <2>4
      <3> QED
        BY <2>2, <3>2, <3>3, <3>4 DEF Ways
    <2> QED
      BY <2>3, <2>4
  <1> QED
    BY <1>1, <1>2, <1>3, <1>4 DEF Ways

LEMMA Parents ==
  ASSUME NEW r \in Routes
  PROVE  /\ Len(r) \in Nat \ {0}
         /\ Front(r) \in Ways /\ Len(Front(r)) = Len(r) - 1
         /\ Last(r) \in Nat /\ r \in Children(Front(r))
         /\ \A n \in 0 .. Len(r) - 1 : SubSeq(r, 1, n) = SubSeq(Front(r), 1, n)
         /\ \A n \in 1 .. Len(r) : Front(SubSeq(r, 1, n)) = SubSeq(r, 1, n - 1)
  <1> DEFINE P(s, n) == SubSeq(s, 1, n)
  <1>1. r \in Ways /\ r # <<>>
    BY LookupAssumption DEF Ways
  <1>2. PICK c \in Nat \ {0} : c = Len(r)
    BY <1>1, Leading
  <1>3. r \in Seq(Nat) /\ c \in 1 .. Len(r) /\ r[c] \in Nat
    BY <1>1, <1>2, Leading, ElementOfSeq
  <1>4. \A s \in Ways : \A n \in 0 .. Len(s) :
          /\ P(s, n) \in Ways /\ Len(P(s, n)) = n
          /\ \A i \in 1 .. n : P(s, n)[i] = s[i]
    BY Leading
  <1>5. Front(r) = P(r, c - 1) /\ c - 1 \in 0 .. c
    BY <1>2 DEF Front
  <1> HIDE DEF P
  <1>6. Front(r) \in Ways /\ Len(Front(r)) = c - 1 /\ \A i \in 1 .. c - 1 : Front(r)[i] = r[i]
    BY <1>1, <1>2, <1>4, <1>5
  <1>7. ASSUME NEW n \in 0 .. c - 1
        PROVE  P(r, n) = P(Front(r), n)
    <2>1. n \in 0 .. c /\ 1 .. n \subseteq 1 .. c - 1
      OBVIOUS
    <2>2. /\ P(r, n) \in Ways /\ Len(P(r, n)) = n
          /\ P(Front(r), n) \in Ways /\ Len(P(Front(r), n)) = n
          /\ \A i \in 1 .. n : P(r, n)[i] = r[i]
          /\ \A i \in 1 .. n : P(Front(r), n)[i] = Front(r)[i]
      BY <1>1, <1>2, <1>4, <1>6, <2>1
    <2>3. P(r, n) \in Seq(Nat) /\ P(Front(r), n) \in Seq(Nat)
      BY <2>2, Leading
    <2>4. \A i \in 1 .. n : P(r, n)[i] = P(Front(r), n)[i]
      BY <1>6, <2>1, <2>2
    <2> QED
      BY <2>2, <2>3, <2>4, SeqEqual
  <1>8. ASSUME NEW n \in 1 .. c
        PROVE  Front(P(r, n)) = P(r, n - 1)
    <2>1. n \in 0 .. c /\ n - 1 \in 0 .. c /\ n - 1 \in 0 .. n /\ 1 .. n - 1 \subseteq 1 .. n
      OBVIOUS
    <2>2. /\ P(r, n) \in Ways /\ Len(P(r, n)) = n
          /\ \A i \in 1 .. n : P(r, n)[i] = r[i]
          /\ P(r, n - 1) \in Ways /\ Len(P(r, n - 1)) = n - 1
          /\ \A i \in 1 .. n - 1 : P(r, n - 1)[i] = r[i]
      BY <1>1, <1>2, <1>4, <2>1
    <2>3. Front(P(r, n)) = P(P(r, n), n - 1)
      BY <2>2 DEF Front, P
    <2>4. /\ P(P(r, n), n - 1) \in Ways /\ Len(P(P(r, n), n - 1)) = n - 1
          /\ \A i \in 1 .. n - 1 : P(P(r, n), n - 1)[i] = P(r, n)[i]
      BY <1>4, <2>1, <2>2
    <2>5. P(r, n - 1) \in Seq(Nat) /\ P(P(r, n), n - 1) \in Seq(Nat)
      BY <2>2, <2>4, Leading
    <2>6. \A i \in 1 .. n - 1 : P(P(r, n), n - 1)[i] = P(r, n - 1)[i]
      BY <2>1, <2>2, <2>4
    <2> QED
      BY <2>2, <2>3, <2>4, <2>5, <2>6, SeqEqual
  <1>9. r \in Children(Front(r)) /\ Last(r) = r[c]
    BY <1>2 DEF Children, Last
  <1> QED
    BY <1>2, <1>3, <1>6, <1>7, <1>8, <1>9 DEF P

Full(p) == {c \in Children(p) : FullyMatches(c)}

Chosen(p) == CHOOSE c \in Full(p) : \A d \in Full(p) : Last(c) <= Last(d)

\* The router would go from the parent of s to s.
Leads(s) == match[s] = "full" /\ \A d \in Children(Front(s)) : match[d] = "full" => Last(s) <= Last(d)

\* The router goes all the way to e; it begins at the application itself.
Taken(e) == e \in Ways /\ \A n \in 1 .. Len(e) : Leads(SubSeq(e, 1, n))

LEMMA ExecutedIsTaken ==
  ASSUME NEW r \in Routes
  PROVE  Executed(r) <=> Taken(r)
  BY DEF Executed, Taken, Leads, Ways

LEMMA SiblingsDiffer ==
  ASSUME NEW c \in Routes, NEW d \in Routes, Front(c) = Front(d), Last(c) = Last(d)
  PROVE  c = d
  <1>1. PICK n \in Nat \ {0} : n = Len(c)
    BY Parents
  <1>2. Len(d) = n
    <2>1. PICK m \in Nat \ {0} : m = Len(d)
      BY Parents
    <2>2. PICK l \in Nat : l = Len(Front(c))
      BY Leading, Parents
    <2>3. l = n - 1 /\ l = m - 1
      BY <1>1, <2>1, <2>2, Parents
    <2> QED
      BY <2>1, <2>3
  <1>3. /\ c \in Seq(Nat) /\ d \in Seq(Nat)
        /\ \A i \in 1 .. n - 1 : SubSeq(c, 1, n - 1)[i] = c[i]
        /\ \A i \in 1 .. n - 1 : SubSeq(d, 1, n - 1)[i] = d[i]
    <2>1. c \in Ways /\ d \in Ways /\ n - 1 \in 0 .. n
      BY DEF Ways
    <2> QED
      BY <1>1, <1>2, <2>1, Leading
  <1>4. Front(c) = SubSeq(c, 1, n - 1) /\ Front(d) = SubSeq(d, 1, n - 1)
    BY <1>1, <1>2 DEF Front
  <1>5. c[n] = d[n]
    BY <1>1, <1>2 DEF Last
  <1>6. \A i \in 1 .. n : i \in 1 .. n - 1 \/ i = n
    OBVIOUS
  <1>7. \A i \in 1 .. n : c[i] = d[i]
    BY <1>3, <1>4, <1>5, <1>6
  <1> QED
    BY <1>1, <1>2, <1>3, <1>7, SeqEqual

LEMMA ChosenLeads ==
  ASSUME NEW p \in Ways, Full(p) # {}
  PROVE  /\ Chosen(p) \in Routes /\ Front(Chosen(p)) = p /\ Leads(Chosen(p))
         /\ Len(Chosen(p)) = Len(p) + 1
  <1> DEFINE T == {Last(c) : c \in Full(p)}
  <1>1. \A c \in Full(p) : c \in Routes /\ Front(c) = p /\ match[c] = "full" /\ Last(c) \in Nat
    BY Parents DEF Full, Children, FullyMatches
  <1>2. T \in SUBSET Nat /\ T # {}
    BY <1>1
  <1>3. PICK n \in T : \A m \in T : n <= m
    <2> HIDE DEF T
    <2> QED
      BY <1>2, LeastNatural
  <1>4. \E c \in Full(p) : \A d \in Full(p) : Last(c) <= Last(d)
    BY <1>3
  <1>5. Chosen(p) \in Full(p) /\ \A d \in Full(p) : Last(Chosen(p)) <= Last(d)
    BY <1>4 DEF Chosen
  <1>6. Leads(Chosen(p))
    <2>1. \A d \in Children(p) : match[d] = "full" => d \in Full(p)
      BY DEF Full, FullyMatches
    <2> QED
      BY <1>1, <1>5, <2>1 DEF Leads
  <1>7. Len(Chosen(p)) = Len(p) + 1
    <2>1. PICK l \in Nat \ {0} : l = Len(Chosen(p))
      BY <1>1, <1>5, Parents
    <2>2. Len(p) = l - 1
      BY <1>1, <1>5, <2>1, Parents
    <2> QED
      BY <2>1, <2>2
  <1> QED
    BY <1>1, <1>5, <1>6, <1>7

LEMMA LeadingIsChosen ==
  ASSUME NEW s \in Routes, Leads(s)
  PROVE  Full(Front(s)) # {} /\ Chosen(Front(s)) = s
  <1>1. s \in Full(Front(s))
    BY Parents DEF Full, FullyMatches, Leads
  <1>2. Front(s) \in Ways
    BY Parents
  <1>3. PICK c \in Routes : c = Chosen(Front(s))
    BY <1>1, <1>2, ChosenLeads
  <1>4. Front(c) = Front(s) /\ Leads(c)
    BY <1>1, <1>2, <1>3, ChosenLeads
  <1>5. c \in Children(Front(s)) /\ s \in Children(Front(s)) /\ Last(c) \in Nat /\ Last(s) \in Nat
    BY <1>4, Parents
  <1>6. Last(c) <= Last(s) /\ Last(s) <= Last(c)
    BY <1>4, <1>5 DEF Leads
  <1>7. Last(c) = Last(s)
    BY <1>5, <1>6
  <1> QED
    BY <1>1, <1>3, <1>4, <1>7, SiblingsDiffer

LEMMA TakenOn ==
  ASSUME NEW e, Taken(e), Full(e) # {}
  PROVE  Taken(Chosen(e))
  <1>1. e \in Ways
    BY DEF Taken
  <1>2. PICK c \in Routes : c = Chosen(e)
    BY <1>1, ChosenLeads
  <1>3. Front(c) = e /\ Leads(c) /\ Len(c) = Len(e) + 1
    BY <1>1, <1>2, ChosenLeads
  <1>4. PICK n \in Nat : n = Len(e)
    BY <1>1, Leading
  <1>5. c \in Ways
    BY DEF Ways
  <1>6. SubSeq(c, 1, n + 1) = c
    BY <1>3, <1>4, <1>5, Leading
  <1>7. ASSUME NEW i \in 1 .. n
        PROVE  Leads(SubSeq(c, 1, i))
    <2>1. i \in 0 .. Len(c) - 1
      BY <1>3, <1>4
    <2>2. SubSeq(c, 1, i) = SubSeq(e, 1, i)
      BY <1>3, <2>1, Parents
    <2> QED
      BY <1>4, <2>2 DEF Taken
  <1>8. \A i \in 1 .. n + 1 : i \in 1 .. n \/ i = n + 1
    OBVIOUS
  <1>9. \A i \in 1 .. n + 1 : Leads(SubSeq(c, 1, i))
    BY <1>3, <1>6, <1>7, <1>8
  <1> QED
    BY <1>2, <1>3, <1>4, <1>5, <1>9 DEF Taken

LEMMA TakenBefore ==
  ASSUME NEW e, Taken(e), NEW n \in 0 .. Len(e) - 1
  PROVE  /\ SubSeq(e, 1, n) \in Ways
         /\ Full(SubSeq(e, 1, n)) # {}
         /\ Chosen(SubSeq(e, 1, n)) = SubSeq(e, 1, n + 1)
         /\ SubSeq(e, 1, n + 1) \in Routes /\ Taken(SubSeq(e, 1, n + 1))
  <1>1. e \in Ways
    BY DEF Taken
  <1>2. PICK c \in Nat : c = Len(e)
    BY <1>1, Leading
  <1>3. n \in 0 .. c /\ n + 1 \in 0 .. c /\ n + 1 \in 1 .. c /\ n + 1 # 0 /\ (n + 1) - 1 = n
    BY <1>2
  <1> DEFINE P(s, m) == SubSeq(s, 1, m)
  <1> HIDE DEF P
  <1>4. P(e, n) \in Ways /\ P(e, n + 1) \in Routes /\ Len(P(e, n + 1)) = n + 1
    BY <1>1, <1>2, <1>3, Leading DEF P
  <1>5. e \in Routes
    BY <1>1, <1>2, <1>3, Leading
  <1>6. \A m \in 1 .. c : Front(P(e, m)) = P(e, m - 1)
    BY <1>2, <1>5, Parents DEF P
  <1>7. Front(P(e, n + 1)) = P(e, n)
    BY <1>3, <1>6
  <1>8. \A m \in 1 .. c : Leads(P(e, m))
    BY <1>2 DEF Taken, P
  <1>9. Full(P(e, n)) # {} /\ Chosen(P(e, n)) = P(e, n + 1)
    BY <1>3, <1>4, <1>7, <1>8, LeadingIsChosen
  <1>10. Taken(P(e, n + 1))
    <2>1. P(e, n + 1) \in Ways
      BY <1>4 DEF Ways
    <2>2. ASSUME NEW m \in 1 .. n + 1
          PROVE  Leads(P(P(e, n + 1), m))
      <3>1. m \in 0 .. n + 1 /\ m \in 1 .. c /\ m \in 0 .. c /\ 1 .. m \subseteq 1 .. n + 1
        BY <1>3
      <3>2. /\ P(P(e, n + 1), m) \in Ways /\ Len(P(P(e, n + 1), m)) = m
            /\ \A i \in 1 .. m : P(P(e, n + 1), m)[i] = P(e, n + 1)[i]
        BY <1>4, <2>1, <3>1, Leading DEF P
      <3>3. /\ P(e, m) \in Ways /\ Len(P(e, m)) = m
            /\ \A i \in 1 .. m : P(e, m)[i] = e[i]
            /\ \A i \in 1 .. n + 1 : P(e, n + 1)[i] = e[i]
        BY <1>1, <1>2, <1>3, <3>1, Leading DEF P
      <3>4. P(P(e, n + 1), m) \in Seq(Nat) /\ P(e, m) \in Seq(Nat)
        BY <3>2, <3>3, Leading
      <3>5. \A i \in 1 .. m : P(P(e, n + 1), m)[i] = P(e, m)[i]
        BY <3>1, <3>2, <3>3
      <3>6. P(P(e, n + 1), m) = P(e, m)
        BY <3>2, <3>3, <3>4, <3>5, SeqEqual
      <3> QED
        BY <1>8, <3>1, <3>6
    <2> QED
      BY <1>4, <2>1, <2>2 DEF Taken, P
  <1> QED
    BY <1>4, <1>9, <1>10 DEF P
-----------------------------------------------------------------------------
\* What the walk returns.

Walk(f, p, conf) ==
  IF Full(p) = {} THEN <<>>
  ELSE IF HandlerNames(Chosen(p), conf) # <<>> THEN HandlerNames(Chosen(p), conf)
  ELSE f[Chosen(p)]

LEMMA WalkExists ==
  ASSUME NEW conf
  PROVE  \E f : f = [p \in Ways |-> Walk(f, p, conf)]
  <1>1. PICK bound \in Nat : \A r \in Routes : Len(r) <= bound
    BY RoutesAreBounded
  <1>2. \A p \in Ways : Len(p) \in 0 .. bound
    <2>1. \A p \in Ways : p \in Routes \/ Len(p) = 0
      BY Leading
    <2> QED
      BY <1>1, <2>1, Leading
  <1> DEFINE Deep(g, n) == \A p \in Ways : Len(p) >= n => g[p] = Walk(g, p, conf)
             T == {n \in 0 .. bound + 1 : \E g : Deep(g, bound + 1 - n)}
  <1>3. 0 \in T
    <2>1. \A p \in Ways : ~(Len(p) >= bound + 1 - 0)
      BY <1>2
    <2> QED
      BY <2>1
  <1>4. ASSUME NEW n \in 0 .. (bound + 1) - 1, n \in T
        PROVE  n + 1 \in T
    <2>1. PICK m \in Nat : m = bound + 1 - n
      OBVIOUS
    <2>2. bound + 1 - (n + 1) = m - 1 /\ m \in Nat \ {0} /\ n + 1 \in 0 .. bound + 1
      BY <2>1
    <2>3. PICK g : Deep(g, m)
      BY <1>4, <2>1
    <2> DEFINE h == [p \in Ways |-> IF Len(p) >= m THEN g[p] ELSE Walk(g, p, conf)]
    <2>4. ASSUME NEW p \in Ways
          PROVE  h[p] = Walk(g, p, conf)
      BY <2>3
    <2>5. ASSUME NEW p \in Ways, Len(p) >= m - 1
          PROVE  h[p] = Walk(h, p, conf)
      <3>1. CASE Full(p) = {}
        <4>1. Walk(g, p, conf) = <<>> /\ Walk(h, p, conf) = <<>>
          BY <3>1 DEF Walk
        <4> HIDE DEF h
        <4> QED
          BY <2>4, <4>1
      <3>2. CASE Full(p) # {}
        <4>1. PICK c \in Routes : c = Chosen(p) /\ Len(c) = Len(p) + 1
          BY <3>2, ChosenLeads
        <4>2. c \in Ways /\ Len(c) >= m
          BY <1>2, <2>1, <2>5, <4>1 DEF Ways
        <4>3. h[c] = g[c]
          BY <4>2
        <4> HIDE DEF h
        <4>4. Walk(g, p, conf) = Walk(h, p, conf)
          BY <4>1, <4>3 DEF Walk
        <4> QED
          BY <2>4, <4>4
      <3> QED
        BY <3>1, <3>2
    <2> HIDE DEF h
    <2>6. Deep(h, m - 1)
      BY <2>5
    <2> QED
      BY <2>2, <2>6
  <1>5. bound + 1 \in T
    <2> HIDE DEF T
    <2>1. bound + 1 \in Nat
      OBVIOUS
    <2> QED
      BY <1>3, <1>4, <2>1, CountingUp
  <1>6. PICK g : Deep(g, bound + 1 - (bound + 1))
    BY <1>5
  <1>7. \A p \in Ways : g[p] = Walk(g, p, conf)
    BY <1>2, <1>6
  <1> DEFINE f == [p \in Ways |-> g[p]]
  <1>8. ASSUME NEW p \in Ways
        PROVE  g[p] = Walk(f, p, conf)
    <2>1. CASE Full(p) = {}
      BY <1>7, <2>1 DEF Walk
    <2>2. CASE Full(p) # {}
      <3>1. Chosen(p) \in Ways
        BY <2>2, ChosenLeads DEF Ways
      <3>2. f[Chosen(p)] = g[Chosen(p)]
        BY <3>1
      <3> HIDE DEF f
      <3> QED
        BY <1>7, <3>2 DEF Walk
    <2> QED
      BY <2>1, <2>2
  <1>9. f = [p \in Ways |-> Walk(f, p, conf)]
    <2>1. f = [p \in Ways |-> g[p]]
      OBVIOUS
    <2> HIDE DEF f
    <2> QED
      BY <1>8, <2>1
  <1> QED
    BY <1>9

LEMMA FindingIsWalking ==
  ASSUME NEW conf
  PROVE  \E f : /\ \A p \in Ways : f[p] = Walk(f, p, conf)
                /\ FindConfiguredHandlerNames(conf) = f[<<>>]
  <1> DEFINE f == CHOOSE f : f = [p \in Ways |-> Walk(f, p, conf)]
  <1>1. FindConfiguredHandlerNames(conf) = f[<<>>]
    BY DEF FindConfiguredHandlerNames, Walk, Full, Chosen, Ways
  <1>2. f = [p \in Ways |-> Walk(f, p, conf)]
    BY WalkExists
  <1> HIDE DEF f
  <1> QED
    BY <1>1, <1>2

Bears(r, conf) == \E field \in DOMAIN Identifiers[r] : Identifiers[r][field] \in conf

Tries(r) == <<Identifiers[r].function, Identifiers[r].name, Identifiers[r].path, Identifiers[r].base>>

LEMMA TriesEachField ==
  ASSUME NEW r \in Routes, NEW conf
  PROVE  Bears(r, conf) <=> \E n \in 1 .. 4 : Tries(r)[n] \in conf
  <1>1. DOMAIN Identifiers[r] = {"function", "name", "path", "base"}
    BY LookupAssumption
  <1>2. /\ Tries(r)[1] = Identifiers[r].function /\ Tries(r)[2] = Identifiers[r].name
        /\ Tries(r)[3] = Identifiers[r].path /\ Tries(r)[4] = Identifiers[r].base
    BY DEF Tries
  <1>3. Bears(r, conf) <=> \/ Identifiers[r]["function"] \in conf \/ Identifiers[r]["name"] \in conf
                           \/ Identifiers[r]["path"] \in conf \/ Identifiers[r]["base"] \in conf
    BY <1>1 DEF Bears
  <1>4. \A n : n \in 1 .. 4 <=> n = 1 \/ n = 2 \/ n = 3 \/ n = 4
    OBVIOUS
  <1> QED
    BY <1>2, <1>3, <1>4

LEMMA HandlerNamesAreListed ==
  ASSUME NEW r \in Routes, NEW conf
  PROVE  \E k : Lists(HandlerNames(r, conf), k, Tries(r), conf, 1, 4)
  <1> DEFINE i == Identifiers[r]
             t == Tries(r)
             Next(s, name) == AppendConfiguredName(s, name, conf)
             s1 == Next(<<>>, t[1])
             s2 == Next(s1, t[2])
             s3 == Next(s2, t[3])
             s4 == Next(s3, t[4])
  <1>1. t[1] = i.function /\ t[2] = i.name /\ t[3] = i.path /\ t[4] = i.base
    BY DEF Tries
  <1>2. HandlerNames(r, conf) = s4
    BY <1>1 DEF HandlerNames
  <1> HIDE DEF t
  <1>3. \A n \in Nat : \A s, k : Lists(s, k, t, conf, 1, n) =>
          \E l : Lists(Next(s, t[n + 1]), l, t, conf, 1, n + 1)
    BY ListsOneMore
  <1>4. \E k : Lists(<<>>, k, t, conf, 1, 0)
    BY ListsNothing
  <1> HIDE DEF Next
  <1>5. \E k : Lists(s1, k, t, conf, 1, 1)
    <2>1. 0 \in Nat /\ 0 + 1 = 1
      OBVIOUS
    <2> QED
      BY <1>3, <1>4, <2>1
  <1> HIDE DEF s1
  <1>6. \E k : Lists(s2, k, t, conf, 1, 2)
    <2>1. 1 \in Nat /\ 1 + 1 = 2
      OBVIOUS
    <2> QED
      BY <1>3, <1>5, <2>1
  <1> HIDE DEF s2
  <1>7. \E k : Lists(s3, k, t, conf, 1, 3)
    <2>1. 2 \in Nat /\ 2 + 1 = 3
      OBVIOUS
    <2> QED
      BY <1>3, <1>6, <2>1
  <1> HIDE DEF s3
  <1>8. \E k : Lists(s4, k, t, conf, 1, 4)
    <2>1. 3 \in Nat /\ 3 + 1 = 4
      OBVIOUS
    <2> QED
      BY <1>3, <1>7, <2>1
  <1> QED
    BY <1>2, <1>8 DEF t

\* An endpoint has names to try when it bears a configured one.
LEMMA HandlerNamesOfBearers ==
  ASSUME NEW r \in Routes, NEW conf
  PROVE  HandlerNames(r, conf) # <<>> <=> Bears(r, conf)
  <1> DEFINE s == HandlerNames(r, conf)
             t == Tries(r)
  <1>1. PICK k : Lists(s, k, t, conf, 1, 4)
    BY HandlerNamesAreListed
  <1> HIDE DEF s, t
  <1>2. /\ s \in Seq(conf) /\ k \in [1 .. Len(s) -> 1 .. 4]
        /\ \A i \in 1 .. Len(s) : s[i] = t[k[i]]
        /\ \A j \in 1 .. 4 : t[j] \in conf => \/ \E h \in 1 .. 0 : t[h] = t[j]
                                              \/ \E i \in 1 .. Len(s) : s[i] = t[j]
    BY <1>1 DEF Lists
  <1>3. PICK c \in Nat : c = Len(s) /\ (c = 0 <=> s = <<>>)
    BY <1>2, LenProperties, EmptySeq
  <1>4. CASE c = 0
    <2>1. \A i \in 1 .. c : FALSE
      BY <1>4
    <2>2. \A j \in 1 .. 4 : t[j] \notin conf
      BY <1>2, <1>3, <2>1
    <2> QED
      BY <1>3, <1>4, <2>2, TriesEachField DEF s, t
  <1>5. CASE c # 0
    <2>1. 1 \in 1 .. c
      BY <1>5
    <2>2. k[1] \in 1 .. 4 /\ t[k[1]] \in conf
      BY <1>2, <1>3, <2>1, ElementOfSeq
    <2> QED
      BY <1>3, <1>5, <2>2, TriesEachField DEF s, t
  <1> QED
    BY <1>4, <1>5

Barren(e, n, conf) == \A m \in 1 .. n : ~Bears(SubSeq(e, 1, m), conf)

Walks(f, conf) == \A p \in Ways : f[p] = Walk(f, p, conf)

\* The walk goes on below whatever the router takes that bears no configured name.
LEMMA WalkGoesOn ==
  ASSUME NEW conf, NEW f, Walks(f, conf),
         NEW e, Taken(e), NEW n \in 0 .. Len(e), Barren(e, n, conf)
  PROVE  f[<<>>] = f[SubSeq(e, 1, n)]
  <1> DEFINE P(m) == SubSeq(e, 1, m)
             T == {m \in 0 .. n : f[<<>>] = f[P(m)]}
  <1>1. e \in Ways
    BY DEF Taken
  <1>2. PICK c \in Nat : c = Len(e)
    BY <1>1, Leading
  <1>3. P(0) = <<>>
    BY SubSeqEmpty
  <1>4. \A m \in 0 .. c - 1 : /\ P(m) \in Ways /\ Full(P(m)) # {}
                              /\ Chosen(P(m)) = P(m + 1) /\ P(m + 1) \in Routes
    BY <1>2, TakenBefore
  <1> HIDE DEF P
  <1>5. 0 \in T
    BY <1>2, <1>3
  <1>6. ASSUME NEW m \in 0 .. n - 1, m \in T
        PROVE  m + 1 \in T
    <2>1. m \in 0 .. c - 1 /\ m + 1 \in 1 .. n /\ m + 1 \in 0 .. n
      BY <1>2
    <2>2. ~Bears(P(m + 1), conf)
      BY <2>1 DEF P, Barren
    <2>3. HandlerNames(P(m + 1), conf) = <<>>
      BY <1>4, <2>1, <2>2, HandlerNamesOfBearers
    <2>4. f[P(m)] = f[P(m + 1)]
      BY <1>4, <2>1, <2>3 DEF Walk, Walks
    <2> QED
      BY <1>6, <2>1, <2>4
  <1>7. n \in T
    <2>1. n \in Nat
      BY <1>2
    <2> HIDE DEF T
    <2> QED
      BY <1>5, <1>6, <2>1, CountingUp
  <1> QED
    BY <1>7 DEF P

Bearers(conf) == {r \in Routes : Executed(r) /\ Bears(r, conf)}

Bearer(conf) == CHOOSE r \in Bearers(conf) : \A s \in Bearers(conf) : Len(r) <= Len(s)

LEMMA BearerIsShortest ==
  ASSUME NEW conf, Bearers(conf) # {}
  PROVE  Bearer(conf) \in Bearers(conf) /\ \A s \in Bearers(conf) : Len(Bearer(conf)) <= Len(s)
  <1> DEFINE T == {Len(r) : r \in Bearers(conf)}
  <1>1. T \in SUBSET Nat /\ T # {}
    BY Parents DEF Bearers
  <1>2. PICK n \in T : \A m \in T : n <= m
    <2> HIDE DEF T
    <2> QED
      BY <1>1, LeastNatural
  <1>3. \E r \in Bearers(conf) : \A s \in Bearers(conf) : Len(r) <= Len(s)
    BY <1>2
  <1> QED
    BY <1>3 DEF Bearer

\* It finds the names of the first route on the way that bears a configured name.
LEMMA FoundBearer ==
  ASSUME NEW conf, Bearers(conf) # {}
  PROVE  FindConfiguredHandlerNames(conf) = HandlerNames(Bearer(conf), conf)
  <1>1. PICK f : /\ \A p \in Ways : f[p] = Walk(f, p, conf)
                 /\ FindConfiguredHandlerNames(conf) = f[<<>>]
    BY FindingIsWalking
  <1>2. PICK e \in Routes : e = Bearer(conf) /\ Taken(e) /\ Bears(e, conf)
    BY BearerIsShortest, ExecutedIsTaken DEF Bearers
  <1>3. PICK c \in Nat \ {0} : c = Len(e)
    BY Parents
  <1>4. e \in Ways /\ SubSeq(e, 1, c) = e
    BY <1>2, <1>3, Leading DEF Taken
  <1>5. \A n \in 1 .. c - 1 : n \in 0 .. c /\ n # 0 /\ n - 1 \in 0 .. c - 1 /\ (n - 1) + 1 = n
    OBVIOUS
  <1>6. ASSUME NEW n \in 1 .. c - 1
        PROVE  ~Bears(SubSeq(e, 1, n), conf)
    <2>1. SubSeq(e, 1, n) \in Routes /\ Taken(SubSeq(e, 1, n)) /\ Len(SubSeq(e, 1, n)) = n
      BY <1>2, <1>3, <1>4, <1>5, TakenBefore, Leading
    <2>2. SubSeq(e, 1, n) \notin Bearers(conf)
      <3>1. ~(c <= n)
        OBVIOUS
      <3> QED
        BY <1>2, <1>3, <2>1, <3>1, BearerIsShortest
    <2> QED
      BY <2>1, <2>2, ExecutedIsTaken DEF Bearers
  <1>7. c - 1 \in 0 .. c /\ c - 1 \in 0 .. c - 1 /\ (c - 1) + 1 = c
    OBVIOUS
  <1>8. f[<<>>] = f[SubSeq(e, 1, c - 1)]
    <2>1. Barren(e, c - 1, conf)
      BY <1>6 DEF Barren
    <2>2. Walks(f, conf)
      BY <1>1 DEF Walks
    <2> QED
      BY <1>2, <1>3, <1>7, <2>1, <2>2, WalkGoesOn
  <1>9. /\ SubSeq(e, 1, c - 1) \in Ways /\ Full(SubSeq(e, 1, c - 1)) # {}
        /\ Chosen(SubSeq(e, 1, c - 1)) = e
    BY <1>2, <1>3, <1>4, <1>7, TakenBefore
  <1>10. HandlerNames(e, conf) # <<>>
    BY <1>2, HandlerNamesOfBearers
  <1>11. f[SubSeq(e, 1, c - 1)] = HandlerNames(e, conf)
    BY <1>1, <1>9, <1>10 DEF Walk
  <1> QED
    BY <1>1, <1>2, <1>8, <1>11

LEMMA FoundNothing ==
  ASSUME NEW conf, Bearers(conf) = {}
  PROVE  FindConfiguredHandlerNames(conf) = <<>>
  <1>1. PICK f : /\ \A p \in Ways : f[p] = Walk(f, p, conf)
                 /\ FindConfiguredHandlerNames(conf) = f[<<>>]
    BY FindingIsWalking
  <1> DEFINE Way == {e \in Ways : Taken(e)}
  <1>2. <<>> \in Way
    <2>1. <<>> \in Ways /\ Len(<<>>) = 0
      BY DEF Ways
    <2> QED
      BY <2>1 DEF Taken
  <1>3. PICK e \in Way : Full(e) = {}
    <2>1. SUFFICES ASSUME \A e \in Way : Full(e) # {}
                   PROVE  FALSE
      OBVIOUS
    <2>2. PICK bound \in Nat : \A r \in Routes : Len(r) <= bound
      BY RoutesAreBounded
    <2> DEFINE T == {n \in 0 .. bound + 1 : \E e \in Way : Len(e) = n}
    <2>3. 0 \in T
      BY <1>2
    <2>4. ASSUME NEW n \in 0 .. (bound + 1) - 1, n \in T
          PROVE  n + 1 \in T
      <3>1. PICK e \in Way : Len(e) = n
        BY <2>4
      <3>2. Taken(Chosen(e)) /\ Len(Chosen(e)) = n + 1 /\ Chosen(e) \in Ways
        BY <2>1, <3>1, TakenOn, ChosenLeads DEF Ways
      <3>3. n + 1 \in 0 .. bound + 1
        OBVIOUS
      <3> QED
        BY <3>2, <3>3
    <2>5. bound + 1 \in T
      <3>1. bound + 1 \in Nat
        OBVIOUS
      <3> HIDE DEF T
      <3> QED
        BY <2>3, <2>4, <3>1, CountingUp
    <2>6. PICK e \in Way : Len(e) = bound + 1
      BY <2>5
    <2>7. bound + 1 # 0 /\ ~(bound + 1 <= bound)
      OBVIOUS
    <2>8. e \in Routes
      BY <2>6, <2>7, Leading
    <2> QED
      BY <2>2, <2>6, <2>7, <2>8
  <1>4. PICK c \in Nat : c = Len(e)
    BY Leading
  <1>5. SubSeq(e, 1, c) = e
    BY <1>4, Leading
  <1>6. ASSUME NEW n \in 1 .. c
        PROVE  ~Bears(SubSeq(e, 1, n), conf)
    <2>1. n - 1 \in 0 .. c - 1 /\ (n - 1) + 1 = n
      OBVIOUS
    <2>2. SubSeq(e, 1, n) \in Routes /\ Taken(SubSeq(e, 1, n))
      BY <1>4, <2>1, TakenBefore
    <2> QED
      BY <2>2, ExecutedIsTaken DEF Bearers
  <1>7. c \in 0 .. c
    OBVIOUS
  <1>8. f[<<>>] = f[e]
    <2>1. Barren(e, c, conf)
      BY <1>6 DEF Barren
    <2>2. Walks(f, conf)
      BY <1>1 DEF Walks
    <2> QED
      BY <1>4, <1>5, <1>7, <2>1, <2>2, WalkGoesOn
  <1>9. f[e] = <<>>
    BY <1>1, <1>3 DEF Walk
  <1> QED
    BY <1>1, <1>8, <1>9
-----------------------------------------------------------------------------
\* The inductive invariant of the lookup.

\* The places that the documentation ranks for the executed endpoint.
Ranked(conf) == IF Bearers(conf) = {} THEN <<>> ELSE Tries(Bearer(conf))

Limited == {n \in Names : limits[n] # None}

Changed(setting) == {n \in Names : <<setting, n>> \in touched}

\* Asking goes down the ranked names: what was passed over, or ranks before what
\* was chosen, has nothing set unless another thread changed it.
AskedFor(todo, chosen, ranked, conf, having, changed) ==
  \/ ranked = <<>> /\ todo = <<>> /\ chosen = Nothing
  \/ /\ DOMAIN ranked = 1 .. 4 /\ chosen = Nothing
     /\ \E m \in 1 .. 5 : /\ \E k : Lists(todo, k, ranked, conf, m, 4)
                          /\ \A j \in 1 .. m - 1 : ranked[j] \notin having \ changed
  \/ /\ DOMAIN ranked = 1 .. 4 /\ todo = <<>> /\ chosen \in Names
     /\ \E n \in 1 .. 4 : /\ chosen = ranked[n]
                          /\ \A j \in 1 .. n - 1 : ranked[j] \notin having \ changed

LookupInv ==
  /\ configured \subseteq Names /\ ruled \subseteq Names
  /\ stage # "asking" => rules_todo = <<>>
  /\ stage = "search" => touched = {} /\ limit_name = Nothing /\ policy_name = Nothing
  /\ stage = "asking" =>
       /\ Limited \ Changed("limit") \subseteq configured
       /\ ruled \ Changed("rules") \subseteq configured
       /\ AskedFor(limit_todo, limit_name, Ranked(configured), configured, Limited,
                   Changed("limit"))
       /\ AskedFor(rules_todo, policy_name, Ranked(configured), configured, ruled,
                   Changed("rules"))
-----------------------------------------------------------------------------
\* What asking and another thread's changes do to it.

LEMMA AskingBegins ==
  ASSUME NEW conf, NEW having, NEW changed
  PROVE  AskedFor(FindConfiguredHandlerNames(conf), Nothing, Ranked(conf), conf, having, changed)
  <1>1. CASE Bearers(conf) = {}
    BY <1>1, FoundNothing DEF AskedFor, Ranked
  <1>2. CASE Bearers(conf) # {}
    <2>1. PICK r \in Routes : r = Bearer(conf)
      BY <1>2, BearerIsShortest DEF Bearers
    <2>2. PICK s : s = HandlerNames(r, conf) /\ \E k : Lists(s, k, Tries(r), conf, 1, 4)
      BY HandlerNamesAreListed
    <2>3. DOMAIN Tries(r) = 1 .. 4
      BY DEF Tries
    <2>4. 1 \in 1 .. 5 /\ \A j \in 1 .. 1 - 1 : FALSE
      OBVIOUS
    <2>5. AskedFor(s, Nothing, Tries(r), conf, having, changed)
      BY <2>2, <2>3, <2>4 DEF AskedFor
    <2> QED
      BY <1>2, <2>1, <2>2, <2>5, FoundBearer DEF Ranked
  <1> QED
    BY <1>1, <1>2

\* A name that has nothing set gives way to the next, one that has decides.
LEMMA AskingGoesOn ==
  ASSUME NEW todo, NEW chosen, NEW ranked, NEW conf \in SUBSET Names, NEW having, NEW changed,
         AskedFor(todo, chosen, ranked, conf, having, changed), todo # <<>>,
         having \ changed \subseteq conf
  PROVE  /\ Head(todo) \in Names
         /\ Head(todo) \notin having =>
              AskedFor(Tail(todo), Nothing, ranked, conf, having, changed)
         /\ Head(todo) \in having => AskedFor(<<>>, Head(todo), ranked, conf, having, changed)
  <1>1. DOMAIN ranked = 1 .. 4 /\ chosen = Nothing
    BY DEF AskedFor
  <1>2. PICK m \in 1 .. 5 : /\ \E k : Lists(todo, k, ranked, conf, m, 4)
                            /\ \A j \in 1 .. m - 1 : ranked[j] \notin having \ changed
    BY DEF AskedFor
  <1>3. m \in Nat \ {0} /\ 4 \in Nat
    OBVIOUS
  <1>4. PICK p \in m .. 4 :
          /\ Head(todo) = ranked[p] /\ Head(todo) \in conf
          /\ \A j \in m .. p - 1 : ranked[j] \in conf => \E h \in 1 .. m - 1 : ranked[h] = ranked[j]
          /\ \E l : Lists(Tail(todo), l, ranked, conf, p + 1, 4)
    <2>1. PICK k : Lists(todo, k, ranked, conf, m, 4)
      BY <1>2
    <2> HIDE DEF Lists
    <2> QED
      BY <1>3, <2>1, ListsTheRest
  <1>5. \A j \in 1 .. p - 1 : j \in 1 .. m - 1 \/ j \in m .. p - 1
    OBVIOUS
  <1>6. \A j \in 1 .. p - 1 : ranked[j] \notin having \ changed
    BY <1>2, <1>4, <1>5
  <1>7. p \in 1 .. 4 /\ p + 1 \in 1 .. 5 /\ \A j \in 1 .. (p + 1) - 1 : j \in 1 .. p - 1 \/ j = p
    OBVIOUS
  <1>8. ASSUME Head(todo) \notin having
        PROVE  AskedFor(Tail(todo), Nothing, ranked, conf, having, changed)
    <2>1. \A j \in 1 .. (p + 1) - 1 : ranked[j] \notin having \ changed
      BY <1>4, <1>6, <1>7, <1>8
    <2> QED
      BY <1>1, <1>4, <1>7, <2>1 DEF AskedFor
  <1>9. AskedFor(<<>>, Head(todo), ranked, conf, having, changed)
    BY <1>1, <1>4, <1>6, <1>7 DEF AskedFor
  <1> QED
    BY <1>4, <1>8, <1>9

\* Names that have something set and were not changed only become fewer.
LEMMA AskingIsKept ==
  ASSUME NEW todo, NEW chosen, NEW ranked, NEW conf, NEW having, NEW changed,
         NEW having2, NEW changed2,
         AskedFor(todo, chosen, ranked, conf, having, changed),
         having2 \ changed2 \subseteq having \ changed
  PROVE  AskedFor(todo, chosen, ranked, conf, having2, changed2)
  <1>1. CASE ranked = <<>> /\ todo = <<>> /\ chosen = Nothing
    BY <1>1 DEF AskedFor
  <1>2. ASSUME DOMAIN ranked = 1 .. 4, chosen = Nothing,
               NEW m \in 1 .. 5, \E k : Lists(todo, k, ranked, conf, m, 4),
               \A j \in 1 .. m - 1 : ranked[j] \notin having \ changed
        PROVE  AskedFor(todo, chosen, ranked, conf, having2, changed2)
    <2>1. \A j \in 1 .. m - 1 : ranked[j] \notin having2 \ changed2
      BY <1>2
    <2> QED
      BY <1>2, <2>1 DEF AskedFor
  <1>3. ASSUME DOMAIN ranked = 1 .. 4, todo = <<>>, chosen \in Names,
               NEW n \in 1 .. 4, chosen = ranked[n],
               \A j \in 1 .. n - 1 : ranked[j] \notin having \ changed
        PROVE  AskedFor(todo, chosen, ranked, conf, having2, changed2)
    <2>1. \A j \in 1 .. n - 1 : ranked[j] \notin having2 \ changed2
      BY <1>3
    <2> QED
      BY <1>3, <2>1 DEF AskedFor
  <1> QED
    BY <1>1, <1>2, <1>3 DEF AskedFor

\* When there is nobody left to ask, the first settled name was chosen.
LEMMA AskedSettles ==
  ASSUME NEW chosen, NEW ranked, NEW conf, NEW having, NEW changed,
         AskedFor(<<>>, chosen, ranked, conf, having, changed), having \ changed \subseteq conf
  PROVE  LET settled == {n \in DOMAIN ranked : ranked[n] \in having \ changed}
         IN  IF chosen = Nothing THEN settled = {}
             ELSE \E n \in DOMAIN ranked : ranked[n] = chosen /\ \A m \in settled : n <= m
  <1> DEFINE settled == {n \in DOMAIN ranked : ranked[n] \in having \ changed}
  <1>1. CASE ranked = <<>> /\ chosen = Nothing
    BY <1>1
  <1>2. ASSUME DOMAIN ranked = 1 .. 4, chosen = Nothing,
               NEW m \in 1 .. 5, NEW k, Lists(<<>>, k, ranked, conf, m, 4),
               \A j \in 1 .. m - 1 : ranked[j] \notin having \ changed
        PROVE  settled = {}
    <2>1. ASSUME NEW j \in 1 .. 4, ranked[j] \in having \ changed
          PROVE  FALSE
      <3>1. j \in m .. 4
        BY <1>2, <2>1
      <3>2. \A i \in 1 .. Len(<<>>) : FALSE
        OBVIOUS
      <3>3. \E h \in 1 .. m - 1 : ranked[h] = ranked[j]
        BY <1>2, <2>1, <3>1, <3>2 DEF Lists
      <3> QED
        BY <1>2, <2>1, <3>3
    <2> QED
      BY <1>2, <2>1
  <1>3. ASSUME DOMAIN ranked = 1 .. 4, chosen \in Names, NEW n \in 1 .. 4, chosen = ranked[n],
               \A j \in 1 .. n - 1 : ranked[j] \notin having \ changed
        PROVE  chosen # Nothing /\ \A m \in settled : n <= m
    <2>1. \A m \in 1 .. 4 : m \notin 1 .. n - 1 => n <= m
      OBVIOUS
    <2> QED
      BY <1>3, <2>1, LookupAssumption
  <1> HIDE DEF settled
  <1>4. \/ ranked = <<>> /\ chosen = Nothing
        \/ /\ DOMAIN ranked = 1 .. 4 /\ chosen = Nothing
           /\ \E m \in 1 .. 5 : /\ \E k : Lists(<<>>, k, ranked, conf, m, 4)
                                /\ \A j \in 1 .. m - 1 : ranked[j] \notin having \ changed
        \/ /\ DOMAIN ranked = 1 .. 4 /\ chosen \in Names
           /\ \E n \in 1 .. 4 : /\ chosen = ranked[n]
                                /\ \A j \in 1 .. n - 1 : ranked[j] \notin having \ changed
    BY DEF AskedFor
  <1>5. IF chosen = Nothing THEN settled = {}
        ELSE \E n \in DOMAIN ranked : ranked[n] = chosen /\ \A m \in settled : n <= m
    <2>1. CASE ranked = <<>> /\ chosen = Nothing
      BY <1>1, <2>1 DEF settled
    <2> QED
      BY <1>2, <1>3, <1>4, <2>1
  <1> QED
    BY <1>5 DEF settled

\* The ranking depends on the search alone.
LEMMA RankedIsKept ==
  ASSUME match' = match, NEW conf
  PROVE  Ranked(conf)' = Ranked(conf')
  <1>1. \A r : Executed(r)' = Executed(r)
    BY DEF Executed
  <1>2. Bearers(conf)' = Bearers(conf)
    BY <1>1 DEF Bearers
  <1> QED
    BY <1>2 DEF Ranked, Bearer

LEMMA SearchLooks ==
  ASSUME LookupInv, Search
  PROVE  LookupInv'
  <1>1. /\ configured' = ConfiguredNames /\ stage' = "asking"
        /\ limit_todo' = FindConfiguredHandlerNames(configured') /\ rules_todo' = limit_todo'
        /\ UNCHANGED <<match, limits, ruled, limit_name, policy_name, touched>>
        /\ limit_name = Nothing /\ policy_name = Nothing
    BY DEF Search, LookupInv
  <1>2. PICK conf : conf = configured'
    OBVIOUS
  <1>3. Limited \cup ruled = conf /\ Limited' = Limited /\ ruled' = ruled
    BY <1>1, <1>2 DEF ConfiguredNames, Limited
  <1>4. conf \subseteq Names /\ ruled \subseteq Names
    BY <1>3 DEF LookupInv, Limited
  <1>5. Ranked(configured)' = Ranked(conf)
    BY <1>1, <1>2, RankedIsKept
  <1>6. \A having, changed :
          AskedFor(FindConfiguredHandlerNames(conf), Nothing, Ranked(conf), conf, having, changed)
    BY AskingBegins
  <1> HIDE DEF AskedFor, Limited, Changed
  <1>7. /\ AskedFor(limit_todo', limit_name', Ranked(configured)', configured', Limited',
                    Changed("limit")')
        /\ AskedFor(rules_todo', policy_name', Ranked(configured)', configured', ruled',
                    Changed("rules")')
    BY <1>1, <1>2, <1>5, <1>6
  <1>8. Limited' \ Changed("limit")' \subseteq configured' /\ ruled' \ Changed("rules")' \subseteq configured'
    BY <1>2, <1>3
  <1> QED
    BY <1>1, <1>2, <1>3, <1>4, <1>7, <1>8 DEF LookupInv

\* A step that leaves the lookup alone, or ends it.
LEMMA LookupIsKept ==
  ASSUME LookupInv, UNCHANGED lookup,
         stage' = stage \/ (stage' \notin {"search", "asking"} /\ rules_todo = <<>>)
  PROVE  LookupInv'
  <1>1. UNCHANGED <<match, limits, ruled, configured, limit_todo, rules_todo, limit_name,
                    policy_name, touched>>
    BY DEF lookup
  <1>2. Ranked(configured)' = Ranked(configured)
    BY <1>1, RankedIsKept
  <1>3. Limited' = Limited /\ \A setting : Changed(setting)' = Changed(setting)
    BY <1>1 DEF Limited, Changed
  <1> QED
    BY <1>1, <1>2, <1>3 DEF LookupInv

LEMMA GetLimitLooks ==
  ASSUME LookupInv, GetLimit, stage = "asking"
  PROVE  LookupInv'
  <1>1. PICK n : n = Head(limit_todo)
    OBVIOUS
  <1>2. /\ limit_todo # <<>>
        /\ limit_name' = IF limits[n] = None THEN Nothing ELSE n
        /\ limit_todo' = IF limits[n] = None THEN Tail(limit_todo) ELSE <<>>
        /\ UNCHANGED <<stage, match, limits, ruled, configured, rules_todo, policy_name, touched>>
    BY <1>1 DEF GetLimit
  <1>3. Ranked(configured)' = Ranked(configured)
    BY <1>2, RankedIsKept
  <1>4. Limited' = Limited /\ \A setting : Changed(setting)' = Changed(setting)
    BY <1>2 DEF Limited, Changed
  <1>5. /\ configured \in SUBSET Names /\ Limited \ Changed("limit") \subseteq configured
        /\ AskedFor(limit_todo, limit_name, Ranked(configured), configured, Limited,
                    Changed("limit"))
    BY DEF LookupInv
  <1>6. /\ n \in Names
        /\ n \notin Limited => AskedFor(Tail(limit_todo), Nothing, Ranked(configured), configured,
                                        Limited, Changed("limit"))
        /\ n \in Limited => AskedFor(<<>>, n, Ranked(configured), configured, Limited,
                                     Changed("limit"))
    BY <1>1, <1>2, <1>5, AskingGoesOn
  <1>7. AskedFor(limit_todo', limit_name', Ranked(configured), configured, Limited,
                 Changed("limit"))
    <2>1. limits[n] = None <=> n \notin Limited
      BY <1>6 DEF Limited
    <2> QED
      BY <1>2, <1>6, <2>1
  <1> QED
    BY <1>2, <1>3, <1>4, <1>7 DEF LookupInv

LEMMA GetRulesLooks ==
  ASSUME LookupInv, GetRules
  PROVE  LookupInv'
  <1>1. PICK n : n = Head(rules_todo)
    OBVIOUS
  <1>2. /\ rules_todo # <<>>
        /\ policy_name' = IF n \in ruled THEN n ELSE Nothing
        /\ rules_todo' = IF n \in ruled THEN <<>> ELSE Tail(rules_todo)
        /\ UNCHANGED <<stage, match, limits, ruled, configured, limit_todo, limit_name, touched>>
    BY <1>1 DEF GetRules
  <1>3. Ranked(configured)' = Ranked(configured)
    BY <1>2, RankedIsKept
  <1>4. Limited' = Limited /\ \A setting : Changed(setting)' = Changed(setting)
    BY <1>2 DEF Limited, Changed
  <1>5. /\ configured \in SUBSET Names /\ ruled \ Changed("rules") \subseteq configured
        /\ AskedFor(rules_todo, policy_name, Ranked(configured), configured, ruled,
                    Changed("rules"))
        /\ stage = "asking"
    BY <1>2 DEF LookupInv
  <1>6. /\ n \notin ruled => AskedFor(Tail(rules_todo), Nothing, Ranked(configured), configured,
                                      ruled, Changed("rules"))
        /\ n \in ruled => AskedFor(<<>>, n, Ranked(configured), configured, ruled,
                                   Changed("rules"))
    BY <1>1, <1>2, <1>5, AskingGoesOn
  <1>7. AskedFor(rules_todo', policy_name', Ranked(configured), configured, ruled,
                 Changed("rules"))
    BY <1>2, <1>6
  <1> QED
    BY <1>2, <1>3, <1>4, <1>5, <1>7 DEF LookupInv

\* Another thread takes from what has kept its setting, and adds nothing to it.
LEMMA ChangesLook ==
  ASSUME LookupInv, NEW n \in Names, NEW setting \in {"limit", "rules"}, Touch(setting, n),
         ruled' \subseteq Names,
         Limited' \ Changed("limit")' \subseteq Limited \ Changed("limit"),
         ruled' \ Changed("rules")' \subseteq ruled \ Changed("rules")
  PROVE  LookupInv'
  <1>1. stage = "asking" /\ UNCHANGED <<stage, match, configured, limit_todo, rules_todo,
                                        limit_name, policy_name>>
    BY DEF Touch
  <1>2. Ranked(configured)' = Ranked(configured)
    BY <1>1, RankedIsKept
  <1>3. /\ Limited \ Changed("limit") \subseteq configured
        /\ ruled \ Changed("rules") \subseteq configured
        /\ AskedFor(limit_todo, limit_name, Ranked(configured), configured, Limited,
                    Changed("limit"))
        /\ AskedFor(rules_todo, policy_name, Ranked(configured), configured, ruled,
                    Changed("rules"))
    BY <1>1 DEF LookupInv
  <1>4. /\ AskedFor(limit_todo, limit_name, Ranked(configured), configured, Limited',
                    Changed("limit")')
        /\ AskedFor(rules_todo, policy_name, Ranked(configured), configured, ruled',
                    Changed("rules")')
    BY <1>3, AskingIsKept
  <1>5. Limited' \ Changed("limit")' \subseteq configured /\ ruled' \ Changed("rules")' \subseteq configured
    BY <1>3
  <1> QED
    BY <1>1, <1>2, <1>4, <1>5 DEF LookupInv

LEMMA UpdatesLook ==
  ASSUME LookupInv, NEW n \in Names, EndpointInv,
         \/ \E rate \in Rates : UpdateRoute(n, rate)
         \/ RemoveRoute(n) \/ UpdatePolicy(n) \/ RemovePolicy(n)
  PROVE  LookupInv'
  <1>1. ruled \subseteq Names
    BY DEF LookupInv
  <1>2. ASSUME Touch("limit", n), \E rate : limits' = [limits EXCEPT ![n] = rate],
               UNCHANGED ruled
        PROVE  LookupInv'
    <2>1. touched' = touched \cup {<<"limit", n>>}
      BY <1>2 DEF Touch
    <2>2. Changed("limit") \cup {n} \subseteq Changed("limit")' /\ Changed("rules") \subseteq Changed("rules")'
      BY <2>1 DEF Changed
    <2>3. Limited' \subseteq Limited \cup {n}
      BY <1>2 DEF Limited
    <2>4. Limited' \ Changed("limit")' \subseteq Limited \ Changed("limit")
      BY <2>2, <2>3
    <2>5. ruled' \ Changed("rules")' \subseteq ruled \ Changed("rules") /\ ruled' \subseteq Names
      BY <1>1, <1>2, <2>2
    <2> QED
      BY <1>2, <2>4, <2>5, ChangesLook
  <1>3. ASSUME Touch("rules", n), ruled' = ruled \cup {n} \/ ruled' = ruled \ {n},
               UNCHANGED limits
        PROVE  LookupInv'
    <2>1. touched' = touched \cup {<<"rules", n>>}
      BY <1>3 DEF Touch
    <2>2. Changed("rules") \cup {n} \subseteq Changed("rules")' /\ Changed("limit") \subseteq Changed("limit")'
      BY <2>1 DEF Changed
    <2>3. Limited' = Limited
      BY <1>3 DEF Limited
    <2>4. Limited' \ Changed("limit")' \subseteq Limited \ Changed("limit")
      BY <2>2, <2>3
    <2>5. ruled' \ Changed("rules")' \subseteq ruled \ Changed("rules") /\ ruled' \subseteq Names
      BY <1>1, <1>3, <2>2
    <2> QED
      BY <1>3, <2>4, <2>5, ChangesLook
  <1>4. CASE \E rate \in Rates : UpdateRoute(n, rate)
    BY <1>2, <1>4 DEF UpdateRoute
  <1>5. CASE RemoveRoute(n)
    BY <1>2, <1>5 DEF RemoveRoute
  <1>6. CASE UpdatePolicy(n)
    BY <1>3, <1>6 DEF UpdatePolicy
  <1>7. CASE RemovePolicy(n)
    BY <1>3, <1>7 DEF RemovePolicy
  <1> QED
    BY <1>4, <1>5, <1>6, <1>7

LEMMA LookupInvariant == EndpointSpec => []LookupInv
  <1>1. EndpointInit => LookupInv
    BY DEF EndpointInit, LookupInv
  <1>2. EndpointInv /\ LookupInv /\ [EndpointNext]_evars => LookupInv'
    <2> SUFFICES ASSUME EndpointInv, LookupInv, [EndpointNext]_evars
                 PROVE  LookupInv'
      OBVIOUS
    <2>1. CASE Search
      BY <2>1, SearchLooks
    <2>2. CASE GetLimit
      <3>1. stage = "asking"
        BY <2>2 DEF GetLimit, EndpointInv, JudgedLast
      <3> QED
        BY <2>2, <3>1, GetLimitLooks
    <2>3. CASE GetRules
      BY <2>3, GetRulesLooks
    <2>4. CASE Proceed
      <3>1. /\ UNCHANGED lookup /\ rules_todo = <<>>
            /\ stage' \notin {"search", "asking"}
        BY <2>4 DEF Proceed, Asked
      <3> QED
        BY <3>1, LookupIsKept
    <2>5. CASE Resolve \/ Judge
      <3>1. /\ UNCHANGED lookup /\ rules_todo = <<>>
            /\ stage' \notin {"search", "asking"}
        BY <2>5 DEF Resolve, Judge, LookupInv
      <3> QED
        BY <3>1, LookupIsKept
    <2>6. CASE stage = "judged" /\ Evaluate /\ UNCHANGED <<stage, lookup, identity>>
      BY <2>6, LookupIsKept
    <2>7. CASE UNCHANGED evars
      BY <2>7, LookupIsKept DEF evars
    <2> QED
      BY <2>1, <2>2, <2>3, <2>4, <2>5, <2>6, <2>7, UpdatesLook DEF EndpointNext
  <1> QED
    BY <1>1, <1>2, EndpointInvariant, PTL DEF EndpointSpec, evars
-----------------------------------------------------------------------------
\* Whatever other threads change meanwhile, and however the routes are nested, a
\* settled name gives way only to one that ranks before it on the first route of
\* the executed way that bears a configured name (routing.py
\* _find_configured_handler_names, middleware.py _select_route_limit).
THEOREM SettledNameWins == EndpointSpec => []SettledNamesDecide
  <1>1. LookupInv => SettledNamesDecide
    <2> SUFFICES ASSUME LookupInv, Asked
                 PROVE  SettledNamesDecide
      BY DEF SettledNamesDecide
    <2> DEFINE ranked == Ranked(configured)
               Settled(having, changed) == {n \in DOMAIN ranked : ranked[n] \in having \ changed}
               Unchanged(setting, having) ==
                 {n \in DOMAIN ranked : ranked[n] \in having /\ <<setting, ranked[n]>> \notin touched}
               Right(chosen, settled) ==
                 IF chosen = Nothing THEN settled = {}
                 ELSE \E n \in DOMAIN ranked : ranked[n] = chosen /\ \A m \in settled : n <= m
    <2>1. /\ Limited \ Changed("limit") \subseteq configured
          /\ ruled \ Changed("rules") \subseteq configured
          /\ AskedFor(<<>>, limit_name, ranked, configured, Limited, Changed("limit"))
          /\ AskedFor(<<>>, policy_name, ranked, configured, ruled, Changed("rules"))
          /\ ruled \subseteq Names
      BY DEF LookupInv, Asked
    <2>2. /\ Right(limit_name, Settled(Limited, Changed("limit")))
          /\ Right(policy_name, Settled(ruled, Changed("rules")))
      <3> HIDE DEF ranked
      <3> QED
        BY <2>1, AskedSettles
    <2>3. /\ Settled(Limited, Changed("limit")) = Unchanged("limit", Limited)
          /\ Settled(ruled, Changed("rules")) = Unchanged("rules", ruled)
      <3> HIDE DEF ranked
      <3>1. Limited \subseteq Names
        BY DEF Limited
      <3> QED
        BY <2>1, <3>1 DEF Changed
    <2>4. /\ Right(limit_name, Unchanged("limit", Limited))
          /\ Right(policy_name, Unchanged("rules", ruled))
      BY <2>2, <2>3
    <2>5. SettledNamesDecide <=> (Asked => /\ Right(limit_name, Unchanged("limit", Limited))
                                           /\ Right(policy_name, Unchanged("rules", ruled)))
      BY DEF SettledNamesDecide, Ranked, Tries, Bearers, Bearer, Bears, Limited
    <2> HIDE DEF ranked, Unchanged, Right
    <2> QED
      BY <2>4, <2>5
  <1> QED
    BY <1>1, LookupInvariant, PTL
=============================================================================
