----------------------- MODULE MemoryCountersPromise ------------------------
(***************************************************************************)
(* The counter table keeps WindowPromise when every counter has one rule   *)
(* for as long as it has any: no policy change gives a counter a second    *)
(* one, though it may take the rule away and bring it back.                *)
(*                                                                         *)
(* Grants are read off the history variable admitted; arrivals, which the  *)
(* table does not keep, need a history variable of their own.              *)
(***************************************************************************)
EXTENDS MemoryCounters

\* The configurations that this is about.
OneRule ==
  \A c \in Counters : \E r \in RulesAt(HandlerOf(c), IndexOf(c)) :
    RulesAt(HandlerOf(c), IndexOf(c)) = {r}

VARIABLE arrivals   \* per counter, the clock readings of its last count hits

RuleOf(c) == CHOOSE r \in RulesAt(HandlerOf(c), IndexOf(c)) : TRUE

Limits == [c \in Counters |-> RuleOf(c).count]
Windows == [c \in Counters |-> Span(RuleOf(c))]

GrantsOf(c) == [n \in DOMAIN admitted[c] |-> admitted[c][n].at]

\* The last Limits[c] grants of each counter.
Granted ==
  [c \in Counters |->
     IF Len(admitted[c]) <= Limits[c] THEN GrantsOf(c)
     ELSE SubSeq(GrantsOf(c), Len(admitted[c]) - Limits[c] + 1, Len(admitted[c]))]

P == INSTANCE WindowPromise WITH
       Clients <- Counters, Limit <- Limits, Window <- Windows,
       clock <- now, arrived <- arrivals, granted <- Granted

PromiseInit == OneRule /\ Init /\ arrivals = [c \in Counters |-> <<>>]

PromiseTick == Tick /\ UNCHANGED arrivals

PromiseRecordHit(c) ==
  /\ RecordHit(c, RuleOf(c))
  /\ arrivals' = P!Noted(arrivals, c, DOMAIN histories \ DOMAIN histories')

PromiseCleanupHandler(h) ==
  /\ CleanupHandler(h)
  /\ arrivals' = P!Without(arrivals, DOMAIN histories \ DOMAIN histories')

PromiseCleanupOrphaned(p) ==
  /\ CleanupOrphaned(p)
  /\ arrivals' = P!Without(arrivals, DOMAIN histories \ RuledBy(p))

PromiseNext ==
  \/ PromiseTick
  \/ \E c \in Counters : PromiseRecordHit(c)
  \/ \E h \in Handlers : PromiseCleanupHandler(h)
  \/ \E p \in Policies : PromiseCleanupOrphaned(p)

PromiseSpec == PromiseInit /\ [][PromiseNext]_<<vars, arrivals>>

\* The table is a sliding-window limiter: every grant, refusal and loss of it is
\* one that WindowPromise allows (memory.py record_hit, policy.py evaluate).
KeepsPromise == P!Spec
=============================================================================
