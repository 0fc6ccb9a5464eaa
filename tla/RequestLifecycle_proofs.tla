----------------------- MODULE RequestLifecycle_proofs ------------------------
(***************************************************************************)
(* Theorems about the requests and the shutdown that waits for them, for   *)
(* every finite set of requests and every length of a body message.        *)
(***************************************************************************)
EXTENDS RequestLifecycle, FiniteSetTheorems, TLAPS

\* Where a request counts, and where it has the loop.
Counting == Tracked \cup {"woken"}
Looping == {"woken", "routing"}

\* The steps of one request.
RequestStep(q) ==
  \/ \E rate, rules \in BOOLEAN : Arrive(q, rate, rules)
  \/ RefusedByIP(q) \/ Gate(q)
  \/ RefusedByPolicy(q) \/ Passed(q) \/ Throttled(q) \/ Delayed(q)
  \/ DelayAborted(q) \/ DelayOver(q) \/ RefusedAfterDelay(q) \/ AdmittedAfterDelay(q)
  \/ RefusalSent(q)
  \/ Route(q) \/ UnlimitedDone(q)
  \/ \E chunks \in 0 .. MaxChunks, last \in BOOLEAN : AppSends(q, chunks, last)
  \/ Pace(q) \/ StreamAborted(q) \/ PauseOver(q) \/ Send(q) \/ AppDone(q)
  \/ Cancel(q)

LEMMA NextIsOneOf ==
  ASSUME Next
  PROVE  \/ \E q \in Requests : RequestStep(q)
         \/ \E m \in {DRAIN, ABORT} : BeginShutdown(m) \/ Shutdown(m)
         \/ Drained
         \/ TimedOut
  BY LifecycleAssumption DEF Next, Progress, RequestStep

LEMMA SomeAreFinite ==
  ASSUME NEW S \in SUBSET Requests
  PROVE  IsFiniteSet(S) /\ Cardinality(S) \in 0 .. Cardinality(Requests)
  BY LifecycleAssumption, FS_Subset, FS_CardinalityType

-----------------------------------------------------------------------------
\* The count follows a request that enters the section, leaves it, or does
\* neither.
LEMMA EnterCounts ==
  ASSUME TypeOK, InFlightExact, enter_response,
         NEW q \in Requests, NEW from \in Places \ Counting, NEW to \in Counting, Go(q, from, to)
  PROVE  InFlightExact'
  <1>1. Inside' = Inside \cup {q} /\ q \notin Inside
    BY DEF TypeOK, Go, Inside, Counting
  <1>2. IsFiniteSet(Inside)
    BY SomeAreFinite DEF Inside
  <1> QED
    BY <1>1, <1>2, FS_AddElement DEF InFlightExact, enter_response

LEMMA ExitCounts ==
  ASSUME TypeOK, InFlightExact, exit_response,
         NEW q \in Requests, NEW from \in Counting, NEW to \in Places \ Counting, Go(q, from, to)
  PROVE  InFlightExact'
  <1>1. Inside' = Inside \ {q} /\ q \in Inside
    BY DEF TypeOK, Go, Inside, Counting
  <1>2. IsFiniteSet(Inside) /\ IsFiniteSet(Inside \ {q})
    BY SomeAreFinite DEF Inside
  <1>3. Cardinality(Inside') = in_flight - 1
    BY <1>1, <1>2, FS_RemoveElement DEF InFlightExact
  <1>4. Cardinality(Inside') \in Nat
    BY <1>1, <1>2, FS_CardinalityType
  <1> QED
    BY <1>3, <1>4 DEF InFlightExact, exit_response, TypeOK

LEMMA MoveCounts ==
  ASSUME TypeOK, InFlightExact, in_flight' = in_flight,
         NEW q \in Requests, NEW from \in Places, NEW to \in Places, Go(q, from, to),
         from \in Counting <=> to \in Counting
  PROVE  InFlightExact'
  <1>1. Inside' = Inside
    BY DEF TypeOK, Go, Inside, Counting
  <1> QED
    BY <1>1 DEF InFlightExact

LEMMA RequestsCount ==
  ASSUME TypeOK, InFlightExact, NEW q \in Requests, RequestStep(q)
  PROVE  InFlightExact'
  <1> USE DEF Places, Tracked, Untracked, Counting, Move
  <1>1. CASE \E rate, rules \in BOOLEAN : Arrive(q, rate, rules)
    BY <1>1, MoveCounts DEF Arrive, coordinator
  <1>2. CASE RefusedByIP(q) \/ Gate(q) \/ RefusedByPolicy(q) \/ Passed(q) \/ Throttled(q)
    BY <1>2, MoveCounts DEF RefusedByIP, Gate, RefusedByPolicy, Passed, Throttled, coordinator
  <1>3. CASE Delayed(q)
    BY <1>3, EnterCounts DEF Delayed
  <1>4. CASE DelayAborted(q) \/ AdmittedAfterDelay(q) \/ StreamAborted(q) \/ AppDone(q)
    BY <1>4, ExitCounts DEF DelayAborted, AdmittedAfterDelay, StreamAborted, AppDone
  <1>5. CASE DelayOver(q) \/ RefusedAfterDelay(q) \/ UnlimitedDone(q) \/ Pace(q) \/ PauseOver(q)
    BY <1>5, MoveCounts DEF DelayOver, RefusedAfterDelay, UnlimitedDone, Pace, PauseOver, coordinator
  <1>6. CASE RefusalSent(q)
    BY <1>6, MoveCounts, ExitCounts DEF RefusalSent, coordinator
  <1>7. CASE Route(q)
    BY <1>7, MoveCounts, EnterCounts DEF Route, coordinator
  <1>8. CASE Send(q) \/ \E chunks \in 0 .. MaxChunks, last \in BOOLEAN : AppSends(q, chunks, last)
    BY <1>8, MoveCounts DEF AppSends, Send, coordinator
  <1>9. CASE Cancel(q)
    BY <1>9, MoveCounts, ExitCounts DEF Cancel, coordinator
  <1> QED
    BY <1>1, <1>2, <1>3, <1>4, <1>5, <1>6, <1>7, <1>8, <1>9 DEF RequestStep
-----------------------------------------------------------------------------
\* What a request does keeps the shape of the state.
Body == [left : 0 .. MaxChunks, last : BOOLEAN, ended : BOOLEAN]

LEMMA GoKeepsLoop ==
  ASSUME TypeOK, NEW q \in Requests, NEW from \in Places, NEW to \in Places, Go(q, from, to)
  PROVE  /\ at' \in [Requests -> Places]
         /\ running' \in Requests \cup {Nobody}
         /\ \A p \in Requests : at'[p] \in Looping <=> running' = p
  BY LifecycleAssumption DEF TypeOK, Go, Looping

LEMMA MoveKeepsBody ==
  ASSUME TypeOK, NEW q \in Requests, NEW from, NEW to, Move(q, from, to)
  PROVE  body' \in [Requests -> Body]
  <1>1. NoBody \in Body
    BY LifecycleAssumption DEF NoBody, Body
  <1> QED
    BY <1>1 DEF TypeOK, Move, Body

\* A pause and a chunk are of a message that has a chunk left.
ChunkAhead == \A q \in Requests : at[q] \in {"pacing", "sending"} => body[q].left > 0

LEMMA SendKeepsBody ==
  ASSUME TypeOK, ChunkAhead, NEW q \in Requests, Send(q)
  PROVE  /\ body' \in [Requests -> Body]
         /\ \A p \in Requests \ {q} : body'[p] = body[p]
         /\ body'[q].left = body[q].left - 1 /\ body'[q].last = body[q].last
         /\ body'[q].ended = (body[q].ended \/ (body[q].last /\ body'[q].left <= 0))
  <1> DEFINE b == [body[q] EXCEPT !.left = @ - 1]
  <1>1. body[q] \in Body /\ body[q].left > 0 /\ MaxChunks \in Nat
    BY LifecycleAssumption DEF TypeOK, ChunkAhead, Send, Go, Body
  <1>2. b.left = body[q].left - 1 /\ b.last = body[q].last /\ b.ended = body[q].ended
    BY <1>1 DEF Body
  <1>3. b \in Body
    BY <1>1 DEF Body
  <1> HIDE DEF b
  <1>4. body' = [body EXCEPT ![q] = [b EXCEPT !.ended = @ \/ ~MoreBody(b)]]
    BY DEF Send, b
  <1>5. body'[q] = [b EXCEPT !.ended = @ \/ ~MoreBody(b)]
    BY <1>4 DEF TypeOK
  <1>6. body'[q] \in Body
    BY <1>3, <1>5 DEF Body
  <1>7. body'[q].left = b.left /\ body'[q].last = b.last /\ body'[q].ended = (b.ended \/ ~MoreBody(b))
    BY <1>3, <1>5 DEF Body
  <1>8. MoreBody(b) <=> ~(b.last /\ b.left <= 0)
    BY <1>1, <1>2 DEF MoreBody, Body
  <1> QED
    BY <1>1, <1>2, <1>3, <1>4, <1>6, <1>7, <1>8 DEF TypeOK, Body

LEMMA RequestsKeepShape ==
  ASSUME TypeOK, InFlightExact, ChunkAhead, NEW q \in Requests, RequestStep(q)
  PROVE  TypeOK'
  <1> USE DEF Places, Tracked, Untracked
  <1>1. in_flight' \in 0 .. Cardinality(Requests)
    <2>1. InFlightExact'
      BY RequestsCount
    <2> QED
      BY <2>1, SomeAreFinite DEF InFlightExact, Inside
  <1>2. /\ at' \in [Requests -> Places]
        /\ running' \in Requests \cup {Nobody}
        /\ \A p \in Requests : at'[p] \in Looping <=> running' = p
    <2>1. \E from, to \in Places : Go(q, from, to)
      BY DEF RequestStep, Move, Arrive, RefusedByIP, Gate, RefusedByPolicy, Passed, Throttled,
             Delayed, DelayAborted, DelayOver, RefusedAfterDelay, AdmittedAfterDelay,
             RefusalSent, Route, UnlimitedDone, AppSends, Pace, StreamAborted, PauseOver, Send,
             AppDone, Cancel
    <2> QED
      BY <2>1, GoKeepsLoop
  <1>3. body' \in [Requests -> Body]
    <2>1. CASE Send(q)
      BY <2>1, SendKeepsBody
    <2>2. CASE \E chunks \in 0 .. MaxChunks, last \in BOOLEAN : AppSends(q, chunks, last)
      BY <2>2 DEF AppSends, TypeOK, Body
    <2>3. CASE \E from, to \in Places : Move(q, from, to)
      BY <2>3, MoveKeepsBody
    <2>4. Send(q) \/ (\E chunks \in 0 .. MaxChunks, last \in BOOLEAN : AppSends(q, chunks, last))
          \/ (\E from, to \in Places : Move(q, from, to))
      BY DEF RequestStep, Arrive, RefusedByIP, Gate, RefusedByPolicy, Passed, Throttled,
             Delayed, DelayAborted, DelayOver, RefusedAfterDelay, AdmittedAfterDelay,
             RefusalSent, Route, UnlimitedDone, Pace, StreamAborted, PauseOver, AppDone, Cancel
    <2> QED
      BY <2>1, <2>2, <2>3, <2>4
  <1>4. /\ limited' \in [Requests -> BOOLEAN] /\ ruled' \in [Requests -> BOOLEAN]
        /\ UNCHANGED <<shutting_down, mode, waiter, unjudged>>
    BY DEF RequestStep, TypeOK, Arrive, RefusedByIP, Gate, RefusedByPolicy, Passed, Throttled,
           Delayed, DelayAborted, DelayOver, RefusedAfterDelay, AdmittedAfterDelay, RefusalSent,
           Route, UnlimitedDone, AppSends, Pace, StreamAborted, PauseOver, Send, AppDone, Cancel,
           coordinator, plan, UnchangedMode, UnchangedRest
  <1> QED
    BY <1>1, <1>2, <1>3, <1>4 DEF TypeOK, Body, Looping
-----------------------------------------------------------------------------
\* What makes AbortBoundsBody inductive: a chunk sent in abort mode leaves the
\* request where every way on to another chunk has an abort check, and the mode
\* stays.
SentOnce ==
  /\ sent \in [Requests -> Nat]
  /\ \A q \in Requests : sent[q] = 0 \/ (sent[q] = 1 /\ mode = ABORT /\ at[q] # "sending")

\* What makes LateEntrants inductive: after the waiter's answer the places from
\* which a request can still get inside are taken by requests it did not see
\* through, and by nobody else, as the shutdown has closed the gate.
NobodyElseEnters ==
  /\ waiter # "off" => shutting_down
  /\ waiter = "drained" =>
       \A q \in Requests :
         \/ at[q] \in Counting \cup {"evaluating"}
         \/ at[q] = "routing" /\ limited[q]
         => q \in unjudged

LifecycleInv ==
  /\ TypeOK
  /\ InFlightExact
  /\ SentOnce
  /\ ChunkAhead
  /\ BodyFraming
  /\ NobodyElseEnters

LEMMA RequestsSendOnce ==
  ASSUME TypeOK, SentOnce, NEW q \in Requests, RequestStep(q)
  PROVE  SentOnce'
  <1> USE DEF TypeOK, SentOnce, Go
  <1>1. CASE Send(q)
    BY <1>1 DEF Send, coordinator
  <1>2. CASE PauseOver(q)
    BY <1>2 DEF PauseOver, Move, ShouldAbort, coordinator, UnchangedRest, ABORT, None
  <1>3. CASE \E rate, rules \in BOOLEAN : Arrive(q, rate, rules)
    BY <1>3 DEF Arrive, Move, coordinator
  <1>4. ASSUME UNCHANGED <<sent, mode>>, NEW to \in Places \ {"sending"}, at' = [at EXCEPT ![q] = to]
        PROVE  SentOnce'
    BY <1>4
  <1>5. \/ Send(q) \/ PauseOver(q)
        \/ \E rate, rules \in BOOLEAN : Arrive(q, rate, rules)
        \/ /\ UNCHANGED <<sent, mode>>
           /\ \E to \in Places \ {"sending"} : at' = [at EXCEPT ![q] = to]
    BY DEF RequestStep, Move, RefusedByIP, Gate, RefusedByPolicy, Passed, Throttled,
           Delayed, DelayAborted, DelayOver, RefusedAfterDelay, AdmittedAfterDelay, RefusalSent,
           Route, UnlimitedDone, AppSends, Pace, StreamAborted, AppDone, Cancel,
           coordinator, plan, UnchangedMode, UnchangedRest, Places, Tracked, Untracked
  <1> QED
    BY <1>1, <1>2, <1>3, <1>4, <1>5

LEMMA RequestsKeepFraming ==
  ASSUME TypeOK, ChunkAhead, BodyFraming, NEW q \in Requests, RequestStep(q)
  PROVE  ChunkAhead' /\ BodyFraming'
  <1> USE DEF TypeOK, ChunkAhead, BodyFraming
  <1>1. CASE Send(q)
    <2>1. /\ \A p \in Requests \ {q} : body'[p] = body[p]
          /\ body'[q].left = body[q].left - 1 /\ body'[q].last = body[q].last
          /\ body'[q].ended = (body[q].ended \/ (body[q].last /\ body'[q].left <= 0))
      BY <1>1, SendKeepsBody
    <2>2. body[q].left \in 0 .. MaxChunks /\ body[q].left > 0 /\ MaxChunks \in Nat
      BY <1>1, LifecycleAssumption DEF Send, Go
    <2>3. at' = [at EXCEPT ![q] = "app"]
      BY <1>1 DEF Send, Go
    <2> QED
      BY <2>1, <2>2, <2>3
  <1>2. CASE \E chunks \in 0 .. MaxChunks, last \in BOOLEAN : AppSends(q, chunks, last)
    BY <1>2, LifecycleAssumption DEF AppSends, Go
  <1>3. CASE Pace(q) \/ PauseOver(q)
    BY <1>3 DEF Pace, PauseOver, Move, Go
  <1>4. CASE \E from \in Places, to \in Places \ {"pacing", "sending"} : Move(q, from, to)
    <2>1. NoBody.left = 0 /\ NoBody.last = FALSE /\ NoBody.ended = FALSE
      BY DEF NoBody
    <2> QED
      BY <1>4, <2>1 DEF Move, Go
  <1>5. \/ Send(q) \/ Pace(q) \/ PauseOver(q)
        \/ \E chunks \in 0 .. MaxChunks, last \in BOOLEAN : AppSends(q, chunks, last)
        \/ \E from \in Places, to \in Places \ {"pacing", "sending"} : Move(q, from, to)
    BY DEF RequestStep, Arrive, RefusedByIP, Gate, RefusedByPolicy, Passed, Throttled,
           Delayed, DelayAborted, DelayOver, RefusedAfterDelay, AdmittedAfterDelay, RefusalSent,
           Route, UnlimitedDone, StreamAborted, AppDone, Cancel, Places, Tracked, Untracked
  <1> QED
    BY <1>1, <1>2, <1>3, <1>4, <1>5

LEMMA RequestsEnterJudged ==
  ASSUME TypeOK, NobodyElseEnters, NEW q \in Requests, RequestStep(q)
  PROVE  NobodyElseEnters'
  <1> USE DEF TypeOK, NobodyElseEnters, Go, Move, Counting, Tracked, coordinator, plan,
              UnchangedMode, UnchangedRest
  <1>1. CASE (\E rate, rules \in BOOLEAN : Arrive(q, rate, rules)) \/ RefusedByIP(q) \/ Gate(q)
    BY <1>1 DEF Arrive, RefusedByIP, Gate
  <1>2. CASE RefusedByPolicy(q) \/ Passed(q) \/ Throttled(q) \/ Delayed(q)
    BY <1>2 DEF RefusedByPolicy, Passed, Throttled, Delayed
  <1>3. CASE DelayAborted(q) \/ DelayOver(q) \/ RefusedAfterDelay(q) \/ AdmittedAfterDelay(q)
             \/ RefusalSent(q)
    BY <1>3 DEF DelayAborted, DelayOver, RefusedAfterDelay, AdmittedAfterDelay, RefusalSent
  <1>4. CASE Route(q) \/ UnlimitedDone(q)
    BY <1>4 DEF Route, UnlimitedDone
  <1>5. CASE \E chunks \in 0 .. MaxChunks, last \in BOOLEAN : AppSends(q, chunks, last)
    BY <1>5 DEF AppSends
  <1>6. CASE Pace(q) \/ StreamAborted(q) \/ PauseOver(q) \/ Send(q) \/ AppDone(q)
    BY <1>6 DEF Pace, StreamAborted, PauseOver, Send, AppDone
  <1>7. CASE Cancel(q)
    BY <1>7 DEF Cancel
  <1> QED
    BY <1>1, <1>2, <1>3, <1>4, <1>5, <1>6, <1>7 DEF RequestStep
-----------------------------------------------------------------------------
\* A shutdown changes the mode and the waiter only.
LEMMA ShutdownIsFine ==
  ASSUME LifecycleInv, NEW m \in {DRAIN, ABORT}, BeginShutdown(m) \/ Shutdown(m)
  PROVE  LifecycleInv'
  <1>1. /\ begin_shutdown(m)
        /\ UNCHANGED <<in_flight, at, limited, ruled, body, running, sent, unjudged>>
        /\ waiter' = waiter \/ waiter' = "waiting"
    BY DEF BeginShutdown, Shutdown, plan
  <1>2. shutting_down' = TRUE /\ mode' \in {DRAIN, ABORT} /\ (mode = ABORT => mode' = ABORT)
    BY <1>1 DEF begin_shutdown, LifecycleInv, TypeOK, DRAIN, ABORT, None
  <1>3. TypeOK'
    BY <1>1, <1>2 DEF LifecycleInv, TypeOK, DRAIN, ABORT, None
  <1>4. InFlightExact' /\ ChunkAhead' /\ BodyFraming'
    BY <1>1 DEF LifecycleInv, InFlightExact, Inside, ChunkAhead, BodyFraming
  <1>5. SentOnce' /\ NobodyElseEnters'
    BY <1>1, <1>2 DEF LifecycleInv, SentOnce, NobodyElseEnters
  <1> QED
    BY <1>3, <1>4, <1>5 DEF LifecycleInv

\* When the waiter finds the count at zero nobody is inside, and as it has the
\* loop nobody is on the way from one place to another.
LEMMA WaiterIsFine ==
  ASSUME LifecycleInv, Drained \/ TimedOut
  PROVE  LifecycleInv'
  <1>1. UNCHANGED <<shutting_down, mode, in_flight, at, limited, ruled, body, running, sent>>
    BY DEF Drained, TimedOut, coordinator, plan
  <1>2. TypeOK'
    BY <1>1 DEF LifecycleInv, TypeOK, Drained, TimedOut
  <1>3. InFlightExact' /\ ChunkAhead' /\ BodyFraming' /\ SentOnce'
    BY <1>1 DEF LifecycleInv, InFlightExact, Inside, ChunkAhead, BodyFraming, SentOnce
  <1>4. CASE Drained
    <2>1. Inside = {}
      <3>1. IsFiniteSet(Inside)
        BY SomeAreFinite DEF Inside
      <3> QED
        BY <1>4, <3>1, FS_EmptySet DEF Drained, LifecycleInv, InFlightExact
    <2>2. \A q \in Requests : at[q] \notin Counting \cup {"routing"}
      BY <1>4, <2>1, LifecycleAssumption DEF Drained, LifecycleInv, TypeOK, Inside, Counting
    <2> QED
      BY <1>1, <1>2, <1>3, <1>4, <2>2 DEF Drained, LifecycleInv, NobodyElseEnters
  <1>5. CASE TimedOut
    BY <1>1, <1>2, <1>3, <1>5 DEF TimedOut, LifecycleInv, NobodyElseEnters
  <1> QED
    BY <1>4, <1>5

LEMMA LifecycleInvariant == Spec => []LifecycleInv
  <1>1. Init => LifecycleInv
    <2> SUFFICES ASSUME Init
                 PROVE  LifecycleInv
      OBVIOUS
    <2>1. Inside = {}
      BY DEF Init, Inside, Tracked
    <2>2. Cardinality(Inside) = 0
      BY <2>1, FS_EmptySet
    <2>3. Cardinality(Requests) \in Nat
      BY LifecycleAssumption, FS_CardinalityType
    <2>4. NoBody \in [left : 0 .. MaxChunks, last : BOOLEAN, ended : BOOLEAN]
      BY LifecycleAssumption DEF NoBody
    <2>5. \A q \in Requests : at[q] \in Looping <=> running = q
      BY LifecycleAssumption DEF Init, Looping
    <2>6. TypeOK
      <3>1. body \in [Requests -> [left : 0 .. MaxChunks, last : BOOLEAN, ended : BOOLEAN]]
        BY <2>4 DEF Init
      <3>2. in_flight \in 0 .. Cardinality(Requests)
        BY <2>3 DEF Init
      <3>3. /\ shutting_down \in BOOLEAN /\ mode \in {None, DRAIN, ABORT}
            /\ shutting_down <=> mode # None
            /\ running \in Requests \cup {Nobody}
            /\ waiter \in {"off", "waiting", "drained", "timed_out"}
            /\ unjudged \subseteq Requests
        BY Zenon DEF Init
      <3>4. /\ at \in [Requests -> Places]
            /\ limited \in [Requests -> BOOLEAN] /\ ruled \in [Requests -> BOOLEAN]
        BY DEF Init, Places
      <3> QED
        BY <2>5, <3>1, <3>2, <3>3, <3>4 DEF TypeOK, Looping
    <2> QED
      BY <2>2, <2>6 DEF Init, LifecycleInv, InFlightExact, SentOnce, ChunkAhead, BodyFraming,
                        NoBody, NobodyElseEnters
  <1>2. LifecycleInv /\ [Next]_vars => LifecycleInv'
    <2> SUFFICES ASSUME LifecycleInv, [Next]_vars
                 PROVE  LifecycleInv'
      OBVIOUS
    <2>1. ASSUME NEW q \in Requests, RequestStep(q)
          PROVE  LifecycleInv'
      BY <2>1, RequestsCount, RequestsKeepShape, RequestsSendOnce, RequestsKeepFraming,
         RequestsEnterJudged DEF LifecycleInv
    <2>2. ASSUME NEW m \in {DRAIN, ABORT}, BeginShutdown(m) \/ Shutdown(m)
          PROVE  LifecycleInv'
      BY <2>2, ShutdownIsFine
    <2>3. CASE Drained \/ TimedOut
      BY <2>3, WaiterIsFine
    <2>4. CASE UNCHANGED vars
      BY <2>4 DEF vars, coordinator, plan, LifecycleInv, TypeOK, InFlightExact, Inside, SentOnce,
                  ChunkAhead, BodyFraming, NobodyElseEnters
    <2> QED
      BY <2>1, <2>2, <2>3, <2>4, NextIsOneOf
  <1> QED
    BY <1>1, <1>2, PTL DEF Spec
-----------------------------------------------------------------------------
\* The requests, the coordinator and the bodies keep their shape.
THEOREM LifecycleTypeCorrect == Spec => []TypeOK
  BY LifecycleInvariant, PTL DEF LifecycleInv

\* However many requests, delays, bodies, aborts and cancelled tasks there are, the
\* coordinator's count is that of the responses in a counted section
\* (middleware.py __call__, shutdown.py enter_response, exit_response).
THEOREM CountIsExact == Spec => []InFlightExact
  BY LifecycleInvariant, PTL DEF LifecycleInv

\* After an abort no response sends more than one chunk (streaming.py).
THEOREM AbortBoundsEveryBody == Spec => []AbortBoundsBody
  <1>1. LifecycleInv => AbortBoundsBody
    BY DEF LifecycleInv, SentOnce, AbortBoundsBody
  <1> QED
    BY <1>1, LifecycleInvariant, PTL

\* A client is told of the end of a body with its last chunk, whatever the lengths
\* of its messages (middleware.py _send_limited_body).
THEOREM EveryBodyIsFramed == Spec => []BodyFraming
  BY LifecycleInvariant, PTL DEF LifecycleInv

\* When shutdown() has answered, nobody but a request under evaluation at that
\* moment can still start a response (middleware.py __call__, limiter.py shutdown).
THEOREM OnlyLateEntrants == Spec => []LateEntrants
  <1>1. LifecycleInv => LateEntrants
    BY DEF LifecycleInv, NobodyElseEnters, LateEntrants, Inside, Counting
  <1> QED
    BY <1>1, LifecycleInvariant, PTL
=============================================================================
