-------------------------- MODULE RequestLifecycle --------------------------
(***************************************************************************)
(* ResponseBandwidthLimiterMiddleware.__call__ for concurrent HTTP         *)
(* requests, with the in-flight count of ShutdownCoordinator, the pacing   *)
(* of a throttled body and a shutdown that waits for it to drain.          *)
(*                                                                         *)
(* The requests and the waiting shutdown are tasks of one event loop: one  *)
(* runs until it awaits.  A signal handler or another thread may change    *)
(* the shutdown mode at any time, also while a task runs.                  *)
(***************************************************************************)
EXTENDS Naturals, FiniteSets

CONSTANTS
  Requests,
  MaxChunks  \* bound on the chunks of one body message

DRAIN == "drain"
ABORT == "abort"
None == "none"

Nobody == "nobody"

ASSUME LifecycleAssumption ==
  /\ IsFiniteSet(Requests) /\ Nobody \notin Requests
  /\ MaxChunks \in Nat \ {0}

VARIABLES
  shutting_down, mode,  \* the coordinator
  in_flight,
  at,          \* per request, where __call__ is
  limited,     \* per request: a rate applies to its response
  ruled,       \* per request: its endpoint has policy rules
  body,        \* per request, the response's body: the chunks left of the message
               \* being sent, whether that is the last one, and what the client
               \* was told: that the body has ended
  running,     \* the request that has the loop between two awaits, or Nobody
  waiter,      \* what wait_until_drained has come to
  \* History variables.
  sent,        \* per request, the chunks it sent in abort mode
  unjudged     \* the requests under evaluation when the waiter saw no response

coordinator == <<shutting_down, mode, in_flight>>
plan == <<limited, ruled>>
vars == <<coordinator, at, plan, body, running, waiter, sent, unjudged>>

\* Where a request is suspended, outside the section that is counted:
Untracked == {"gate", "evaluating", "refusing", "unlimited"}
\* and inside it, in a policy delay or in a response.
Tracked == {"delaying", "refusing_delayed", "app", "pacing", "sending"}
\* Where it has the loop: "woken" is still inside, "routing" is not.
Places == {"idle"} \cup Untracked \cup Tracked \cup {"woken", "routing"}

ShouldFlush == shutting_down /\ mode = DRAIN

ShouldAbort == shutting_down /\ mode = ABORT

NoBody == [left |-> 0, last |-> FALSE, ended |-> FALSE]

Init ==
  /\ shutting_down = FALSE /\ mode = None /\ in_flight = 0
  /\ at = [q \in Requests |-> "idle"]
  /\ limited = [q \in Requests |-> FALSE]
  /\ ruled = [q \in Requests |-> FALSE]
  /\ body = [q \in Requests |-> NoBody]
  /\ running = Nobody
  /\ waiter = "off"
  /\ sent = [q \in Requests |-> 0]
  /\ unjudged = {}

\* q goes from one place to another; the loop is q's only at "woken" and
\* "routing".
Go(q, from, to) ==
  /\ at[q] = from
  /\ running = IF from \in {"woken", "routing"} THEN q ELSE Nobody
  /\ at' = [at EXCEPT ![q] = to]
  /\ running' = IF to \in {"woken", "routing"} THEN q ELSE Nobody

\* The same, while nothing happens to the body but that it goes with the request.
Move(q, from, to) ==
  /\ Go(q, from, to)
  /\ body' = IF to = "idle" THEN [body EXCEPT ![q] = NoBody] ELSE body

enter_response == in_flight' = in_flight + 1
exit_response == in_flight' = IF in_flight > 0 THEN in_flight - 1 ELSE 0

UnchangedMode == UNCHANGED <<shutting_down, mode>>
UnchangedRest == UNCHANGED <<waiter, sent, unjudged>>
-----------------------------------------------------------------------------
\* A request comes in; it may wait for the IP lists.
Arrive(q, rate, rules) ==
  /\ Move(q, "idle", "gate")
  /\ limited' = [limited EXCEPT ![q] = rate]
  /\ ruled' = [ruled EXCEPT ![q] = rules]
  /\ sent' = [sent EXCEPT ![q] = 0]
  /\ UNCHANGED <<coordinator, waiter, unjudged>>

\* The IP lists refuse it or cannot be read.
RefusedByIP(q) ==
  /\ Move(q, "gate", "refusing")
  /\ UNCHANGED <<coordinator, plan>> /\ UnchangedRest

\* A gate that looks at the rate only.
GateForRates(q) ==
  LET refused == shutting_down /\ limited[q]
  IN  /\ Move(q, "gate", IF refused THEN "refusing"
                         ELSE IF ruled[q] THEN "evaluating" ELSE "routing")
      /\ UNCHANGED <<coordinator, plan>> /\ UnchangedRest

\* A rate or a policy applies and a shutdown has begun: 503.
Gate(q) ==
  LET refused == shutting_down /\ (limited[q] \/ ruled[q])
  IN  /\ Move(q, "gate", IF refused THEN "refusing"
                         ELSE IF ruled[q] THEN "evaluating" ELSE "routing")
      /\ UNCHANGED <<coordinator, plan>> /\ UnchangedRest

\* The policy cannot be evaluated (503), or rejects the request.
RefusedByPolicy(q) ==
  /\ Move(q, "evaluating", "refusing")
  /\ UNCHANGED <<coordinator, plan>> /\ UnchangedRest

\* No rule matched, or the address is on the allow list.
Passed(q) ==
  /\ Move(q, "evaluating", "routing")
  /\ UNCHANGED <<coordinator, plan>> /\ UnchangedRest

Throttled(q) ==
  /\ Move(q, "evaluating", "routing")
  /\ limited' = [limited EXCEPT ![q] = TRUE]
  /\ UNCHANGED <<coordinator, ruled>> /\ UnchangedRest

Delayed(q) ==
  /\ Move(q, "evaluating", "delaying")
  /\ enter_response
  /\ UnchangedMode /\ UNCHANGED plan /\ UnchangedRest

\* _sleep_for_policy_delay looks every 0.1 s, and once more when the sleep ends.
DelayAborted(q) ==
  /\ ShouldAbort
  /\ Move(q, "delaying", "idle")
  /\ exit_response
  /\ UnchangedMode /\ UNCHANGED plan /\ UnchangedRest

DelayOver(q) ==
  /\ ~ShouldAbort
  /\ Move(q, "delaying", "woken")
  /\ UNCHANGED <<coordinator, plan>> /\ UnchangedRest

\* The shutdown check after the delay; the refusal is sent inside the section.
RefusedAfterDelay(q) ==
  /\ shutting_down
  /\ Move(q, "woken", "refusing_delayed")
  /\ UNCHANGED <<coordinator, plan>> /\ UnchangedRest

AdmittedAfterDelay(q) ==
  /\ ~shutting_down
  /\ Move(q, "woken", "routing")
  /\ exit_response
  /\ UnchangedMode /\ UNCHANGED plan /\ UnchangedRest

RefusalSent(q) ==
  \/ /\ Move(q, "refusing", "idle")
     /\ UNCHANGED <<coordinator, plan>> /\ UnchangedRest
  \/ /\ Move(q, "refusing_delayed", "idle")
     /\ exit_response
     /\ UnchangedMode /\ UNCHANGED plan /\ UnchangedRest
-----------------------------------------------------------------------------
\* Without a rate the application answers as if the middleware were not there.
Route(q) ==
  IF limited[q]
  THEN /\ Move(q, "routing", "app")
       /\ enter_response
       /\ UnchangedMode /\ UNCHANGED plan /\ UnchangedRest
  ELSE /\ Move(q, "routing", "unlimited")
       /\ UNCHANGED <<coordinator, plan>> /\ UnchangedRest

UnlimitedDone(q) ==
  /\ Move(q, "unlimited", "idle")
  /\ UNCHANGED <<coordinator, plan>> /\ UnchangedRest

\* The application sends the next message of its body; without content, at most
\* the end of the body, it is passed on as it is.
AppSends(q, chunks, last) ==
  /\ Go(q, "app", "app")
  /\ body[q].left = 0 /\ ~body[q].last
  /\ body' = [body EXCEPT ![q] = [left |-> chunks, last |-> last, ended |-> chunks = 0 /\ last]]
  /\ UNCHANGED <<coordinator, plan>> /\ UnchangedRest

\* The body it sent has another chunk: yield_limited_chunks checks for an abort,
\* then pauses.
Pace(q) ==
  /\ ~ShouldAbort
  /\ body[q].left > 0
  /\ Move(q, "app", "pacing")
  /\ UNCHANGED <<coordinator, plan>> /\ UnchangedRest

\* The same without the finally clause.
StreamAbortedUncounted(q) ==
  /\ ShouldAbort
  /\ body[q].left > 0
  /\ Move(q, "app", "idle") \/ Move(q, "pacing", "idle")
  /\ UNCHANGED <<coordinator, plan>> /\ UnchangedRest

\* An abort check raises: before the pause, at its end, or within it (every 0.1 s
\* if the shutdown had begun when the pause did).
StreamAborted(q) ==
  /\ ShouldAbort
  /\ body[q].left > 0
  /\ Move(q, "app", "idle") \/ Move(q, "pacing", "idle")
  /\ exit_response
  /\ UnchangedMode /\ UNCHANGED plan /\ UnchangedRest

PauseOver(q) ==
  /\ ~ShouldAbort
  /\ Move(q, "pacing", "sending")
  /\ UNCHANGED <<coordinator, plan>> /\ UnchangedRest

\* The flag of the message, on each of its chunks.
MoreBodyOfMessage(b) == ~b.last

\* What a chunk says of those to come, with b.left chunks behind it.
MoreBody(b) == ~b.last \/ b.left > 0

\* One turn of _send_limited_body.
Send(q) ==
  /\ Go(q, "sending", "app")
  /\ LET b == [body[q] EXCEPT !.left = @ - 1]
     IN  body' = [body EXCEPT ![q] = [b EXCEPT !.ended = @ \/ ~MoreBody(b)]]
  /\ sent' = [sent EXCEPT ![q] = IF mode = ABORT THEN @ + 1 ELSE @]
  /\ UNCHANGED <<coordinator, plan, waiter, unjudged>>

\* The application returns, or raises; it waits for the chunks of a message.
AppDone(q) ==
  /\ body[q].left = 0
  /\ Move(q, "app", "idle")
  /\ exit_response
  /\ UnchangedMode /\ UNCHANGED plan /\ UnchangedRest

\* A section left without exit_response when the task is cancelled.
CancelUncounted(q) ==
  \E from \in Untracked \cup Tracked :
    /\ Move(q, from, "idle")
    /\ UNCHANGED <<coordinator, plan>> /\ UnchangedRest

\* The server cancels the task, which it can do at any await.
Cancel(q) ==
  \/ \E from \in Untracked :
       /\ Move(q, from, "idle")
       /\ UNCHANGED <<coordinator, plan>> /\ UnchangedRest
  \/ \E from \in Tracked :
       /\ Move(q, from, "idle")
       /\ exit_response
       /\ UnchangedMode /\ UNCHANGED plan /\ UnchangedRest
-----------------------------------------------------------------------------
begin_shutdown_without_mode(m) ==
  /\ shutting_down' = TRUE
  /\ mode' = IF mode = DRAIN /\ m = ABORT THEN ABORT ELSE mode

\* begin_shutdown, on behalf of a signal, another thread or a task.
begin_shutdown(m) ==
  IF shutting_down
  THEN /\ mode' = IF mode = DRAIN /\ m = ABORT THEN ABORT ELSE mode
       /\ UNCHANGED shutting_down
  ELSE shutting_down' = TRUE /\ mode' = m

BeginShutdown(m) ==
  /\ begin_shutdown(m)
  /\ UNCHANGED <<in_flight, at, plan, body, running, waiter, sent, unjudged>>

\* ResponseBandwidthLimiter.shutdown, a task of the same loop.
Shutdown(m) ==
  /\ running = Nobody
  /\ waiter = "off"
  /\ waiter' = "waiting"
  /\ begin_shutdown(m)
  /\ UNCHANGED <<in_flight, at, plan, body, running, sent, unjudged>>

\* wait_until_drained looks at the count and answers when it is zero,
Drained ==
  /\ running = Nobody
  /\ waiter = "waiting"
  /\ in_flight = 0
  /\ waiter' = "drained"
  /\ unjudged' = {q \in Requests : at[q] = "evaluating"}
  /\ UNCHANGED <<coordinator, at, plan, body, running, sent>>

\* or gives up at its deadline, if it was given one.
TimedOut ==
  /\ running = Nobody
  /\ waiter = "waiting"
  /\ in_flight # 0
  /\ waiter' = "timed_out"
  /\ UNCHANGED <<coordinator, at, plan, body, running, sent, unjudged>>
-----------------------------------------------------------------------------
\* What a task does when nobody else makes it fail or stops it.
Progress(q) ==
  \/ Gate(q) \/ Passed(q) \/ Throttled(q) \/ Delayed(q)
  \/ DelayAborted(q) \/ DelayOver(q) \/ RefusedAfterDelay(q) \/ AdmittedAfterDelay(q)
  \/ RefusalSent(q)
  \/ Route(q) \/ UnlimitedDone(q)
  \/ \E chunks \in 1 .. MaxChunks, last \in BOOLEAN : AppSends(q, chunks, last)
  \/ body[q].last /\ AppDone(q)
  \/ Pace(q) \/ StreamAborted(q) \/ PauseOver(q) \/ Send(q)

Next ==
  \/ \E q \in Requests : \E rate, rules \in BOOLEAN : Arrive(q, rate, rules)
  \/ \E q \in Requests : Progress(q)
  \/ \E q \in Requests : RefusedByIP(q) \/ RefusedByPolicy(q) \/ AppDone(q) \/ Cancel(q)
  \/ \E q \in Requests, last \in BOOLEAN : AppSends(q, 0, last)
  \/ \E m \in {DRAIN, ABORT} : BeginShutdown(m) \/ Shutdown(m)
  \/ Drained
  \/ TimedOut

\* The loop runs every task that can run, timers fire, storage and clients answer
\* and an application that streams goes on to send content, or returns after its
\* last message.  It need not come to an end.
Fairness == SF_vars(Drained) /\ \A q \in Requests : SF_vars(Progress(q))

Spec == Init /\ [][Next]_vars /\ Fairness
-----------------------------------------------------------------------------
\* The requests counted by in_flight.
Inside == {q \in Requests : at[q] \in Tracked \cup {"woken"}}

\* The shape of the state; a request has the loop where it does not await.
TypeOK ==
  /\ shutting_down \in BOOLEAN
  /\ mode \in {None, DRAIN, ABORT}
  /\ shutting_down <=> mode # None
  /\ in_flight \in 0 .. Cardinality(Requests)
  /\ at \in [Requests -> Places]
  /\ limited \in [Requests -> BOOLEAN] /\ ruled \in [Requests -> BOOLEAN]
  /\ body \in [Requests -> [left : 0 .. MaxChunks, last : BOOLEAN, ended : BOOLEAN]]
  /\ running \in Requests \cup {Nobody}
  /\ \A q \in Requests : at[q] \in {"woken", "routing"} <=> running = q
  /\ waiter \in {"off", "waiting", "drained", "timed_out"}
  /\ unjudged \subseteq Requests

\* Every response in a delay or under a rate is counted once, on every way out:
\* the end, an abort, an exception of the application, a cancelled task.
InFlightExact == in_flight = Cardinality(Inside)

\* After an abort began, a response sends no more than the chunk whose checks it
\* had passed (streaming.py yield_limited_chunks, middleware.py __call__).
AbortBoundsBody == \A q \in Requests : sent[q] <= 1

\* The client is told that the body has ended with the last chunk of the last
\* message, not before and not without being told, however the pacing cuts the
\* messages and whichever of them are empty (middleware.py _send_limited_body).
BodyFraming ==
  \A q \in Requests : body[q].ended <=> (body[q].last /\ body[q].left = 0)

\* After shutdown() has answered that everything is drained, the only responses
\* that may still start are those of requests whose policy was being evaluated
\* at that moment: they had passed the gate and were not counted yet.
LateEntrants == waiter = "drained" => Inside \subseteq unjudged

\* An abort empties the section for good, even of streams that have no end, and
\* lets a shutdown that waits for that return.
AbortDrains ==
  mode = ABORT ~> [](in_flight = 0 /\ waiter # "waiting")
=============================================================================
