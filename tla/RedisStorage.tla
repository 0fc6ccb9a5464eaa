---------------------------- MODULE RedisStorage -----------------------------
(***************************************************************************)
(* RedisStorage: one store shared by several processes, reached by         *)
(* commands that may be lost, delayed or answered in vain, with a fallback *)
(* in each process for the calls that fail.                                *)
(*                                                                         *)
(* Commands on different Redis keys do not meet, so a behaviour follows    *)
(* one subject: the counter of one rule, one key of the IP lists, or one   *)
(* key of the application.  Redis runs a command, a script or a MULTI in   *)
(* one piece, and it replies as it runs: what delays a reply is put before *)
(* the run.  Until then others call, policies are updated and processes    *)
(* restart; and when the caller has given up, it may run all the same.     *)
(***************************************************************************)
EXTENDS SlidingWindow, FiniteSets

CONSTANTS
  Processes,
  Updaters,       \* the processes that replace the rule, once per life
  Before, After,  \* the rule of start-up and the one that replaces it
  Lifetimes,      \* the values of expire, without None
  MaxValue,       \* incr does not tell larger numbers apart
  MaxTime,        \* bound on the clock
  MaxFaults       \* bound on failures, cancelled calls, restarts and evictions

Nobody == "nobody"   \* the sender of what an ended process left on its way

ASSUME RedisAssumption ==
  /\ IsFiniteSet(Processes) /\ Updaters \subseteq Processes /\ Nobody \notin Processes
  /\ {Before, After} \subseteq Rule
  /\ Lifetimes \subseteq Nat \ {0}
  /\ MaxValue \in Nat /\ MaxTime \in Nat /\ MaxFaults \in Nat

VARIABLES
  subject,       \* "counter", "ip" or "app"
  counter_mode, control_mode,   \* what a failed call comes to
  now,
  redis,         \* the subject in Redis; a counter, per generation
  fallback,      \* the subject in each process's own memory, which others share
  generation,    \* per process, _handler_generations of the endpoint
  updating,      \* per process, how far update_policy is
  call,          \* per process, its call of the storage
  abandoned,     \* commands on their way that nobody waits for
  faults, restarts, evictions,   \* how many there have been
  \* History variables.
  grants,        \* per instant, what processes with the rule of start-up granted
  strayed,       \* a hit under the new rule ran in the counter of the old one
  hitBy,         \* per updater, the rules of its hits in each counter it uses
  late,          \* per updater, the rules it was evaluating at its last swap
  known,         \* of a key: what its last write left there
  answer         \* of a key: what a get was told that ended just now

config == <<subject, counter_mode, control_mode>>
wire == <<abandoned, faults, restarts, evictions>>
marks == <<strayed, hitBy>>
updates == <<generation, updating, late>>
vars == <<config, now, redis, fallback, call, wire, updates, marks, grants, known, answer>>

None == 0
Nothing == <<>>
Silent == <<"silent">>
Quiet == answer' = Silent
Idle == [at |-> "idle"]
Absent == [content |-> Nothing, expires |-> None]
Unknown == [is |-> "unknown"]
Generations == {0, 1}
InMemory == -1   \* the counter in the memory of a process, among those in Redis

\* The rule that the requests of process p read.
RuleAt(p) == IF updating[p] = "no" THEN "before" ELSE "after"
RuleOf(version) == IF version = "before" THEN Before ELSE After

\* One mode for everything.
FailureModeOfCounters == counter_mode

\* A key of the IP lists has a mode of its own.
FailureMode == IF subject = "ip" THEN control_mode ELSE counter_mode

Init ==
  /\ \/ /\ subject \in {"counter", "app"}
        /\ counter_mode \in {"open", "closed", "local"} /\ control_mode = "closed"
        /\ subject = "app" => counter_mode = "open"
     \/ /\ subject = "ip"
        /\ control_mode \in {"closed", "local"}
        /\ counter_mode = IF control_mode = "closed" THEN "local" ELSE "open"
  /\ now = 0
  /\ redis = [g \in Generations |-> Absent]
  /\ fallback = [p \in Processes |-> Absent]
  /\ generation = [p \in Processes |-> 0]
  /\ updating = [p \in Processes |-> "no"]
  /\ call = [p \in Processes |-> Idle]
  /\ abandoned = {} /\ faults = 0 /\ restarts = 0 /\ evictions = 0
  /\ grants = [t \in 0 .. MaxTime |-> 0]
  /\ strayed = FALSE
  /\ hitBy = [p \in Updaters |-> [g \in Generations \cup {InMemory} |-> {}]]
  /\ late = [p \in Updaters |-> {}]
  /\ known = Unknown
  /\ answer = Silent
-----------------------------------------------------------------------------
\* What commands do to an entry of a store: of Redis, which keeps what set
\* writes as JSON and counts in plain numbers, or of a process's memory.

Content(entry) ==
  IF entry.expires # None /\ entry.expires <= now THEN Nothing ELSE entry.content

Deadline(expire) == IF expire = None THEN None ELSE now + expire

\* EXPIRE one tick short.
HitExpiresEarly(store, r) == IF store = "redis" THEN now + Span(r) - 1 ELSE None

\* The script renews the key's deadline with every hit, granted or not.
HitExpires(store, r) == IF store = "redis" THEN now + Span(r) ELSE None

\* What set leaves of a value, which get turns back.
Serialized(store) == <<IF store = "redis" THEN "json" ELSE "plain", 1>>

Leaving(content, expires, reply) ==
  [entry |-> [content |-> content, expires |-> expires], reply |-> reply]

Executed(store, entry, c) ==
  LET content == Content(entry)
      expires == IF content = Nothing THEN None ELSE entry.expires
      unchanged == [content |-> content, expires |-> expires]
      counted == <<"plain", IF content = Nothing THEN 1
                            ELSE IF content[2] < MaxValue THEN content[2] + 1 ELSE MaxValue>>
  IN  CASE c.op = "hit" ->
             LET hits == Hit(content, now, RuleOf(c.version))
                 verdict == IF OverLimit(hits, RuleOf(c.version)) THEN "refused" ELSE "granted"
             IN  Leaving(hits, HitExpires(store, RuleOf(c.version)), <<verdict, now>>)
        [] c.op = "get" -> Leaving(content, expires, content)
        [] c.op = "set" -> Leaving(Serialized(store), Deadline(c.expire), <<"done">>)
        [] c.op = "delete" -> Leaving(Nothing, None, <<"done">>)
        [] c.op = "incr" ->
             LET renewed == IF c.expire = None THEN expires ELSE Deadline(c.expire)
             IN  IF content # Nothing /\ content[1] = "json"
                 THEN Leaving(content, renewed, <<"error">>)  \* MULTI goes on to EXPIRE
                 ELSE Leaving(counted, renewed, counted)

\* Which counters a process has hit, and under which rules.
Hits(p, counter, c) ==
  IF c.op = "hit" /\ p \in Updaters THEN [hitBy EXCEPT ![p][counter] = @ \cup {c.version}]
  ELSE hitBy

\* The command c of process p takes effect in Redis.
RunInRedis(p, c, g) ==
  /\ redis' = [redis EXCEPT ![g] = Executed("redis", @, c).entry]
  /\ hitBy' = Hits(p, g, c)
  /\ strayed' = (strayed \/ (c.op = "hit" /\ c.version = "after" /\ g = 0))
-----------------------------------------------------------------------------
\* Process p's call ends with a reply, or with none.
End(p, reply) ==
  /\ call' = [call EXCEPT ![p] = Idle]
  /\ answer' = IF call[p].command.op = "get" THEN reply ELSE Silent
  /\ grants' = IF /\ subject = "counter" /\ reply[1] = "granted"
                  /\ updating[p] = "no" /\ counter_mode # "open"
               THEN [grants EXCEPT ![reply[2]] = @ + 1] ELSE grants

\* A full memory makes room for a new key, except where IP entries fill it.
MayRefuse(entry, c) == c.op \in {"set", "incr"} /\ Content(entry) = Nothing

\* A fallback that answers and keeps nothing.
AnswerWithoutRecord(p) ==
  LET c == call[p].command
  IN  /\ End(p, Executed("memory", fallback[p], c).reply)
      /\ UNCHANGED <<fallback, marks>>

\* The storage in memory takes the call.
AnswerFromMemory(p) ==
  LET c == call[p].command
      done == Executed("memory", fallback[p], c)
  IN  \/ /\ End(p, done.reply)
         /\ fallback' = [fallback EXCEPT ![p] = done.entry]
         /\ hitBy' = Hits(p, InMemory, c) /\ UNCHANGED strayed
      \/ /\ MayRefuse(fallback[p], c)
         /\ End(p, <<"unavailable">>) /\ UNCHANGED <<fallback, marks>>

\* The exception handlers: refuse to answer, answer as if there were no limit
\* and nothing stored, or let the process's own memory answer.
OnFailure(p) ==
  LET c == call[p].command
  IN  CASE FailureMode = "closed" -> End(p, <<"unavailable">>) /\ UNCHANGED <<fallback, marks>>
        [] FailureMode = "open" ->
             /\ End(p, CASE c.op = "hit" -> <<"granted", now>> [] c.op = "get" -> Nothing
                         [] c.op = "incr" -> <<"plain", 0>> [] OTHER -> <<"done">>)
             /\ UNCHANGED <<fallback, marks>>
        [] FailureMode = "local" -> AnswerFromMemory(p)
-----------------------------------------------------------------------------
Tick ==
  /\ now < MaxTime
  /\ now' = now + 1
  /\ UNCHANGED <<config, redis, fallback, call, wire, updates, marks, grants, known>> /\ Quiet

\* A request of process p reads its rules; their turn comes one by one.
ReadRules(p) ==
  /\ subject = "counter"
  /\ call[p] = Idle
  /\ call' = [call EXCEPT ![p] =
       [at |-> "evaluating", command |-> [op |-> "hit", version |-> RuleAt(p)]]]
  /\ UNCHANGED <<config, now, redis, fallback, wire, updates, marks, grants, known>> /\ Quiet

\* _build_counter_key, of which only the generation changes.
CounterKey(p) == generation[p]

\* The script is on its way.
SendHit(p) ==
  /\ call[p].at = "evaluating"
  /\ call' = [call EXCEPT ![p] =
       [at |-> "sent", command |-> call[p].command, key |-> CounterKey(p), alone |-> FALSE]]
  /\ UNCHANGED <<config, now, redis, fallback, wire, updates, marks, grants, known>> /\ Quiet

Writing(k) == k.at # "idle" /\ k.command.op # "get"
Alone(p) == abandoned = {} /\ \A q \in Processes \ {p} : ~Writing(call[q])

\* get, set, incr or delete of the key.  Until a write is acknowledged nobody
\* knows what it left, and not then if it was not alone.
SendCommand(p, c) ==
  /\ subject # "counter"
  /\ call[p] = Idle
  /\ call' = [q \in Processes |->
       IF q = p THEN [at |-> "sent", command |-> c, key |-> 0, alone |-> Alone(p)]
       ELSE IF c.op = "get" \/ call[q] = Idle THEN call[q] ELSE [call[q] EXCEPT !.alone = FALSE]]
  /\ known' = IF c.op = "get" THEN known ELSE Unknown
  /\ UNCHANGED <<config, now, redis, fallback, wire, updates, marks, grants>> /\ Quiet

\* What an acknowledged write left, and until when.
Left(c, reply) ==
  LET Entry(content) == [is |-> "left", content |-> content, expires |-> Deadline(c.expire)]
  IN  CASE c.op = "set" -> Entry(<<"json", 1>>)
        [] c.op = "delete" -> Entry(Nothing)
        [] c.op = "incr" -> IF c.expire = None THEN Unknown ELSE Entry(reply)

\* Redis runs what p sent and p has the reply.  INCR fails on a value that is no
\* number, which is a failure like any other.
Reply(p) ==
  LET k == call[p]
      reply == Executed("redis", redis[k.key], k.command).reply
  IN  /\ k.at = "sent"
      /\ RunInRedis(p, k.command, k.key)
      /\ IF reply = <<"error">> THEN OnFailure(p) ELSE End(p, reply) /\ UNCHANGED fallback
      /\ known' = IF Writing(k) /\ k.alone /\ reply # <<"error">> THEN Left(k.command, reply) ELSE known
      /\ UNCHANGED <<config, now, wire, updates>>

\* What p sent is lost or still on its way; nobody cares for a get.  A command
\* that ran and whose reply is lost is one that arrives at once.
GivenUp(p) ==
  LET sent == [process |-> p, command |-> call[p].command, key |-> call[p].key]
  IN  {abandoned} \cup IF call[p].at = "sent" /\ call[p].command.op # "get"
                       THEN {abandoned \cup {sent}} ELSE {}

Fault ==
  /\ faults + restarts + evictions < MaxFaults
  /\ faults' = faults + 1
  /\ UNCHANGED <<restarts, evictions>>

\* A connection error or a timeout.
Fail(p) ==
  /\ call[p].at = "sent"
  /\ Fault
  /\ abandoned' \in GivenUp(p)
  /\ OnFailure(p)
  /\ UNCHANGED <<config, now, redis, updates, known>>

\* The request is cancelled: CancelledError is no Exception, no handler runs.
Cancel(p) ==
  /\ call[p].at = "sent"
  /\ Fault
  /\ abandoned' \in GivenUp(p)
  /\ End(p, Silent)
  /\ UNCHANGED <<config, now, redis, fallback, updates, marks, known>>

\* A command that nobody waits for any more takes effect.
RunAbandoned(a) ==
  /\ RunInRedis(a.process, a.command, a.key)
  /\ abandoned' = abandoned \ {a}
  /\ UNCHANGED <<config, now, fallback, call, faults, restarts, evictions, updates, grants, known>> /\ Quiet
-----------------------------------------------------------------------------
\* The hit of another counter falls back on p's memory too, finds it full, and
\* takes the place of this one, which is a live counter.
Evict(p) ==
  /\ subject = "counter" /\ FailureMode = "local"
  /\ fallback[p] # Absent
  /\ faults + restarts + evictions < MaxFaults
  /\ evictions' = evictions + 1
  /\ fallback' = [fallback EXCEPT ![p] = Absent]
  /\ UNCHANGED <<config, now, redis, call, abandoned, faults, restarts, updates, marks, grants, known>>
  /\ Quiet

\* update_policy: the rules are swapped, the endpoint moves to fresh counters,
\* the fallback forgets the old ones.
Swap(p) ==
  /\ subject = "counter" /\ p \in Updaters
  /\ updating[p] = "no"
  /\ updating' = [updating EXCEPT ![p] = "swapped"]
  /\ late' = [late EXCEPT ![p] = IF call[p] = Idle THEN {} ELSE {call[p].command.version}]
  /\ UNCHANGED <<config, now, redis, fallback, call, wire, generation, marks, grants, known>> /\ Quiet

\* cleanup_handler_counters without the new namespace.
KeepGeneration(p) ==
  /\ updating[p] = "swapped"
  /\ updating' = [updating EXCEPT ![p] = "moved"]
  /\ UNCHANGED <<config, now, redis, fallback, call, wire, generation, late, marks, grants, known>> /\ Quiet

MoveOn(p) ==
  /\ updating[p] = "swapped"
  /\ updating' = [updating EXCEPT ![p] = "moved"]
  /\ generation' = [generation EXCEPT ![p] = @ + 1]
  /\ UNCHANGED <<config, now, redis, fallback, call, wire, late, marks, grants, known>> /\ Quiet

\* cleanup_handler_counters without the fallback.
KeepFallback(p) ==
  /\ updating[p] = "moved"
  /\ updating' = [updating EXCEPT ![p] = "done"]
  /\ UNCHANGED <<config, now, redis, fallback, call, wire, generation, late, marks, grants, known>> /\ Quiet

ClearFallback(p) ==
  /\ updating[p] = "moved"
  /\ updating' = [updating EXCEPT ![p] = "done"]
  /\ fallback' = [fallback EXCEPT ![p] = Absent]
  /\ hitBy' = [hitBy EXCEPT ![p][InMemory] = {}]
  /\ UNCHANGED <<config, now, redis, call, wire, generation, late, strayed, grants, known>> /\ Quiet

\* A process ends and starts again with the rule of start-up.  Redis keeps what
\* it wrote, and what it sent may still arrive.
Restart(p) ==
  /\ faults + restarts + evictions < MaxFaults
  /\ restarts' = restarts + 1
  /\ \E left \in GivenUp(p) :
       abandoned' = {[a EXCEPT !.process = IF @ = p THEN Nobody ELSE @] : a \in left}
  /\ call' = [call EXCEPT ![p] = Idle]
  /\ fallback' = [fallback EXCEPT ![p] = Absent]
  /\ generation' = [generation EXCEPT ![p] = 0]
  /\ updating' = [updating EXCEPT ![p] = "no"]
  /\ hitBy' = [q \in Updaters |-> [g \in DOMAIN hitBy[q] |-> IF q = p THEN {} ELSE hitBy[q][g]]]
  /\ late' = [q \in Updaters |-> IF q = p THEN {} ELSE late[q]]
  /\ UNCHANGED <<config, now, redis, faults, evictions, strayed, grants, known>> /\ Quiet
-----------------------------------------------------------------------------
\* The IP manager does not count.
Commands ==
  {[op |-> op, expire |-> None] : op \in {"get", "delete"}}
  \cup {[op |-> op, expire |-> e] :
          op \in IF subject = "ip" THEN {"set"} ELSE {"set", "incr"}, e \in Lifetimes \cup {None}}

Next ==
  \/ Tick
  \/ \E p \in Processes :
       \/ ReadRules(p) \/ SendHit(p)
       \/ \E c \in Commands : SendCommand(p, c)
       \/ Reply(p) \/ Fail(p) \/ Cancel(p)
       \/ Swap(p) \/ MoveOn(p) \/ ClearFallback(p)
       \/ Restart(p) \/ Evict(p)
  \/ \E a \in abandoned : RunAbandoned(a)

Spec == Init /\ [][Next]_vars
-----------------------------------------------------------------------------
\* The shape of the state: a call builds its key from a generation its process
\* has reached, and no memory is used in a mode that does not fall back on it.
TypeOK ==
  /\ now \in 0 .. MaxTime
  /\ FailureMode # "local" => \A p \in Processes : fallback[p] = Absent
  /\ \A p \in Processes :
       /\ generation[p] \in Generations
       /\ updating[p] \in {"no", "swapped"} <=> generation[p] = 0
       /\ call[p].at \in {"idle", "evaluating", "sent"}
       /\ call[p].at = "sent" => call[p].key \in 0 .. generation[p]
  /\ \A a \in abandoned : a.process \in Processes \cup {Nobody}
  /\ faults + restarts + evictions <= MaxFaults
  /\ grants \in [0 .. MaxTime -> Nat]

\* The grants of an instant, numbered, for each instant in W.
GrantsOf(W) == UNION {{t} \X (1 .. grants[t]) : t \in W}

\* At most n grants under the rule of start-up in any window, for a limit of n,
\* and at most n more for each memory, as often as it starts from nothing.
Within(memories) ==
  LET During(from) == {t \in DOMAIN grants : from <= t /\ t < from + Span(Before)}
  IN  \A from \in DOMAIN grants :
        Cardinality(GrantsOf(During(from))) <= Before.count * (1 + memories)

\* The processes that share a rule keep to its limit together when calls that
\* Redis does not answer are refused.  They exceed it by no more than once for
\* each memory that answers in its place, and once more whenever such a memory
\* has lost the counter, to a restart or because it was full (redis.py
\* record_hit, _handle_record_hit_failure, memory.py _evict_counters_if_needed),
\* whatever else is lost, recorded twice or cancelled - unless a hit under
\* another rule strayed into their counter.
GrantsBounded ==
  counter_mode # "open" /\ ~strayed =>
    Within(IF counter_mode = "closed" THEN 0 ELSE Cardinality(Processes) + restarts + evictions)

\* "Runtime configuration updates still remain process-local" (README.md): the
\* processes that have not updated keep their limit whatever another one does.
UpdatesStayLocal == counter_mode = "closed" => Within(0)

\* A process that has updated its rule counts afresh: among its own hits in the
\* counters it now uses, those under the old rule are of a request that was
\* being evaluated at the swap (redis.py cleanup_handler_counters).
UpdateStartsAfresh ==
  \A p \in Updaters : updating[p] = "done" =>
    hitBy[p][generation[p]] \cup hitBy[p][InMemory] \subseteq {RuleAt(p)} \cup late[p]

\* A read that overlaps no write is answered with what the last write left, as
\* long as that lasts, if Redis acknowledged that write; when the call fails and
\* the mode is closed it is not answered (redis.py get, _handle_get_failure).
\* Fail-open and fallback answers to a failed read promise nothing.
AcknowledgedSeen ==
  [][\A p \in Processes :
       LET k == call[p]
           mode == IF subject = "ip" THEN control_mode ELSE counter_mode
       IN  /\ k.at = "sent" /\ call'[p] = Idle
           /\ k.command.op = "get" /\ k.alone /\ known.is = "left"
           /\ mode = "closed" \/ faults' = faults
           => \/ answer' \in {Silent, <<"unavailable">>}
              \/ answer' = IF known.expires # None /\ known.expires <= now
                           THEN Nothing ELSE known.content]_vars
=============================================================================
