------------------------ MODULE RedisStorage_proofs -------------------------
(***************************************************************************)
(* Theorems about the storage in Redis, for every set of processes, every  *)
(* pair of rules, every number of faults and every length of time.         *)
(***************************************************************************)
EXTENDS RedisStorage, SlidingWindow_proofs, FiniteSetTheorems, TLAPS

Versions == {"before", "after"}

\* The commands that reach the subject, and where they may be.
SubjectCommands ==
  IF subject = "counter" THEN [op : {"hit"}, version : Versions] ELSE Commands

Calls ==
  {Idle} \cup [at : {"evaluating"}, command : SubjectCommands]
         \cup [at : {"sent"}, command : SubjectCommands, key : Generations,
               alone : IF subject = "counter" THEN {FALSE} ELSE BOOLEAN]

Shape ==
  /\ subject \in {"counter", "ip", "app"}
  /\ counter_mode \in {"open", "closed", "local"} /\ control_mode \in {"open", "closed", "local"}
  /\ now \in 0 .. MaxTime
  /\ redis = [g \in Generations |-> redis[g]]
  /\ fallback = [p \in Processes |-> fallback[p]]
  /\ generation \in [Processes -> Generations]
  /\ updating \in [Processes -> {"no", "swapped", "moved", "done"}]
  /\ call \in [Processes -> Calls]
  /\ abandoned \subseteq [process : Processes \cup {Nobody}, command : SubjectCommands,
                          key : Generations]
  /\ faults \in Nat /\ restarts \in Nat /\ evictions \in Nat
  /\ faults + restarts + evictions <= MaxFaults
  /\ grants \in [0 .. MaxTime -> Nat]
  /\ hitBy \in [Updaters -> [Generations \cup {InMemory} -> SUBSET Versions]]
  /\ late \in [Updaters -> SUBSET Versions]

\* Without the mode that falls back on it, no memory is used.
MemoriesUnused == FailureMode # "local" => \A p \in Processes : fallback[p] = Absent

\* A process counts in the counter it has reached, and only that of the first
\* rule exists until the update is half done.
KeysReached ==
  \A p \in Processes :
    /\ updating[p] \in {"no", "swapped"} <=> generation[p] = 0
    /\ subject # "counter" => updating[p] = "no"
    /\ call[p].at = "sent" => call[p].key <= generation[p]

\* The rules under which an updater may still count in its new counters.
Fresh(p) == {"after"} \cup late[p]

FreshAt(p) ==
  /\ generation[p] = 0 => hitBy[p][1] = {}
  /\ updating[p] # "no" => hitBy[p][1] \subseteq Fresh(p)
  /\ updating[p] = "done" => hitBy[p][InMemory] \subseteq Fresh(p)
  /\ updating[p] # "no" /\ call[p] # Idle => call[p].command.version \in Fresh(p)
  /\ \A a \in abandoned : a.process = p /\ a.key = 1 =>
       generation[p] = 1 /\ (subject = "counter" => a.command.version \in Fresh(p))

FreshCounters == \A p \in Updaters : FreshAt(p)

\* A call that is alone shares the key with no write.
AloneIsAlone ==
  \A p \in Processes : call[p].at = "sent" /\ call[p].alone => Alone(p)

\* The entry holds what the write left or, once that has expired, nothing.
Holds(entry, write) ==
  \/ entry.content = write.content /\ entry.expires = write.expires
  \/ entry.content = Nothing /\ write.expires # None /\ write.expires <= now

\* What a write may leave: a value until its deadline, or nothing.
Plausible(write) ==
  /\ write.expires \in Nat /\ write.content # <<"error">>
  /\ write.content = Nothing => write.expires = None

\* As long as the last acknowledged write is known no other is on its way, and
\* the key holds what it left or, when that has expired, nothing.
KnownIsThere ==
  known.is = "left" =>
    /\ subject # "counter"
    /\ abandoned = {} /\ \A p \in Processes : ~Writing(call[p])
    /\ Holds(redis[0], known) /\ Plausible(known)

RedisInv ==
  /\ Shape
  /\ MemoriesUnused
  /\ KeysReached
  /\ FreshCounters
  /\ AloneIsAlone
  /\ KnownIsThere
-----------------------------------------------------------------------------
LEMMA CallShape ==
  ASSUME Shape, NEW p \in Processes
  PROVE  /\ call[p] \in Calls
         /\ call[p].at \in {"idle", "evaluating", "sent"}
         /\ call[p].at = "idle" <=> call[p] = Idle
         /\ call[p].at # "idle" => call[p].command \in SubjectCommands
         /\ call[p].at = "sent" =>
              /\ call[p].key \in Generations /\ call[p].alone \in BOOLEAN
              /\ subject = "counter" => ~call[p].alone
  <1>1. call[p] \in Calls
    BY DEF Shape
  <1>2. CASE call[p] = Idle
    BY <1>1, <1>2 DEF Idle
  <1>3. CASE call[p] \in [at : {"evaluating"}, command : SubjectCommands]
    BY <1>1, <1>3 DEF Idle
  <1>4. CASE call[p] \in [at : {"sent"}, command : SubjectCommands, key : Generations,
                          alone : IF subject = "counter" THEN {FALSE} ELSE BOOLEAN]
    <2>1. /\ call[p].at = "sent" /\ call[p].command \in SubjectCommands
          /\ call[p].key \in Generations
          /\ call[p].alone \in IF subject = "counter" THEN {FALSE} ELSE BOOLEAN
      BY <1>4
    <2>2. call[p] # Idle
      BY <2>1 DEF Idle
    <2>3. call[p].alone \in BOOLEAN /\ (subject = "counter" => ~call[p].alone)
      BY <2>1
    <2> QED
      BY <1>1, <2>1, <2>2, <2>3
  <1> QED
    BY <1>1, <1>2, <1>3, <1>4 DEF Calls

\* However a call ends, it is over, and the log of grants keeps its shape.
LEMMA EndEffect ==
  ASSUME Shape, NEW p \in Processes, NEW reply, End(p, reply)
  PROVE  /\ call' = [call EXCEPT ![p] = Idle]
         /\ grants' \in [0 .. MaxTime -> Nat]
         /\ answer' = IF call[p].command.op = "get" THEN reply ELSE Silent
  <1>1. grants \in [0 .. MaxTime -> Nat]
    BY DEF Shape
  <1>2. \A t : [grants EXCEPT ![t] = @ + 1] \in [0 .. MaxTime -> Nat]
    <2> SUFFICES ASSUME NEW t
                 PROVE  [grants EXCEPT ![t] = @ + 1] \in [0 .. MaxTime -> Nat]
      OBVIOUS
    <2>1. CASE t \in 0 .. MaxTime
      BY <1>1, <2>1
    <2>2. CASE t \notin 0 .. MaxTime
      <3>1. [grants EXCEPT ![t] = @ + 1] = grants
        BY <1>1, <2>2
      <3> QED
        BY <1>1, <3>1
    <2> QED
      BY <2>1, <2>2
  <1>3. grants' \in [0 .. MaxTime -> Nat]
    BY <1>1, <1>2 DEF End
  <1> QED
    BY <1>3 DEF End

\* A failed call is over; a memory answers it in one mode only.
LEMMA FailureEffect ==
  ASSUME Shape, NEW p \in Processes, OnFailure(p)
  PROVE  /\ call' = [call EXCEPT ![p] = Idle]
         /\ grants' \in [0 .. MaxTime -> Nat]
         /\ \/ fallback' = fallback /\ hitBy' = hitBy
            \/ /\ FailureMode = "local"
               /\ \E entry : fallback' = [fallback EXCEPT ![p] = entry]
               /\ hitBy' = Hits(p, InMemory, call[p].command)
         /\ FailureMode = "closed" /\ call[p].command.op = "get" => answer' = <<"unavailable">>
  <1>1. FailureMode \in {"open", "closed", "local"}
    BY DEF Shape, FailureMode
  <1>2. CASE FailureMode = "closed"
    <2>1. End(p, <<"unavailable">>) /\ UNCHANGED <<fallback, marks>>
      BY <1>2 DEF OnFailure
    <2> QED
      BY <1>2, <2>1, EndEffect DEF marks
  <1>3. CASE FailureMode = "open"
    <2>1. PICK reply : End(p, reply) /\ UNCHANGED <<fallback, marks>>
      BY <1>3 DEF OnFailure
    <2> QED
      BY <1>3, <2>1, EndEffect DEF marks
  <1>4. CASE FailureMode = "local"
    <2>1. CASE \E done : /\ End(p, done.reply)
                         /\ fallback' = [fallback EXCEPT ![p] = done.entry]
                         /\ hitBy' = Hits(p, InMemory, call[p].command)
      BY <1>4, <2>1, EndEffect
    <2>2. CASE End(p, <<"unavailable">>) /\ UNCHANGED <<fallback, marks>>
      BY <1>4, <2>2, EndEffect DEF marks
    <2> QED
      BY <1>4, <2>1, <2>2 DEF OnFailure, AnswerFromMemory
  <1> QED
    BY <1>1, <1>2, <1>3, <1>4

\* The hits of an updater grow by the rule it hits under.
HitsGrow(p, counter, c) ==
  \A q \in Updaters, g \in Generations \cup {InMemory} :
    \/ Hits(p, counter, c)[q][g] = hitBy[q][g]
    \/ /\ q = p /\ g = counter /\ subject = "counter"
       /\ Hits(p, counter, c)[q][g] = hitBy[q][g] \cup {c.version}

LEMMA HitsShape ==
  ASSUME Shape, NEW p, NEW counter \in Generations \cup {InMemory},
         NEW c \in SubjectCommands
  PROVE  /\ Hits(p, counter, c) \in [Updaters -> [Generations \cup {InMemory} -> SUBSET Versions]]
         /\ HitsGrow(p, counter, c)
  <1>1. hitBy \in [Updaters -> [Generations \cup {InMemory} -> SUBSET Versions]]
    BY DEF Shape
  <1>2. CASE ~(c.op = "hit" /\ p \in Updaters)
    BY <1>1, <1>2 DEF Hits, HitsGrow
  <1>3. CASE c.op = "hit" /\ p \in Updaters
    <2>1. subject = "counter" /\ c.version \in Versions
      <3>1. \A d \in Commands : d.op # "hit"
        BY DEF Commands
      <3> QED
        BY <1>3, <3>1 DEF SubjectCommands
    <2>2. Hits(p, counter, c) = [hitBy EXCEPT ![p][counter] = @ \cup {c.version}]
      BY <1>3 DEF Hits
    <2>3. \A q \in Updaters : hitBy[q] \in [Generations \cup {InMemory} -> SUBSET Versions]
      BY <1>1
    <2>4. Hits(p, counter, c) =
            [q \in Updaters |-> [g \in Generations \cup {InMemory} |->
               IF q = p /\ g = counter THEN hitBy[q][g] \cup {c.version} ELSE hitBy[q][g]]]
      BY <1>1, <1>3, <2>2, <2>3, Zenon
    <2> QED
      BY <2>1, <2>3, <2>4 DEF HitsGrow
  <1> QED
    BY <1>2, <1>3

LEMMA GivenUpShape ==
  ASSUME Shape, NEW p \in Processes, NEW left \in GivenUp(p)
  PROVE  /\ left \subseteq [process : Processes \cup {Nobody}, command : SubjectCommands,
                            key : Generations]
         /\ \A a \in left : \/ a \in abandoned
                            \/ /\ call[p].at = "sent" /\ Writing(call[p])
                               /\ a = [process |-> p, command |-> call[p].command,
                                       key |-> call[p].key]
  <1> DEFINE sent == [process |-> p, command |-> call[p].command, key |-> call[p].key]
  <1>1. CASE left = abandoned
    BY <1>1 DEF Shape
  <1>2. CASE call[p].at = "sent" /\ call[p].command.op # "get" /\ left = abandoned \cup {sent}
    <2>1. call[p].command \in SubjectCommands /\ call[p].key \in Generations
      BY <1>2, CallShape
    <2> QED
      BY <1>2, <2>1 DEF Shape, Writing
  <1> QED
    BY <1>1, <1>2 DEF GivenUp
-----------------------------------------------------------------------------
\* What an action does to the state's shape, one action at a time.

\* No action changes what the behaviour follows.
LEMMA ConfigKept ==
  ASSUME config' = config
  PROVE  /\ subject' = subject /\ counter_mode' = counter_mode /\ control_mode' = control_mode
         /\ SubjectCommands' = SubjectCommands /\ Calls' = Calls /\ FailureMode' = FailureMode
  <1>1. subject' = subject /\ counter_mode' = counter_mode /\ control_mode' = control_mode
    BY DEF config
  <1>2. SubjectCommands' = SubjectCommands
    BY <1>1 DEF SubjectCommands, Commands
  <1>3. Calls' = Calls
    BY <1>1, <1>2 DEF Calls
  <1>4. FailureMode' = FailureMode
    BY <1>1 DEF FailureMode
  <1> QED
    BY <1>1, <1>2, <1>3, <1>4

\* A call that is over.
LEMMA IdleCalls ==
  ASSUME Shape, NEW p \in Processes
  PROVE  [call EXCEPT ![p] = Idle] \in [Processes -> Calls]
  BY DEF Shape, Calls

LEMMA FailureShape ==
  ASSUME Shape, NEW p \in Processes, OnFailure(p), call[p].at = "sent"
  PROVE  /\ call' \in [Processes -> Calls]
         /\ grants' \in [0 .. MaxTime -> Nat]
         /\ fallback' = [q \in Processes |-> fallback'[q]]
         /\ hitBy' \in [Updaters -> [Generations \cup {InMemory} -> SUBSET Versions]]
  <1>1. /\ call' = [call EXCEPT ![p] = Idle]
        /\ grants' \in [0 .. MaxTime -> Nat]
        /\ \/ fallback' = fallback /\ hitBy' = hitBy
           \/ /\ \E entry : fallback' = [fallback EXCEPT ![p] = entry]
              /\ hitBy' = Hits(p, InMemory, call[p].command)
    BY FailureEffect
  <1>2. fallback' = [q \in Processes |-> fallback'[q]]
    BY <1>1 DEF Shape
  <1>3. call[p].command \in SubjectCommands
    BY CallShape
  <1>4. hitBy' \in [Updaters -> [Generations \cup {InMemory} -> SUBSET Versions]]
    <2>1. InMemory \in Generations \cup {InMemory}
      OBVIOUS
    <2>2. Hits(p, InMemory, call[p].command)
            \in [Updaters -> [Generations \cup {InMemory} -> SUBSET Versions]]
      BY <1>3, <2>1, HitsShape
    <2>3. hitBy \in [Updaters -> [Generations \cup {InMemory} -> SUBSET Versions]]
      BY DEF Shape
    <2>4. hitBy' = hitBy \/ hitBy' = Hits(p, InMemory, call[p].command)
      BY <1>1
    <2> QED
      BY <2>2, <2>3, <2>4
  <1> QED
    BY <1>1, <1>2, <1>4, IdleCalls

LEMMA RunShape ==
  ASSUME Shape, NEW p, NEW c \in SubjectCommands, NEW g \in Generations, RunInRedis(p, c, g)
  PROVE  /\ redis' = [h \in Generations |-> redis'[h]]
         /\ hitBy' \in [Updaters -> [Generations \cup {InMemory} -> SUBSET Versions]]
         /\ hitBy' = Hits(p, g, c)
         /\ redis'[g] = Executed("redis", redis[g], c).entry
         /\ \A h \in Generations \ {g} : redis'[h] = redis[h]
  <1>1. redis' = [redis EXCEPT ![g] = Executed("redis", redis[g], c).entry] /\ hitBy' = Hits(p, g, c)
    BY DEF RunInRedis
  <1>2. redis = [h \in Generations |-> redis[h]]
    BY DEF Shape
  <1>3. hitBy' \in [Updaters -> [Generations \cup {InMemory} -> SUBSET Versions]]
    BY <1>1, HitsShape
  <1>4. PICK entry : entry = Executed("redis", redis[g], c).entry
    OBVIOUS
  <1>5. redis' = [h \in Generations |-> IF h = g THEN entry ELSE redis[h]]
    BY <1>1, <1>2, <1>4
  <1> QED
    BY <1>1, <1>3, <1>4, <1>5

LEMMA ShapeKept ==
  ASSUME Shape, KeysReached, [Next]_vars
  PROVE  Shape'
  <1>1. CASE Tick
    <2>1. now' \in 0 .. MaxTime
      BY <1>1, RedisAssumption DEF Tick, Shape
    <2> QED
      BY <1>1, <2>1, ConfigKept DEF Tick, Shape, config, wire, updates, marks
  <1>2. ASSUME NEW p \in Processes, ReadRules(p)
        PROVE  Shape'
    <2>1. [at |-> "evaluating", command |-> [op |-> "hit", version |-> RuleAt(p)]] \in Calls
      BY <1>2 DEF ReadRules, RuleAt, Calls, SubjectCommands, Versions
    <2>2. call' \in [Processes -> Calls]
      BY <1>2, <2>1 DEF ReadRules, Shape
    <2> QED
      BY <1>2, <2>2, ConfigKept DEF ReadRules, Shape, config, wire, updates, marks
  <1>3. ASSUME NEW p \in Processes, SendHit(p)
        PROVE  Shape'
    <2>1. call[p].command \in SubjectCommands /\ generation[p] \in Generations
      BY <1>3, CallShape DEF SendHit, Shape
    <2>2. [at |-> "sent", command |-> call[p].command, key |-> CounterKey(p), alone |-> FALSE] \in Calls
      BY <2>1 DEF CounterKey, Calls
    <2>3. call' \in [Processes -> Calls]
      BY <1>3, <2>2 DEF SendHit, Shape
    <2> QED
      BY <1>3, <2>3, ConfigKept DEF SendHit, Shape, config, wire, updates, marks
  <1>4. ASSUME NEW p \in Processes, NEW c \in Commands, SendCommand(p, c)
        PROVE  Shape'
    <2>1. c \in SubjectCommands /\ subject # "counter"
      BY <1>4 DEF SendCommand, SubjectCommands
    <2>2. [at |-> "sent", command |-> c, key |-> 0, alone |-> Alone(p)] \in Calls
      <3>1. Alone(p) \in BOOLEAN
        BY DEF Alone
      <3> QED
        BY <2>1, <3>1 DEF Calls, Generations
    <2>3. ASSUME NEW q \in Processes, call[q] # Idle
          PROVE  [call[q] EXCEPT !.alone = FALSE] \in Calls
      <3>1. CASE call[q] \in [at : {"evaluating"}, command : SubjectCommands]
        <4>1. [call[q] EXCEPT !.alone = FALSE] = call[q]
          BY <3>1
        <4> QED
          BY <3>1, <4>1 DEF Calls
      <3>2. CASE call[q] \in [at : {"sent"}, command : SubjectCommands, key : Generations,
                              alone : IF subject = "counter" THEN {FALSE} ELSE BOOLEAN]
        BY <3>2 DEF Calls
      <3> QED
        BY <2>3, <3>1, <3>2, CallShape DEF Calls
    <2>4. call' \in [Processes -> Calls]
      <3>1. \A q \in Processes : call[q] \in Calls
        BY CallShape
      <3> QED
        BY <1>4, <2>2, <2>3, <3>1 DEF SendCommand
    <2> QED
      BY <1>4, <2>4, ConfigKept DEF SendCommand, Shape, config, wire, updates, marks
  <1>5. ASSUME NEW p \in Processes, Reply(p)
        PROVE  Shape'
    <2>1. /\ call[p].at = "sent" /\ call[p].command \in SubjectCommands
          /\ call[p].key \in Generations
      BY <1>5, CallShape DEF Reply
    <2>2. /\ redis' = [h \in Generations |-> redis'[h]]
          /\ hitBy' \in [Updaters -> [Generations \cup {InMemory} -> SUBSET Versions]]
      BY <1>5, <2>1, RunShape DEF Reply
    <2>3. /\ call' \in [Processes -> Calls] /\ grants' \in [0 .. MaxTime -> Nat]
          /\ fallback' = [q \in Processes |-> fallback'[q]]
      <3>1. CASE OnFailure(p)
        BY <2>1, <3>1, FailureShape
      <3>2. CASE ~OnFailure(p)
        <4>1. PICK reply : End(p, reply) /\ UNCHANGED fallback
          BY <1>5, <3>2 DEF Reply
        <4> QED
          BY <4>1, EndEffect, IdleCalls DEF Shape
      <3> QED
        BY <3>1, <3>2
    <2> QED
      BY <1>5, <2>2, <2>3, ConfigKept DEF Reply, Shape, wire, updates
  <1>6. ASSUME NEW p \in Processes, Fail(p)
        PROVE  Shape'
    <2>1. /\ call' \in [Processes -> Calls] /\ grants' \in [0 .. MaxTime -> Nat]
          /\ fallback' = [q \in Processes |-> fallback'[q]]
          /\ hitBy' \in [Updaters -> [Generations \cup {InMemory} -> SUBSET Versions]]
      BY <1>6, FailureShape DEF Fail
    <2>2. abandoned' \subseteq [process : Processes \cup {Nobody}, command : SubjectCommands,
                                key : Generations]
      BY <1>6, GivenUpShape DEF Fail
    <2>3. /\ faults' \in Nat /\ restarts' \in Nat /\ evictions' \in Nat
          /\ faults' + restarts' + evictions' <= MaxFaults
      BY <1>6, RedisAssumption DEF Fail, Fault, Shape
    <2> QED
      BY <1>6, <2>1, <2>2, <2>3, ConfigKept DEF Fail, Shape, updates
  <1>7. ASSUME NEW p \in Processes, Cancel(p)
        PROVE  Shape'
    <2>1. call' \in [Processes -> Calls] /\ grants' \in [0 .. MaxTime -> Nat]
      BY <1>7, EndEffect, IdleCalls DEF Cancel
    <2>2. abandoned' \subseteq [process : Processes \cup {Nobody}, command : SubjectCommands,
                                key : Generations]
      BY <1>7, GivenUpShape DEF Cancel
    <2>3. /\ faults' \in Nat /\ restarts' \in Nat /\ evictions' \in Nat
          /\ faults' + restarts' + evictions' <= MaxFaults
      BY <1>7, RedisAssumption DEF Cancel, Fault, Shape
    <2> QED
      BY <1>7, <2>1, <2>2, <2>3, ConfigKept DEF Cancel, Shape, updates, marks
  <1>8. ASSUME NEW p \in Processes, Swap(p)
        PROVE  Shape'
    <2>1. call[p] = Idle \/ call[p].command.version \in Versions
      BY <1>8, CallShape DEF Swap, SubjectCommands
    <2>2. late' \in [Updaters -> SUBSET Versions]
      BY <1>8, <2>1 DEF Swap, Shape
    <2>3. updating' \in [Processes -> {"no", "swapped", "moved", "done"}]
      BY <1>8 DEF Swap, Shape
    <2> QED
      BY <1>8, <2>2, <2>3, ConfigKept DEF Swap, Shape, wire, marks
  <1>9. ASSUME NEW p \in Processes, MoveOn(p), KeysReached
        PROVE  Shape'
    <2>1. generation' \in [Processes -> Generations]
      BY <1>9 DEF MoveOn, Shape, KeysReached, Generations
    <2>2. updating' \in [Processes -> {"no", "swapped", "moved", "done"}]
      BY <1>9 DEF MoveOn, Shape
    <2> QED
      BY <1>9, <2>1, <2>2, ConfigKept DEF MoveOn, Shape, wire, marks
  <1>10. ASSUME NEW p \in Processes, ClearFallback(p)
         PROVE  Shape'
    <2>1. updating' \in [Processes -> {"no", "swapped", "moved", "done"}]
      BY <1>10 DEF ClearFallback, Shape
    <2>2. fallback' = [q \in Processes |-> fallback'[q]]
      BY <1>10 DEF ClearFallback, Shape
    <2>3. hitBy' \in [Updaters -> [Generations \cup {InMemory} -> SUBSET Versions]]
      BY <1>10 DEF ClearFallback, Shape
    <2> QED
      BY <1>10, <2>1, <2>2, <2>3, ConfigKept DEF ClearFallback, Shape, wire
  <1>11. ASSUME NEW p \in Processes, Restart(p)
         PROVE  Shape'
    <2>1. PICK left \in GivenUp(p) :
            abandoned' = {[a EXCEPT !.process = IF @ = p THEN Nobody ELSE @] : a \in left}
      BY <1>11 DEF Restart
    <2>2. abandoned' \subseteq [process : Processes \cup {Nobody}, command : SubjectCommands,
                                key : Generations]
      BY <2>1, GivenUpShape
    <2>3. /\ faults' \in Nat /\ restarts' \in Nat /\ evictions' \in Nat
          /\ faults' + restarts' + evictions' <= MaxFaults
      BY <1>11, RedisAssumption DEF Restart, Shape
    <2>4. /\ generation' \in [Processes -> Generations]
          /\ updating' \in [Processes -> {"no", "swapped", "moved", "done"}]
          /\ call' \in [Processes -> Calls]
          /\ fallback' = [q \in Processes |-> fallback'[q]]
      BY <1>11, IdleCalls DEF Restart, Shape, Generations
    <2>5. /\ hitBy' \in [Updaters -> [Generations \cup {InMemory} -> SUBSET Versions]]
          /\ late' \in [Updaters -> SUBSET Versions]
      BY <1>11 DEF Restart, Shape
    <2> QED
      BY <1>11, <2>2, <2>3, <2>4, <2>5, ConfigKept DEF Restart, Shape
  <1>12. ASSUME NEW a \in abandoned, RunAbandoned(a)
         PROVE  Shape'
    <2>1. a.command \in SubjectCommands /\ a.key \in Generations
      BY DEF Shape
    <2>2. /\ redis' = [h \in Generations |-> redis'[h]]
          /\ hitBy' \in [Updaters -> [Generations \cup {InMemory} -> SUBSET Versions]]
      BY <1>12, <2>1, RunShape DEF RunAbandoned
    <2> QED
      BY <1>12, <2>2, ConfigKept DEF RunAbandoned, Shape, updates
  <1>13. CASE UNCHANGED vars
    BY <1>13, ConfigKept DEF Shape, vars, config, wire, updates, marks
  <1>14. ASSUME NEW p \in Processes, Evict(p)
         PROVE  Shape'
    <2>1. /\ faults' \in Nat /\ restarts' \in Nat /\ evictions' \in Nat
          /\ faults' + restarts' + evictions' <= MaxFaults
      BY <1>14, RedisAssumption DEF Evict, Shape
    <2>2. fallback' = [q \in Processes |-> fallback'[q]]
      BY <1>14 DEF Evict, Shape
    <2> QED
      BY <1>14, <2>1, <2>2, ConfigKept DEF Evict, Shape, updates, marks
  <1> QED
    BY <1>1, <1>2, <1>3, <1>4, <1>5, <1>6, <1>7, <1>8, <1>9, <1>10, <1>11, <1>12, <1>13, <1>14
    DEF Next
-----------------------------------------------------------------------------
\* What the actions have in common: who ends a call, who runs a command.

\* A memory changes only in the mode that falls back on it, or is emptied.
LEMMA MemoriesKept ==
  ASSUME Shape, MemoriesUnused, [Next]_vars
  PROVE  MemoriesUnused'
  <1> SUFFICES ASSUME FailureMode' # "local", NEW q \in Processes
               PROVE  fallback'[q] = Absent
    BY DEF MemoriesUnused
  <1>1. config' = config
    BY DEF Next, Tick, ReadRules, SendHit, SendCommand, Reply, Fail, Cancel, Swap, MoveOn,
           ClearFallback, Restart, Evict, RunAbandoned, vars
  <1>2. FailureMode # "local" /\ fallback[q] = Absent
    BY <1>1, ConfigKept DEF MemoriesUnused
  <1>3. fallback = [p \in Processes |-> fallback[p]]
    BY DEF Shape
  <1>4. ASSUME NEW p \in Processes, OnFailure(p)
        PROVE  fallback' = fallback
    BY <1>2, <1>4, FailureEffect
  <1>5. ASSUME NEW p \in Processes, Reply(p) \/ Fail(p) \/ Cancel(p)
        PROVE  fallback' = fallback
    BY <1>4, <1>5 DEF Reply, Fail, Cancel
  <1>6. ASSUME NEW p \in Processes, ClearFallback(p) \/ Restart(p) \/ Evict(p)
        PROVE  fallback'[q] = Absent
    BY <1>2, <1>3, <1>6 DEF ClearFallback, Restart, Evict
  <1> QED
    BY <1>2, <1>5, <1>6 DEF Next, Tick, ReadRules, SendHit, SendCommand, Swap, MoveOn,
                            RunAbandoned, vars

\* The end of a call, in every action that ends one.
LEMMA EndsCall ==
  ASSUME Shape, NEW p \in Processes, Reply(p) \/ Fail(p) \/ Cancel(p)
  PROVE  call' = [call EXCEPT ![p] = Idle] /\ call[p].at = "sent"
  <1>1. CASE Fail(p)
    BY <1>1, FailureEffect DEF Fail
  <1>2. CASE Cancel(p)
    BY <1>2, EndEffect DEF Cancel
  <1>3. CASE Reply(p)
    <2>1. CASE OnFailure(p)
      BY <1>3, <2>1, FailureEffect DEF Reply
    <2>2. CASE ~OnFailure(p)
      <3>1. PICK reply : End(p, reply)
        BY <1>3, <2>2 DEF Reply
      <3> QED
        BY <1>3, <3>1, EndEffect DEF Reply
    <2> QED
      BY <2>1, <2>2
  <1> QED
    BY <1>1, <1>2, <1>3

LEMMA KeysReachedKept ==
  ASSUME Shape, KeysReached, [Next]_vars
  PROVE  KeysReached'
  <1> SUFFICES ASSUME NEW q \in Processes
               PROVE  /\ updating'[q] \in {"no", "swapped"} <=> generation'[q] = 0
                      /\ subject' # "counter" => updating'[q] = "no"
                      /\ call'[q].at = "sent" => call'[q].key <= generation'[q]
    BY DEF KeysReached
  <1>0. /\ updating[q] \in {"no", "swapped"} <=> generation[q] = 0
        /\ subject # "counter" => updating[q] = "no"
        /\ call[q].at = "sent" => call[q].key <= generation[q]
        /\ generation[q] \in {0, 1}
    BY DEF KeysReached, Shape, Generations
  <1>00. call[q] \in Calls /\ Idle.at = "idle"
    BY CallShape DEF Idle
  <1>1. ASSUME NEW p \in Processes, ReadRules(p)
        PROVE  call'[q].at = "sent" => call'[q] = call[q]
    BY <1>1 DEF ReadRules, Shape
  <1>2. ASSUME NEW p \in Processes, SendHit(p)
        PROVE  call'[q].at = "sent" => call'[q] = call[q] \/ call'[q].key = generation[q]
    BY <1>2 DEF SendHit, CounterKey, Shape
  <1>3. ASSUME NEW p \in Processes, NEW c \in Commands, SendCommand(p, c)
        PROVE  call'[q].at = "sent" => call'[q].key = 0 \/ (call[q].at = "sent" /\ call'[q].key = call[q].key)
    <2>1. CASE q = p
      BY <1>3, <2>1 DEF SendCommand
    <2>2. CASE q # p /\ call'[q] = call[q]
      BY <2>2
    <2>3. CASE q # p /\ call'[q] = [call[q] EXCEPT !.alone = FALSE]
      BY <2>3
    <2> QED
      BY <1>3, <2>1, <2>2, <2>3 DEF SendCommand
  <1>4. ASSUME NEW p \in Processes, Reply(p) \/ Fail(p) \/ Cancel(p)
        PROVE  call'[q].at = "sent" => call'[q] = call[q]
    BY <1>00, <1>4, EndsCall DEF Shape
  <1>5. ASSUME NEW p \in Processes, Swap(p)
        PROVE  updating'[q] = updating[q] \/ (updating[q] = "no" /\ updating'[q] = "swapped" /\ subject = "counter")
    BY <1>5 DEF Swap, Shape
  <1>6. ASSUME NEW p \in Processes, MoveOn(p)
        PROVE  \/ updating'[q] = updating[q] /\ generation'[q] = generation[q]
               \/ updating[q] = "swapped" /\ updating'[q] = "moved" /\ generation'[q] = generation[q] + 1
    BY <1>6 DEF MoveOn, Shape
  <1>7. ASSUME NEW p \in Processes, ClearFallback(p)
        PROVE  updating'[q] = updating[q] \/ (updating[q] = "moved" /\ updating'[q] = "done")
    BY <1>7 DEF ClearFallback, Shape
  <1>8. ASSUME NEW p \in Processes, Restart(p)
        PROVE  \/ updating'[q] = updating[q] /\ generation'[q] = generation[q] /\ call'[q] = call[q]
               \/ updating'[q] = "no" /\ generation'[q] = 0 /\ call'[q] = Idle
    BY <1>8 DEF Restart, Shape
  <1>9. subject' = subject
    BY ConfigKept DEF Next, Tick, ReadRules, SendHit, SendCommand, Reply, Fail, Cancel, Swap,
                      MoveOn, ClearFallback, Restart, Evict, RunAbandoned, vars
  <1>10. CASE \E p \in Processes : \/ ReadRules(p) \/ SendHit(p)
                                   \/ \E c \in Commands : SendCommand(p, c)
    <2>1. updating' = updating /\ generation' = generation
      BY <1>10 DEF ReadRules, SendHit, SendCommand, updates
    <2>2. call'[q].at = "sent" => \/ call'[q].key = generation[q] \/ call'[q].key = 0
                                  \/ call[q].at = "sent" /\ call'[q].key = call[q].key
      BY <1>1, <1>2, <1>3, <1>10
    <2> QED
      BY <1>0, <1>9, <2>1, <2>2
  <1>11. CASE \E p \in Processes : Reply(p) \/ Fail(p) \/ Cancel(p)
    <2>1. updating' = updating /\ generation' = generation
      BY <1>11 DEF Reply, Fail, Cancel, updates
    <2> QED
      BY <1>0, <1>4, <1>9, <1>11, <2>1
  <1>12. CASE \E p \in Processes : Swap(p)
    <2>1. call' = call /\ generation' = generation
      BY <1>12 DEF Swap
    <2> QED
      BY <1>0, <1>5, <1>9, <1>12, <2>1
  <1>13. CASE \E p \in Processes : MoveOn(p)
    <2>1. call' = call
      BY <1>13 DEF MoveOn
    <2>2. \/ updating'[q] = updating[q] /\ generation'[q] = generation[q]
          \/ updating[q] = "swapped" /\ updating'[q] = "moved" /\ generation'[q] = 1
      BY <1>0, <1>6, <1>13
    <2>3. call[q].at = "sent" => call[q].key \in {0, 1}
      BY CallShape DEF Generations
    <2> QED
      BY <1>0, <1>9, <2>1, <2>2, <2>3
  <1>14. CASE \E p \in Processes : ClearFallback(p)
    <2>1. call' = call /\ generation' = generation
      BY <1>14 DEF ClearFallback
    <2> QED
      BY <1>0, <1>7, <1>9, <1>14, <2>1
  <1>15. CASE \E p \in Processes : Restart(p)
    BY <1>0, <1>00, <1>8, <1>9, <1>15
  <1>16. CASE \/ Tick \/ (\E a \in abandoned : RunAbandoned(a)) \/ UNCHANGED vars
              \/ \E p \in Processes : Evict(p)
    <2>1. updating' = updating /\ generation' = generation /\ call' = call
      BY <1>16 DEF Tick, RunAbandoned, Evict, vars, updates
    <2> QED
      BY <1>0, <1>9, <2>1
  <1> QED
    BY <1>10, <1>11, <1>12, <1>13, <1>14, <1>15, <1>16 DEF Next
-----------------------------------------------------------------------------
\* An updater and its new counters.

\* What one more hit of process p by the command c does to them.
LEMMA HitStaysFresh ==
  ASSUME Shape, NEW q \in Updaters, FreshAt(q), NEW p, NEW c \in SubjectCommands,
         NEW counter \in Generations \cup {InMemory}, hitBy' = Hits(p, counter, c),
         generation' = generation, updating' = updating, late' = late,
         p = q /\ counter = 1 /\ subject = "counter" =>
           generation[q] = 1 /\ c.version \in Fresh(q),
         p = q /\ counter = InMemory /\ updating[q] = "done" /\ subject = "counter" =>
           c.version \in Fresh(q)
  PROVE  /\ generation'[q] = 0 => hitBy'[q][1] = {}
         /\ updating'[q] # "no" => hitBy'[q][1] \subseteq Fresh(q)'
         /\ updating'[q] = "done" => hitBy'[q][InMemory] \subseteq Fresh(q)'
         /\ Fresh(q)' = Fresh(q)
  <1>1. 1 \in Generations \cup {InMemory} /\ InMemory \in Generations \cup {InMemory} /\ InMemory # 1
    BY DEF Generations, InMemory
  <1>2. Fresh(q)' = Fresh(q)
    BY DEF Fresh
  <1>3. \A g \in Generations \cup {InMemory} :
          \/ hitBy'[q][g] = hitBy[q][g]
          \/ q = p /\ g = counter /\ subject = "counter" /\ hitBy'[q][g] = hitBy[q][g] \cup {c.version}
    <2>1. HitsGrow(p, counter, c)
      BY HitsShape
    <2> QED
      BY <2>1 DEF HitsGrow
  <1>4. \/ hitBy'[q][1] = hitBy[q][1]
        \/ /\ generation[q] = 1 /\ c.version \in Fresh(q)
           /\ hitBy'[q][1] = hitBy[q][1] \cup {c.version}
    BY <1>1, <1>3
  <1>5. updating[q] = "done" =>
          \/ hitBy'[q][InMemory] = hitBy[q][InMemory]
          \/ /\ c.version \in Fresh(q)
             /\ hitBy'[q][InMemory] = hitBy[q][InMemory] \cup {c.version}
    BY <1>1, <1>3
  <1> QED
    BY <1>2, <1>4, <1>5 DEF FreshAt

\* The call of an updater that counts in its new counter.
LEMMA CalledFresh ==
  ASSUME Shape, KeysReached, NEW q \in Updaters, FreshAt(q), call[q].at = "sent"
  PROVE  /\ call[q].key = 1 => generation[q] = 1
         /\ call[q].key = 1 \/ updating[q] = "done" => call[q].command.version \in Fresh(q)
  <1>1. q \in Processes /\ call[q] # Idle
    BY RedisAssumption DEF Idle
  <1>2. call[q].key = 1 => generation[q] = 1 /\ updating[q] # "no"
    BY <1>1 DEF KeysReached, Shape, Generations
  <1> QED
    BY <1>1, <1>2 DEF FreshAt

LEMMA FreshCountersKept ==
  ASSUME Shape, KeysReached, FreshCounters, [Next]_vars
  PROVE  FreshCounters'
  <1> SUFFICES ASSUME NEW q \in Updaters
               PROVE  FreshAt(q)'
    BY DEF FreshCounters
  <1>0. /\ FreshAt(q) /\ q \in Processes /\ q # Nobody
        /\ updating[q] \in {"no", "swapped"} <=> generation[q] = 0
        /\ subject # "counter" => updating[q] = "no"
        /\ generation[q] \in {0, 1}
    BY RedisAssumption DEF FreshCounters, KeysReached, Shape, Generations
  <1>1. subject' = subject
    BY ConfigKept DEF Next, Tick, ReadRules, SendHit, SendCommand, Reply, Fail, Cancel, Swap,
                      MoveOn, ClearFallback, Restart, Evict, RunAbandoned, vars
  \* Nothing but the calls changes.
  <1>2. ASSUME UNCHANGED <<wire, updates, marks>>,
               call'[q] = Idle \/ (updating[q] # "no" => call'[q].command.version \in Fresh(q))
        PROVE  FreshAt(q)'
    BY <1>0, <1>1, <1>2 DEF FreshAt, Fresh, wire, updates, marks
  <1>3. CASE Tick \/ UNCHANGED vars
    <2>1. UNCHANGED <<wire, updates, marks>> /\ call' = call
      BY <1>3 DEF Tick, vars
    <2> QED
      BY <1>0, <1>2, <2>1 DEF FreshAt
  <1>4. ASSUME NEW p \in Processes, ReadRules(p)
        PROVE  FreshAt(q)'
    <2>1. call'[q] = call[q] \/ (q = p /\ call'[q].command.version = RuleAt(q))
      BY <1>0, <1>4 DEF ReadRules, Shape
    <2>2. updating[q] # "no" => RuleAt(q) \in Fresh(q)
      BY DEF RuleAt, Fresh
    <2> QED
      BY <1>0, <1>2, <1>4, <2>1, <2>2 DEF FreshAt, ReadRules
  <1>5. ASSUME NEW p \in Processes, SendHit(p)
        PROVE  FreshAt(q)'
    <2>1. call'[q] = call[q] \/ (call[q].at = "evaluating" /\ call'[q].command = call[q].command)
      BY <1>0, <1>5 DEF SendHit, Shape
    <2>2. call[q].at = "evaluating" => call[q] # Idle
      BY DEF Idle
    <2> QED
      BY <1>0, <1>2, <1>5, <2>1, <2>2 DEF FreshAt, SendHit
  <1>6. ASSUME NEW p \in Processes, NEW c \in Commands, SendCommand(p, c)
        PROVE  FreshAt(q)'
    <2>1. UNCHANGED <<wire, updates, marks>> /\ updating[q] = "no"
      BY <1>0, <1>6 DEF SendCommand
    <2> QED
      BY <1>2, <2>1
  <1>7. ASSUME NEW p \in Processes, Reply(p)
        PROVE  FreshAt(q)'
    <2>1. /\ call' = [call EXCEPT ![p] = Idle] /\ call[p].at = "sent"
          /\ call[p].command \in SubjectCommands /\ call[p].key \in Generations
      BY <1>7, EndsCall, CallShape
    <2>2. hitBy' = Hits(p, call[p].key, call[p].command)
      BY <1>7, <2>1, RunShape DEF Reply
    <2>3. call[p].key # InMemory
      BY <2>1 DEF Generations, InMemory
    <2>4. /\ generation' = generation /\ updating' = updating /\ late' = late
          /\ abandoned' = abandoned
      BY <1>7 DEF Reply, updates, wire
    <2>5. p = q /\ call[p].key = 1 => generation[q] = 1 /\ call[p].command.version \in Fresh(q)
      BY <1>0, <2>1, CalledFresh
    <2>6. /\ generation'[q] = 0 => hitBy'[q][1] = {}
          /\ updating'[q] # "no" => hitBy'[q][1] \subseteq Fresh(q)'
          /\ updating'[q] = "done" => hitBy'[q][InMemory] \subseteq Fresh(q)'
          /\ Fresh(q)' = Fresh(q)
      BY <1>0, <2>1, <2>2, <2>3, <2>4, <2>5, HitStaysFresh
    <2>7. call'[q] = Idle \/ call'[q] = call[q]
      BY <1>0, <2>1 DEF Shape
    <2> QED
      BY <1>0, <1>1, <2>4, <2>6, <2>7 DEF FreshAt
  <1>8. ASSUME NEW p \in Processes, Fail(p) \/ Cancel(p)
        PROVE  FreshAt(q)'
    <2>1. /\ call' = [call EXCEPT ![p] = Idle] /\ call[p].at = "sent"
          /\ call[p].command \in SubjectCommands
      BY <1>8, EndsCall, CallShape
    <2>2. hitBy' = hitBy \/ hitBy' = Hits(p, InMemory, call[p].command)
      BY <1>8, FailureEffect DEF Fail, Cancel, marks
    <2>3. generation' = generation /\ updating' = updating /\ late' = late
      BY <1>8 DEF Fail, Cancel, updates
    <2>4. p = q /\ updating[q] = "done" => call[p].command.version \in Fresh(q)
      BY <1>0, <2>1, CalledFresh
    <2>5. /\ generation'[q] = 0 => hitBy'[q][1] = {}
          /\ updating'[q] # "no" => hitBy'[q][1] \subseteq Fresh(q)'
          /\ updating'[q] = "done" => hitBy'[q][InMemory] \subseteq Fresh(q)'
          /\ Fresh(q)' = Fresh(q)
      <3>1. CASE hitBy' = hitBy
        BY <1>0, <2>3, <3>1 DEF FreshAt, Fresh
      <3>2. CASE hitBy' = Hits(p, InMemory, call[p].command)
        <4>1. InMemory \in Generations \cup {InMemory} /\ InMemory # 1
          BY DEF InMemory
        <4> QED
          BY <1>0, <2>1, <2>3, <2>4, <3>2, <4>1, HitStaysFresh
      <3> QED
        BY <2>2, <3>1, <3>2
    <2>6. call'[q] = Idle \/ call'[q] = call[q]
      BY <1>0, <2>1 DEF Shape
    <2>7. ASSUME NEW a \in abandoned', a.process = q, a.key = 1
          PROVE  generation[q] = 1 /\ (subject = "counter" => a.command.version \in Fresh(q))
      <3>1. abandoned' \in GivenUp(p)
        BY <1>8 DEF Fail, Cancel
      <3>2. \/ a \in abandoned
            \/ a = [process |-> p, command |-> call[p].command, key |-> call[p].key]
        BY <3>1, GivenUpShape
      <3> QED
        BY <1>0, <2>1, <2>7, <3>2, CalledFresh DEF FreshAt
    <2> QED
      BY <1>0, <1>1, <2>3, <2>5, <2>6, <2>7 DEF FreshAt
  <1>9. ASSUME NEW a \in abandoned, RunAbandoned(a)
        PROVE  FreshAt(q)'
    <2>1. a.command \in SubjectCommands /\ a.key \in Generations
      BY DEF Shape
    <2>2. hitBy' = Hits(a.process, a.key, a.command)
      BY <1>9, <2>1, RunShape DEF RunAbandoned
    <2>3. a.key # InMemory
      BY <2>1 DEF Generations, InMemory
    <2>4. /\ generation' = generation /\ updating' = updating /\ late' = late
          /\ abandoned' \subseteq abandoned /\ call' = call
      BY <1>9 DEF RunAbandoned, updates
    <2>5. a.process = q /\ a.key = 1 /\ subject = "counter" =>
            generation[q] = 1 /\ a.command.version \in Fresh(q)
      BY <1>0 DEF FreshAt
    <2>6. /\ generation'[q] = 0 => hitBy'[q][1] = {}
          /\ updating'[q] # "no" => hitBy'[q][1] \subseteq Fresh(q)'
          /\ updating'[q] = "done" => hitBy'[q][InMemory] \subseteq Fresh(q)'
          /\ Fresh(q)' = Fresh(q)
      BY <1>0, <2>1, <2>2, <2>3, <2>4, <2>5, HitStaysFresh
    <2> QED
      BY <1>0, <1>1, <2>4, <2>6 DEF FreshAt
  <1>10. ASSUME NEW p \in Processes, Swap(p)
         PROVE  FreshAt(q)'
    <2>1. UNCHANGED <<generation, hitBy, abandoned, call>>
      BY <1>10 DEF Swap, wire, marks
    <2>2. CASE p # q
      <3>1. updating'[q] = updating[q] /\ late'[q] = late[q]
        BY <1>10, <2>2 DEF Swap, Shape
      <3> QED
        BY <1>0, <1>1, <2>1, <3>1 DEF FreshAt, Fresh
    <2>3. CASE p = q
      <3>1. /\ updating[q] = "no" /\ updating'[q] = "swapped"
            /\ call[q] # Idle => call[q].command.version \in late'[q]
        BY <1>0, <1>10, <2>3 DEF Swap, Shape
      <3> QED
        BY <1>0, <1>1, <2>1, <3>1 DEF FreshAt, Fresh
    <2> QED
      BY <2>2, <2>3
  <1>11. ASSUME NEW p \in Processes, MoveOn(p)
         PROVE  FreshAt(q)'
    <2>1. UNCHANGED <<hitBy, abandoned, call, late>>
      BY <1>11 DEF MoveOn, wire, marks
    <2>2. \/ updating'[q] = updating[q] /\ generation'[q] = generation[q]
          \/ /\ updating[q] = "swapped" /\ updating'[q] = "moved"
             /\ generation'[q] = generation[q] + 1
      BY <1>0, <1>11 DEF MoveOn, Shape
    <2> QED
      BY <1>0, <1>1, <2>1, <2>2 DEF FreshAt, Fresh
  <1>12. ASSUME NEW p \in Processes, ClearFallback(p)
         PROVE  FreshAt(q)'
    <2>1. UNCHANGED <<generation, abandoned, call, late>>
      BY <1>12 DEF ClearFallback, wire
    <2>2. \/ updating'[q] = updating[q] /\ hitBy'[q] = hitBy[q]
          \/ /\ updating[q] = "moved" /\ hitBy'[q][InMemory] = {}
             /\ hitBy'[q][1] = hitBy[q][1]
      <3>1. hitBy[q] \in [Generations \cup {InMemory} -> SUBSET Versions]
        BY DEF Shape
      <3>2. CASE p = q
        <4>1. hitBy'[q] = [hitBy[q] EXCEPT ![InMemory] = {}]
          BY <1>12, <3>2 DEF ClearFallback, Shape
        <4>2. 1 # InMemory
          BY DEF InMemory
        <4> QED
          BY <1>12, <3>1, <3>2, <4>1, <4>2 DEF ClearFallback, Generations
      <3>3. CASE p # q
        BY <1>0, <1>12, <3>3 DEF ClearFallback, Shape
      <3> QED
        BY <3>2, <3>3
    <2> QED
      BY <1>0, <1>1, <2>1, <2>2 DEF FreshAt, Fresh
  <1>13. ASSUME NEW p \in Processes, Restart(p)
         PROVE  FreshAt(q)'
    <2>1. PICK left \in GivenUp(p) :
            abandoned' = {[a EXCEPT !.process = IF @ = p THEN Nobody ELSE @] : a \in left}
      BY <1>13 DEF Restart
    <2>2. \A a \in abandoned' : a.process = q => p # q /\ a \in abandoned
      <3> SUFFICES ASSUME NEW a \in abandoned', a.process = q
                   PROVE  p # q /\ a \in abandoned
        OBVIOUS
      <3>1. PICK b \in left : a = [b EXCEPT !.process = IF @ = p THEN Nobody ELSE @]
        BY <2>1
      <3>2. /\ b \in [process : Processes \cup {Nobody}, command : SubjectCommands,
                      key : Generations]
            /\ \/ b \in abandoned
               \/ b.process = p
        BY GivenUpShape
      <3>3. b.process # p /\ p # q /\ a = b
        BY <1>0, <3>1, <3>2
      <3> QED
        BY <3>2, <3>3
    <2>3. CASE p = q
      <3>1. /\ generation'[q] = 0 /\ updating'[q] = "no"
            /\ hitBy'[q] = [g \in DOMAIN hitBy[q] |-> {}]
        BY <1>0, <1>13, <2>3 DEF Restart, Shape
      <3>2. hitBy'[q][1] = {}
        BY <3>1 DEF Shape, Generations
      <3> QED
        BY <2>2, <2>3, <3>1, <3>2 DEF FreshAt
    <2>4. CASE p # q
      <3>1. /\ generation'[q] = generation[q] /\ updating'[q] = updating[q]
            /\ late'[q] = late[q] /\ call'[q] = call[q]
        BY <1>0, <1>13, <2>4 DEF Restart, Shape
      <3>2. \A g \in Generations \cup {InMemory} : hitBy'[q][g] = hitBy[q][g]
        BY <1>13, <2>4 DEF Restart, Shape
      <3>3. hitBy'[q][1] = hitBy[q][1] /\ hitBy'[q][InMemory] = hitBy[q][InMemory]
        BY <3>2 DEF Generations
      <3> QED
        BY <1>0, <1>1, <2>2, <3>1, <3>3 DEF FreshAt, Fresh
    <2> QED
      BY <2>3, <2>4
  <1>14. ASSUME NEW p \in Processes, Evict(p)
         PROVE  FreshAt(q)'
    <2>1. UNCHANGED <<generation, updating, late, hitBy, abandoned, call>>
      BY <1>14 DEF Evict, updates, marks
    <2> QED
      BY <1>0, <1>1, <2>1 DEF FreshAt, Fresh
  <1> QED
    BY <1>3, <1>4, <1>5, <1>6, <1>7, <1>8, <1>9, <1>10, <1>11, <1>12, <1>13, <1>14 DEF Next
-----------------------------------------------------------------------------
\* Writes and reads of one key.

\* A call that ends leaves the others as they are, and a command behind only if
\* it was a write.
LEMMA LeavesBehind ==
  ASSUME Shape, NEW p \in Processes, Reply(p) \/ Fail(p) \/ Cancel(p) \/ Restart(p)
  PROVE  /\ call' = [call EXCEPT ![p] = Idle]
         /\ abandoned = {} /\ ~Writing(call[p]) => abandoned' = {}
         /\ abandoned = {} /\ call[p].at # "sent" => abandoned' = {}
  <1>1. call' = [call EXCEPT ![p] = Idle]
    BY EndsCall DEF Restart
  <1>2. CASE Reply(p)
    BY <1>1, <1>2 DEF Reply, wire
  <1>3. CASE Fail(p) \/ Cancel(p)
    BY <1>1, <1>3, EndsCall DEF Fail, Cancel, GivenUp, Writing
  <1>4. CASE Restart(p)
    <2>1. PICK left \in GivenUp(p) :
            abandoned' = {[a EXCEPT !.process = IF @ = p THEN Nobody ELSE @] : a \in left}
      BY <1>4 DEF Restart
    <2>2. abandoned = {} /\ (call[p].at # "sent" \/ ~Writing(call[p])) => left = {}
      BY DEF GivenUp, Writing
    <2> QED
      BY <1>1, <2>1, <2>2
  <1> QED
    BY <1>2, <1>3, <1>4

\* No call of a key is alone with a write unless it is that write.
LEMMA AloneKept ==
  ASSUME Shape, Shape', AloneIsAlone, [Next]_vars
  PROVE  AloneIsAlone'
  <1> SUFFICES ASSUME NEW q \in Processes, call'[q].at = "sent", call'[q].alone
               PROVE  Alone(q)'
    BY DEF AloneIsAlone
  <1>1. subject' = subject
    BY ConfigKept DEF Next, Tick, ReadRules, SendHit, SendCommand, Reply, Fail, Cancel, Swap,
                      MoveOn, ClearFallback, Restart, Evict, RunAbandoned, vars
  <1>2. subject # "counter"
    <2>1. call'[q] \in Calls'
      BY DEF Shape
    <2>2. call'[q] # Idle
      BY DEF Idle
    <2>3. subject' = "counter" => ~call'[q].alone
      BY <2>1, <2>2 DEF Calls
    <2> QED
      BY <1>1, <2>3
  <1>3. \A p \in Processes : call[p].at = "sent" /\ call[p].alone => Alone(p)
    BY DEF AloneIsAlone
  <1>4. CASE call' = call /\ abandoned' \subseteq abandoned
    BY <1>3, <1>4 DEF Alone
  <1>5. ASSUME NEW p \in Processes, SendHit(p)
        PROVE  Alone(q)'
    <2>1. /\ abandoned' = abandoned /\ call[p].at = "evaluating"
          /\ call' = [call EXCEPT ![p] = [at |-> "sent", command |-> call[p].command,
                                          key |-> CounterKey(p), alone |-> FALSE]]
      BY <1>5 DEF SendHit, wire
    <2>2. q # p
      BY <2>1 DEF Shape
    <2>3. call'[q] = call[q] /\ Alone(q)
      BY <1>3, <2>1, <2>2 DEF Shape
    <2>4. \A r \in Processes \ {q} : ~Writing(call'[r])
      BY <2>1, <2>3 DEF Alone, Writing, Shape
    <2> QED
      BY <2>1, <2>3, <2>4 DEF Alone
  <1>6. ASSUME NEW p \in Processes, NEW c \in Commands, SendCommand(p, c)
        PROVE  Alone(q)'
    <2>1. /\ abandoned' = abandoned
          /\ call' = [r \in Processes |->
               IF r = p THEN [at |-> "sent", command |-> c, key |-> 0, alone |-> Alone(p)]
               ELSE IF c.op = "get" \/ call[r] = Idle THEN call[r]
               ELSE [call[r] EXCEPT !.alone = FALSE]]
      BY <1>6 DEF SendCommand, wire
    <2>2. \A r \in Processes \ {p} : Writing(call'[r]) => Writing(call[r])
      <3> SUFFICES ASSUME NEW r \in Processes \ {p}, Writing(call'[r])
                   PROVE  Writing(call[r])
        OBVIOUS
      <3>1. CASE call'[r] = call[r]
        BY <3>1
      <3>2. CASE call'[r] = [call[r] EXCEPT !.alone = FALSE] /\ call[r] # Idle
        <4>1. CASE call[r] \in [at : {"evaluating"}, command : SubjectCommands]
          BY <3>2, <4>1 DEF Writing
        <4>2. CASE call[r] \in [at : {"sent"}, command : SubjectCommands, key : Generations,
                                alone : IF subject = "counter" THEN {FALSE} ELSE BOOLEAN]
          BY <3>2, <4>2 DEF Writing
        <4> QED
          BY <3>2, <4>1, <4>2, CallShape DEF Calls
      <3> QED
        BY <2>1, <3>1, <3>2
    <2>3. CASE q = p
      BY <2>1, <2>2, <2>3 DEF Alone
    <2>4. CASE q # p
      <3>1. c.op = "get" /\ call'[q] = call[q]
        <4>1. CASE call'[q] = call[q] /\ c.op = "get"
          BY <4>1
        <4>2. CASE call'[q] = call[q] /\ call[q] = Idle
          BY <4>2 DEF Idle
        <4>3. CASE call'[q] = [call[q] EXCEPT !.alone = FALSE] /\ call[q] # Idle
          <5>1. CASE call[q] \in [at : {"evaluating"}, command : SubjectCommands]
            BY <4>3, <5>1
          <5>2. CASE call[q] \in [at : {"sent"}, command : SubjectCommands, key : Generations,
                                  alone : IF subject = "counter" THEN {FALSE} ELSE BOOLEAN]
            BY <4>3, <5>2
          <5> QED
            BY <4>3, <5>1, <5>2, CallShape DEF Calls
        <4> QED
          BY <2>1, <2>4, <4>1, <4>2, <4>3
      <3>2. Alone(q)
        BY <1>3, <3>1
      <3>3. ~Writing(call'[p])
        BY <2>1, <3>1 DEF Writing
      <3> QED
        BY <2>1, <2>2, <3>2, <3>3 DEF Alone
    <2> QED
      BY <2>3, <2>4
  <1>7. ASSUME NEW p \in Processes, Reply(p) \/ Fail(p) \/ Cancel(p) \/ Restart(p)
        PROVE  Alone(q)'
    <2>1. call' = [call EXCEPT ![p] = Idle]
      BY <1>7, LeavesBehind
    <2>2. q # p /\ call'[q] = call[q]
      BY <2>1 DEF Shape, Idle
    <2>3. Alone(q)
      BY <1>3, <2>2
    <2>4. ~Writing(call[p]) /\ abandoned = {}
      BY <2>2, <2>3 DEF Alone
    <2>5. abandoned' = {}
      BY <1>7, <2>4, LeavesBehind
    <2>6. ~Writing(Idle)
      BY DEF Writing, Idle
    <2> QED
      BY <2>1, <2>3, <2>5, <2>6 DEF Alone, Shape
  <1>8. ASSUME NEW p \in Processes, ReadRules(p)
        PROVE  FALSE
    BY <1>2, <1>8 DEF ReadRules
  <1> QED
    BY <1>4, <1>5, <1>6, <1>7, <1>8 DEF Next, Tick, Swap, MoveOn, ClearFallback, Evict, RunAbandoned,
                                        vars, wire

\* What an acknowledged write leaves.
WriteLeft(c, done) ==
  /\ Holds(done.entry, Left(c, done.reply))
  /\ Plausible(Left(c, done.reply))

LEMMA WriteLeaves ==
  ASSUME Shape, NEW c \in Commands, c.op # "get", NEW entry,
         Executed("redis", entry, c).reply # <<"error">>,
         Left(c, Executed("redis", entry, c).reply).is = "left"
  PROVE  WriteLeft(c, Executed("redis", entry, c))
  <1>1. now \in Nat /\ c.expire \in Nat
    BY RedisAssumption DEF Shape, Commands, None
  <1>2. CASE c.op = "set"
    BY <1>1, <1>2 DEF WriteLeft, Executed, Left, Leaving, Serialized, Holds, Plausible, Deadline,
                      None, Nothing
  <1>3. CASE c.op = "delete"
    <2>1. c.expire = None
      BY <1>3 DEF Commands
    <2> QED
      BY <1>3, <2>1 DEF WriteLeft, Executed, Left, Leaving, Holds, Plausible, Deadline, None, Nothing
  <1>4. CASE c.op = "incr"
    <2>1. c.expire # None
      BY <1>4 DEF Left, Unknown
    <2>2. PICK count : Executed("redis", entry, c) = Leaving(<<"plain", count>>, now + c.expire, <<"plain", count>>)
      BY <1>4, <2>1 DEF Executed, Leaving, Deadline
    <2>3. Left(c, <<"plain", count>>) =
            [is |-> "left", content |-> <<"plain", count>>, expires |-> now + c.expire]
      BY <1>4, <2>1 DEF Left, Deadline
    <2>4. Executed("redis", entry, c).reply = <<"plain", count>>
          /\ Executed("redis", entry, c).entry =
               [content |-> <<"plain", count>>, expires |-> now + c.expire]
      BY <2>2 DEF Leaving
    <2>5. <<"plain", count>> # Nothing /\ <<"plain", count>> # <<"error">>
      BY DEF Nothing
    <2> QED
      BY <1>1, <2>3, <2>4, <2>5 DEF WriteLeft, Holds, Plausible
  <1> QED
    BY <1>2, <1>3, <1>4 DEF Commands

\* Reading a key leaves what was there, or nothing if that has expired.
LEMMA ReadLeaves ==
  ASSUME NEW c, c.op = "get", NEW entry, NEW write, Holds(entry, write), Plausible(write)
  PROVE  /\ Holds(Executed("redis", entry, c).entry, write)
         /\ Executed("redis", entry, c).reply =
              IF write.expires # None /\ write.expires <= now THEN Nothing ELSE write.content
  <1>1. PICK content, expires :
          /\ content = Content(entry)
          /\ expires = IF content = Nothing THEN None ELSE entry.expires
    OBVIOUS
  <1>2. Executed("redis", entry, c) = Leaving(content, expires, content)
    BY <1>1 DEF Executed
  <1>3. CASE write.expires # None /\ write.expires <= now
    <2>1. content = Nothing
      BY <1>1, <1>3 DEF Holds, Content, Nothing
    <2> QED
      BY <1>2, <1>3, <2>1 DEF Leaving, Holds
  <1>4. CASE ~(write.expires # None /\ write.expires <= now)
    <2>1. entry.content = write.content /\ entry.expires = write.expires
      BY <1>4 DEF Holds
    <2>2. content = write.content
      BY <1>1, <1>4, <2>1 DEF Content
    <2>3. expires = write.expires
      BY <1>1, <2>1, <2>2 DEF Plausible
    <2> QED
      BY <1>2, <1>4, <2>2, <2>3 DEF Leaving, Holds
  <1> QED
    BY <1>3, <1>4

LEMMA KnownKept ==
  ASSUME Shape, KeysReached, AloneIsAlone, KnownIsThere, [Next]_vars
  PROVE  KnownIsThere'
  <1> SUFFICES ASSUME known'.is = "left"
               PROVE  /\ subject' # "counter"
                      /\ abandoned' = {} /\ \A p \in Processes : ~Writing(call'[p])
                      /\ Holds(redis[0], known)' /\ Plausible(known')
    BY DEF KnownIsThere, Plausible
  <1>1. known.is = "left" =>
          /\ subject # "counter"
          /\ abandoned = {} /\ \A p \in Processes : ~Writing(call[p])
          /\ Holds(redis[0], known) /\ Plausible(known)
    BY DEF KnownIsThere
  <1>2. /\ subject' = subject /\ now \in Nat
        /\ now' = now \/ now' = now + 1
    <2>1. config' = config /\ (now' = now \/ now' = now + 1)
      BY DEF Next, Tick, ReadRules, SendHit, SendCommand, Reply, Fail, Cancel, Swap,
             MoveOn, ClearFallback, Restart, Evict, RunAbandoned, vars
    <2>2. now \in Nat
      BY RedisAssumption DEF Shape
    <2> QED
      BY <2>1, <2>2, ConfigKept
  <1>3. Unknown.is # "left" /\ ~Writing(Idle)
    BY DEF Unknown, Writing, Idle
  <1>4. ASSUME known' = known, redis' = redis
        PROVE  Holds(redis[0], known)'
    BY <1>1, <1>2, <1>4 DEF Holds, Plausible
  \* Time passes, or something else happens to the calls.
  <1>5. CASE /\ UNCHANGED <<known, redis>> /\ abandoned' \subseteq abandoned
             /\ \A p \in Processes : Writing(call'[p]) => Writing(call[p])
    BY <1>1, <1>2, <1>4, <1>5
  <1>6. CASE Tick \/ UNCHANGED vars
    <2>1. UNCHANGED <<known, redis, call, abandoned>>
      BY <1>6 DEF Tick, vars, wire
    <2> QED
      BY <1>5, <2>1
  <1>7. ASSUME NEW p \in Processes, Swap(p) \/ MoveOn(p) \/ ClearFallback(p) \/ Evict(p)
        PROVE  UNCHANGED <<known, redis, call, abandoned>>
    BY <1>7 DEF Swap, MoveOn, ClearFallback, Evict, wire
  <1>8. ASSUME NEW p \in Processes, ReadRules(p)
        PROVE  FALSE
    BY <1>1, <1>8 DEF ReadRules
  <1>9. ASSUME NEW p \in Processes, SendHit(p)
        PROVE  /\ UNCHANGED <<known, redis, abandoned>>
               /\ \A q \in Processes : Writing(call'[q]) => Writing(call[q])
    BY <1>9 DEF SendHit, wire, Shape, Writing
  <1>10. ASSUME NEW p \in Processes, NEW c \in Commands, SendCommand(p, c)
         PROVE  /\ UNCHANGED <<known, redis, abandoned>>
                /\ \A q \in Processes : Writing(call'[q]) => Writing(call[q])
    <2>1. c.op = "get" /\ known' = known
      BY <1>3, <1>10 DEF SendCommand
    <2> QED
      BY <1>10, <2>1 DEF SendCommand, wire, Writing
  <1>11. ASSUME NEW a \in abandoned, RunAbandoned(a)
         PROVE  FALSE
    BY <1>1, <1>11 DEF RunAbandoned
  <1>12. ASSUME NEW p \in Processes, Fail(p) \/ Cancel(p) \/ Restart(p)
         PROVE  /\ UNCHANGED <<known, redis>> /\ abandoned' = {}
                /\ \A q \in Processes : Writing(call'[q]) => Writing(call[q])
    <2>1. UNCHANGED <<known, redis>>
      BY <1>12 DEF Fail, Cancel, Restart
    <2>2. abandoned = {} /\ ~Writing(call[p])
      BY <1>1, <2>1
    <2> QED
      BY <1>3, <1>12, <2>1, <2>2, LeavesBehind DEF Shape
  \* A command runs and is answered.
  <1>13. ASSUME NEW p \in Processes, Reply(p)
         PROVE  /\ subject' # "counter"
                /\ abandoned' = {} /\ \A q \in Processes : ~Writing(call'[q])
                /\ Holds(redis[0], known)' /\ Plausible(known')
    <2> DEFINE c == call[p].command
               run == Executed("redis", redis[0], c)
               acknowledged == Writing(call[p]) /\ call[p].alone /\ run.reply # <<"error">>
    <2>1. /\ call[p].at = "sent" /\ c \in SubjectCommands /\ call[p].key \in Generations
          /\ subject = "counter" => ~call[p].alone
      BY <1>13, CallShape DEF Reply
    <2>2. subject # "counter"
      <3>1. subject = "counter" => known' = known
        BY <1>13, <2>1 DEF Reply
      <3> QED
        BY <1>1, <3>1
    <2>3. c \in Commands /\ call[p].key = 0
      <3>1. updating[p] = "no" /\ generation[p] = 0 /\ call[p].key <= generation[p]
        BY <2>1, <2>2 DEF KeysReached
      <3> QED
        BY <2>1, <2>2, <3>1 DEF SubjectCommands, Generations
    <2>4. known' = IF acknowledged THEN Left(c, run.reply) ELSE known
      BY <1>13, <2>3 DEF Reply
    <2>5. redis'[0] = run.entry
      BY <1>13, <2>1, <2>3, RunShape DEF Reply
    <2>6. /\ call' = [call EXCEPT ![p] = Idle] /\ abandoned' = abandoned /\ now' = now
      BY <1>13, EndsCall DEF Reply, wire
    <2>7. CASE acknowledged
      <3>1. Alone(p) /\ c.op # "get"
        BY <2>1, <2>7 DEF AloneIsAlone, Writing
      <3>2. abandoned' = {} /\ \A q \in Processes : ~Writing(call'[q])
        BY <1>3, <2>6, <3>1 DEF Alone, Shape
      <3>3. known' = Left(c, run.reply)
        BY <2>4, <2>7
      <3>4. Holds(run.entry, known') /\ Plausible(known')
        <4>1. WriteLeft(c, run)
          BY <2>3, <2>7, <3>1, <3>3, WriteLeaves
        <4> QED
          BY <3>3, <4>1 DEF WriteLeft
      <3>5. Holds(redis[0], known)'
        BY <2>5, <2>6, <3>4 DEF Holds
      <3> QED
        BY <1>2, <2>2, <3>2, <3>4, <3>5
    <2>8. CASE ~acknowledged
      <3>1. known' = known
        BY <2>4, <2>8
      <3>2. abandoned = {} /\ \A q \in Processes : ~Writing(call[q])
        BY <1>1, <3>1
      <3>3. c.op = "get"
        BY <2>1, <3>2 DEF Writing
      <3>4. Holds(run.entry, known)
        BY <1>1, <3>1, <3>3, ReadLeaves
      <3>5. Holds(redis[0], known)'
        BY <2>5, <2>6, <3>1, <3>4 DEF Holds
      <3>6. \A q \in Processes : ~Writing(call'[q])
        BY <1>3, <2>6, <3>2 DEF Shape
      <3> QED
        BY <1>1, <1>2, <2>2, <2>6, <3>1, <3>2, <3>5, <3>6
    <2> QED
      BY <2>7, <2>8
  <1> QED
    BY <1>1, <1>2, <1>4, <1>5, <1>6, <1>7, <1>8, <1>9, <1>10, <1>11, <1>12, <1>13 DEF Next
-----------------------------------------------------------------------------
LEMMA RedisInvHolds == Spec => []RedisInv
  <1>1. Init => RedisInv
    <2> SUFFICES ASSUME Init
                 PROVE  RedisInv
      OBVIOUS
    <2>1. Shape
      BY RedisAssumption DEF Init, Shape, Generations, Calls
    <2>2. MemoriesUnused /\ KeysReached
      BY DEF Init, MemoriesUnused, KeysReached, Idle
    <2>3. FreshCounters
      BY RedisAssumption DEF Init, FreshCounters, FreshAt, Generations, InMemory
    <2>4. AloneIsAlone /\ KnownIsThere
      BY DEF Init, AloneIsAlone, KnownIsThere, Idle, Unknown
    <2> QED
      BY <2>1, <2>2, <2>3, <2>4 DEF RedisInv
  <1>2. RedisInv /\ [Next]_vars => RedisInv'
    BY ShapeKept, MemoriesKept, KeysReachedKept, FreshCountersKept, AloneKept, KnownKept
    DEF RedisInv
  <1> QED
    BY <1>1, <1>2, PTL DEF Spec

\* The state has its shape: a call never names a counter its process has not
\* reached, and no memory is used in a mode that does not fall back on it
\* (redis.py _build_counter_key, _handle_record_hit_failure).
THEOREM RedisTypeCorrect == Spec => []TypeOK
  <1>1. RedisInv => TypeOK
    <2> SUFFICES ASSUME RedisInv
                 PROVE  TypeOK
      OBVIOUS
    <2>1. \A p \in Processes :
            /\ call[p].at \in {"idle", "evaluating", "sent"}
            /\ call[p].at = "sent" => call[p].key \in 0 .. generation[p]
      <3> SUFFICES ASSUME NEW p \in Processes
                   PROVE  /\ call[p].at \in {"idle", "evaluating", "sent"}
                          /\ call[p].at = "sent" => call[p].key \in 0 .. generation[p]
        OBVIOUS
      <3>1. /\ call[p].at \in {"idle", "evaluating", "sent"}
            /\ call[p].at = "sent" => call[p].key \in Generations /\ call[p].key <= generation[p]
        BY CallShape DEF RedisInv, KeysReached
      <3>2. generation[p] \in {0, 1}
        BY DEF RedisInv, Shape, Generations
      <3> QED
        BY <3>1, <3>2 DEF Generations
    <2> QED
      BY <2>1 DEF RedisInv, Shape, MemoriesUnused, KeysReached, TypeOK
  <1> QED
    BY <1>1, RedisInvHolds, PTL

\* A process that has updated its rule counts afresh, whatever is lost, arrives
\* late or restarts meanwhile (redis.py cleanup_handler_counters).
THEOREM UpdatesCountAfresh == Spec => []UpdateStartsAfresh
  <1>1. RedisInv => UpdateStartsAfresh
    <2> SUFFICES ASSUME RedisInv, NEW p \in Updaters, updating[p] = "done"
                 PROVE  hitBy[p][generation[p]] \cup hitBy[p][InMemory] \subseteq {RuleAt(p)} \cup late[p]
      BY DEF UpdateStartsAfresh
    <2>1. p \in Processes
      BY RedisAssumption
    <2>2. generation[p] = 1
      BY <2>1 DEF RedisInv, Shape, KeysReached, Generations
    <2>3. hitBy[p][1] \subseteq Fresh(p) /\ hitBy[p][InMemory] \subseteq Fresh(p)
      BY DEF RedisInv, FreshCounters, FreshAt
    <2>4. Fresh(p) = {RuleAt(p)} \cup late[p]
      BY DEF Fresh, RuleAt
    <2> QED
      BY <2>2, <2>3, <2>4
  <1> QED
    BY <1>1, RedisInvHolds, PTL

\* A read that overlaps no write is answered with what the last acknowledged
\* write left as long as that lasts, or not answered at all, whatever else is
\* lost, delayed or restarted (redis.py get, _handle_get_failure).
THEOREM AcknowledgedWritesAreRead == Spec => AcknowledgedSeen
  <1> DEFINE Told == IF known.expires # None /\ known.expires <= now THEN Nothing ELSE known.content
             Seen == answer' \in {Silent, <<"unavailable">>} \/ answer' = Told
  <1>1. ASSUME RedisInv, [Next]_vars, NEW p \in Processes,
               call[p].at = "sent", call'[p] = Idle, call[p].command.op = "get",
               call[p].alone, known.is = "left", FailureMode = "closed" \/ faults' = faults
        PROVE  Seen
    <2>1. Shape /\ KeysReached /\ KnownIsThere
      BY <1>1 DEF RedisInv
    <2>2. call' # call
      BY <1>1 DEF Idle
    <2>3. ASSUME NEW q \in Processes, Reply(q) \/ Fail(q) \/ Cancel(q) \/ Restart(q)
          PROVE  q = p
      <3>1. call' = [call EXCEPT ![q] = Idle]
        BY <2>1, <2>3, LeavesBehind
      <3> QED
        BY <1>1, <2>1, <3>1 DEF Shape, Idle
    <2>4. ASSUME NEW q \in Processes, ReadRules(q) \/ SendHit(q)
          PROVE  FALSE
      <3>1. call[q].at # "sent" /\ \E k : call' = [call EXCEPT ![q] = k] /\ k # Idle
        BY <2>4 DEF ReadRules, SendHit, Idle
      <3> QED
        BY <1>1, <2>1, <3>1 DEF Shape, Idle
    <2>5. ASSUME NEW q \in Processes, NEW c \in Commands, SendCommand(q, c)
          PROVE  FALSE
      <3>1. call'[p] = call[p] \/ call'[p] = [call[p] EXCEPT !.alone = FALSE] \/ call'[p].at = "sent"
        BY <2>5 DEF SendCommand
      <3>2. call[p] \in [at : {"sent"}, command : SubjectCommands, key : Generations,
                         alone : IF subject = "counter" THEN {FALSE} ELSE BOOLEAN]
        BY <1>1, <2>1, CallShape DEF Calls, Idle
      <3>3. [call[p] EXCEPT !.alone = FALSE].at = "sent"
        BY <3>2
      <3> QED
        BY <1>1, <3>1, <3>3 DEF Idle
    <2>6. CASE Reply(p)
      <3> DEFINE run == Executed("redis", redis[0], call[p].command)
      <3>1. call[p].key = 0
        BY <1>1, <2>1, CallShape DEF KeysReached, KnownIsThere, Generations
      <3>2. run.reply = Told /\ known.content # <<"error">>
        BY <1>1, <2>1, ReadLeaves DEF KnownIsThere, Plausible
      <3>3. run.reply # <<"error">>
        <4>1. Len(<<"error">>) = 1 /\ Len(Nothing) = 0
          BY DEF Nothing
        <4>2. Nothing # <<"error">>
          BY <4>1
        <4>3. Told # <<"error">>
          BY <3>2, <4>2
        <4> QED
          BY <3>2, <4>3
      <3>4. End(p, run.reply)
        BY <2>6, <3>1, <3>3 DEF Reply
      <3> QED
        BY <1>1, <2>1, <3>2, <3>4, EndEffect
    <2>7. CASE Fail(p)
      <3>1. faults' # faults
        BY <2>1, <2>7 DEF Fail, Fault, Shape
      <3>2. FailureMode = "closed"
        BY <1>1, <3>1
      <3> QED
        BY <1>1, <2>1, <2>7, <3>2, FailureEffect DEF Fail
    <2>8. CASE Cancel(p)
      BY <1>1, <2>1, <2>8, EndEffect DEF Cancel
    <2>9. CASE Restart(p)
      BY <2>9 DEF Restart, Quiet
    <2> QED
      BY <1>1, <2>2, <2>3, <2>4, <2>5, <2>6, <2>7, <2>8, <2>9
      DEF Next, Tick, Swap, MoveOn, ClearFallback, Evict, RunAbandoned, vars
  <1>2. RedisInv /\ [Next]_vars =>
          [\A p \in Processes :
             LET k == call[p]
                 mode == IF subject = "ip" THEN control_mode ELSE counter_mode
             IN  /\ k.at = "sent" /\ call'[p] = Idle
                 /\ k.command.op = "get" /\ k.alone /\ known.is = "left"
                 /\ mode = "closed" \/ faults' = faults
                 => \/ answer' \in {Silent, <<"unavailable">>}
                    \/ answer' = IF known.expires # None /\ known.expires <= now
                                 THEN Nothing ELSE known.content]_vars
    BY <1>1 DEF FailureMode
  <1> QED
    BY <1>2, RedisInvHolds, PTL DEF Spec, AcknowledgedSeen
-----------------------------------------------------------------------------
\* The ledger of grants: an entry is a source (Redis is 0, a memory has a number
\* of its own), an instant and a number.

Entries == Nat \X Nat \X Nat

Since(L, s, from) == {g \in L : g[1] = s /\ g[2] >= from}
InWindow(L, s, from) == {g \in L : g[1] = s /\ from <= g[2] /\ g[2] < from + Span(Before)}

\* No window has more grants of the source s than the limit.
Spread(L, s) == \A from \in Int : Cardinality(InWindow(L, s, from)) <= Before.count

\* Of the grants of the source s that are younger than the window at time t, its
\* history h remembers one no older than the oldest, with the others behind it.
Backed(L, s, h, t) ==
  \A from \in Int :
    from > t - Span(Before) /\ Since(L, s, from) # {} =>
      \E a \in Int : a >= from /\ Remembers(h, a, Cardinality(Since(L, s, from)) - 1)

LEMMA BeforeIsRule ==
  Before \in Rule /\ Before.count \in Nat \ {0} /\ Span(Before) \in Nat \ {0}
  <1>1. Before \in Rule
    BY RedisAssumption
  <1>2. Before.count \in Nat \ {0} /\ Before.window \in Nat \ {0}
    BY <1>1 DEF Rule
  <1>3. \A m \in Nat \ {0}, n \in Nat \ {0} : m * n \in Nat \ {0}
    OBVIOUS
  <1> QED
    BY <1>1, <1>2, <1>3, SecondAssumption DEF Span

LEMMA SinceCounts ==
  ASSUME NEW L, IsFiniteSet(L), NEW s, NEW from
  PROVE  /\ IsFiniteSet(Since(L, s, from)) /\ Cardinality(Since(L, s, from)) \in Nat
         /\ Cardinality(Since(L, s, from)) = 0 <=> Since(L, s, from) = {}
         /\ IsFiniteSet(InWindow(L, s, from)) /\ Cardinality(InWindow(L, s, from)) \in Nat
  <1>1. Since(L, s, from) \subseteq L /\ InWindow(L, s, from) \subseteq L
    BY DEF Since, InWindow
  <1>2. IsFiniteSet(Since(L, s, from)) /\ IsFiniteSet(InWindow(L, s, from))
    BY <1>1, FS_Subset
  <1> QED
    BY <1>2, FS_CardinalityType, FS_EmptySet

\* A grant of the source s, the latest, adds one to what there has been since then.
GrantCounts(L, s, t, K, from) ==
  /\ from <= t =>
       /\ Since(K, s, from) # {}
       /\ Cardinality(Since(K, s, from)) = Cardinality(Since(L, s, from)) + 1
  /\ from > t => Since(K, s, from) = {}
  /\ InWindow(K, s, from) =
       IF from <= t /\ t < from + Span(Before) THEN Since(K, s, from) ELSE InWindow(L, s, from)
  /\ \A r : r # s => Since(K, r, from) = Since(L, r, from) /\ InWindow(K, r, from) = InWindow(L, r, from)

LEMMA SinceGrant ==
  ASSUME NEW L \in SUBSET Entries, IsFiniteSet(L), NEW s \in Nat, NEW t \in Nat, NEW i \in Nat,
         \A g \in L : g[2] <= t, <<s, t, i>> \notin L, NEW from \in Int
  PROVE  GrantCounts(L, s, t, L \cup {<<s, t, i>>}, from)
  <1> DEFINE x == <<s, t, i>>
             K == L \cup {x}
  <1>1. x[1] = s /\ x[2] = t
    OBVIOUS
  <1>2. \A g \in L : g[2] \in Nat /\ g[2] <= t
    BY DEF Entries
  <1>3. PICK w \in Nat : w = Span(Before)
    BY BeforeIsRule
  <1> HIDE DEF x
  <1>4. ASSUME from <= t
        PROVE  Since(K, s, from) # {} /\ Cardinality(Since(K, s, from)) = Cardinality(Since(L, s, from)) + 1
    <2>1. Since(K, s, from) = Since(L, s, from) \cup {x} /\ x \notin Since(L, s, from)
      BY <1>1, <1>4 DEF Since, x
    <2>2. IsFiniteSet(Since(L, s, from))
      BY SinceCounts
    <2> QED
      BY <2>1, <2>2, FS_AddElement
  <1>5. ASSUME from > t
        PROVE  Since(K, s, from) = {}
    BY <1>1, <1>2, <1>5 DEF Since
  <1>6. ASSUME from <= t, t < from + Span(Before)
        PROVE  InWindow(K, s, from) = Since(K, s, from)
    <2>1. \A g \in K : g[2] < from + w
      BY <1>1, <1>2, <1>3, <1>6
    <2>2. \A g \in K : g[2] >= from <=> from <= g[2]
      BY <1>1, <1>2
    <2>3. InWindow(K, s, from) = Since(K, s, from)
      BY <1>3, <2>1, <2>2 DEF Since, InWindow
    <2> QED
      BY <1>6, <2>3
  <1>7. ASSUME ~(from <= t /\ t < from + Span(Before))
        PROVE  InWindow(K, s, from) = InWindow(L, s, from)
    <2>1. InWindow(K, s, from) = InWindow(L, s, from)
      BY <1>1, <1>7 DEF InWindow
    <2> QED
      BY <1>7, <2>1
  <1>8. \A r : r # s => Since(K, r, from) = Since(L, r, from) /\ InWindow(K, r, from) = InWindow(L, r, from)
    BY <1>1 DEF Since, InWindow
  <1> QED
    BY <1>4, <1>5, <1>6, <1>7, <1>8 DEF GrantCounts, x

\* A hit puts nothing out of mind, whether it is granted or not.
LEMMA HitBacks ==
  ASSUME NEW L, IsFiniteSet(L), NEW s, NEW h \in Seq(Int), NEW t \in Int, Backed(L, s, h, t)
  PROVE  Backed(L, s, Hit(h, t, Before), t)
  <1> SUFFICES ASSUME NEW from \in Int, from > t - Span(Before), Since(L, s, from) # {}
               PROVE  \E a \in Int : a >= from
                        /\ Remembers(Hit(h, t, Before), a, Cardinality(Since(L, s, from)) - 1)
    BY DEF Backed
  <1>1. PICK a \in Int : a >= from /\ Remembers(h, a, Cardinality(Since(L, s, from)) - 1)
    BY DEF Backed
  <1>2. PICK m \in Int : m = Cardinality(Since(L, s, from)) - 1
    BY SinceCounts
  <1>3. a > t - Span(Before)
    BY <1>1, BeforeIsRule
  <1>4. Remembers(Hit(h, t, Before), a, m)
    BY <1>1, <1>2, <1>3, BeforeIsRule, HitRemembers
  <1> QED
    BY <1>1, <1>2, <1>4

\* A hit that is granted finds room for itself in every window, and is behind
\* the grants before it.
LEMMA GrantBacks ==
  ASSUME NEW L \in SUBSET Entries, IsFiniteSet(L), NEW s \in Nat, NEW t \in Nat, NEW i \in Nat,
         \A g \in L : g[2] <= t, <<s, t, i>> \notin L,
         NEW h \in Seq(Int), Backed(L, s, h, t), Spread(L, s),
         ~OverLimit(Hit(h, t, Before), Before)
  PROVE  /\ Backed(L \cup {<<s, t, i>>}, s, Hit(h, t, Before), t)
         /\ Spread(L \cup {<<s, t, i>>}, s)
  <1> DEFINE K == L \cup {<<s, t, i>>}
             hit == Hit(h, t, Before)
             Count(from) == Cardinality(Since(L, s, from))
  <1>1. \A from \in Int : Count(from) \in Nat /\ (Count(from) = 0 <=> Since(L, s, from) = {})
    BY SinceCounts
  <1>2. hit \in Seq(Int) /\ Len(hit) \in Nat /\ Len(hit) <= Before.count
    <2>1. hit \in Seq(Int)
      <3>1. Int \in SUBSET Int /\ t \in Int /\ Before \in Rule
        BY BeforeIsRule
      <3> QED
        BY <3>1, HitType
    <2>2. Len(hit) \in Nat
      BY <2>1, LenProperties
    <2> QED
      BY <2>1, <2>2, BeforeIsRule DEF OverLimit
  <1>3. \A from \in Int : GrantCounts(L, s, t, K, from)
    BY SinceGrant
  <1>4. t \in Int /\ Before \in Rule /\ Span(Before) \in Nat \ {0} /\ Before.count \in Nat \ {0}
    BY BeforeIsRule
  <1> HIDE DEF K
  \* What the history remembers of the grants since then, this one included.
  <1>5. ASSUME NEW from \in Int, from > t - Span(Before), from <= t
        PROVE  \E a \in Int : a >= from /\ Remembers(hit, a, Count(from))
    <2>1. CASE Since(L, s, from) = {}
      <3>1. Remembers(hit, t, 0) /\ Count(from) = 0
        BY <1>4, <1>1, <2>1, HitRemembers
      <3> QED
        BY <1>5, <3>1
    <2>2. CASE Since(L, s, from) # {}
      <3>1. PICK a \in Int : a >= from /\ Remembers(h, a, Count(from) - 1)
        BY <1>5, <2>2 DEF Backed
      <3>2. PICK m \in Int : m = Count(from) - 1 /\ m + 1 = Count(from)
        <4>1. PICK c \in Nat : c = Count(from)
          BY <1>1
        <4>2. c - 1 \in Int /\ (c - 1) + 1 = c
          OBVIOUS
        <4> QED
          BY <4>1, <4>2
      <3>3. a > t - Span(Before)
        BY <1>5, <3>1, BeforeIsRule
      <3>4. Remembers(hit, a, m + 1)
        BY <1>4, <3>1, <3>2, <3>3, HitRemembers
      <3> QED
        BY <3>1, <3>2, <3>4
    <2> QED
      BY <2>1, <2>2
  <1>6. Backed(K, s, hit, t)
    <2> SUFFICES ASSUME NEW from \in Int, from > t - Span(Before), Since(K, s, from) # {}
                 PROVE  \E a \in Int : a >= from /\ Remembers(hit, a, Cardinality(Since(K, s, from)) - 1)
      BY DEF Backed
    <2>1. from <= t /\ Cardinality(Since(K, s, from)) = Count(from) + 1
      BY <1>3, <1>4 DEF GrantCounts
    <2>2. Cardinality(Since(K, s, from)) - 1 = Count(from)
      BY <1>1, <2>1
    <2> QED
      BY <1>5, <2>1, <2>2
  <1>7. Spread(K, s)
    <2> SUFFICES ASSUME NEW from \in Int
                 PROVE  Cardinality(InWindow(K, s, from)) <= Before.count
      BY DEF Spread
    <2>1. CASE from <= t /\ t < from + Span(Before)
      <3>1. from > t - Span(Before)
        BY <2>1, BeforeIsRule
      <3>2. PICK a \in Int : Remembers(hit, a, Count(from))
        BY <1>5, <2>1, <3>1
      <3>3. PICK p \in 1 .. Len(hit) : Len(hit) - p >= Count(from)
        BY <3>2 DEF Remembers
      <3>4. Count(from) + 1 <= Before.count
        <4>1. PICK m \in Nat : m = Count(from)
          BY <1>1
        <4>2. PICK n \in Nat : n = Len(hit) /\ n <= Before.count
          BY <1>2
        <4>3. n - p >= m /\ p >= 1
          BY <3>3, <4>1, <4>2
        <4>4. m + 1 <= Before.count
          BY <1>4, <4>2, <4>3
        <4> QED
          BY <4>1, <4>4
      <3>5. InWindow(K, s, from) = Since(K, s, from)
        BY <1>3, <2>1 DEF GrantCounts
      <3>6. Cardinality(Since(K, s, from)) = Count(from) + 1
        BY <1>3, <2>1 DEF GrantCounts
      <3> QED
        BY <3>4, <3>5, <3>6
    <2>2. CASE ~(from <= t /\ t < from + Span(Before))
      <3>1. InWindow(K, s, from) = InWindow(L, s, from)
        BY <1>3, <2>2 DEF GrantCounts
      <3> QED
        BY <3>1 DEF Spread
    <2> QED
      BY <2>1, <2>2
  <1> QED
    BY <1>6, <1>7 DEF K

\* The grants of one source are no business of another.
LEMMA OthersBacked ==
  ASSUME NEW L \in SUBSET Entries, IsFiniteSet(L), NEW s \in Nat, NEW t \in Nat, NEW i \in Nat,
         \A g \in L : g[2] <= t, <<s, t, i>> \notin L, NEW r, r # s
  PROVE  /\ Spread(L, r) => Spread(L \cup {<<s, t, i>>}, r)
         /\ \A h, u : Backed(L, r, h, u) => Backed(L \cup {<<s, t, i>>}, r, h, u)
  <1>0. \A from \in Int : GrantCounts(L, s, t, L \cup {<<s, t, i>>}, from)
    BY SinceGrant
  <1>1. \A from \in Int :
          /\ Since(L \cup {<<s, t, i>>}, r, from) = Since(L, r, from)
          /\ InWindow(L \cup {<<s, t, i>>}, r, from) = InWindow(L, r, from)
    BY <1>0 DEF GrantCounts
  <1> QED
    BY <1>1 DEF Spread, Backed

LEMMA BackedLater ==
  ASSUME NEW L, NEW s, NEW h, NEW t \in Int, NEW u \in Int, t <= u, Backed(L, s, h, t)
  PROVE  Backed(L, s, h, u)
  <1>1. \A from \in Int : from > u - Span(Before) => from > t - Span(Before)
    BY BeforeIsRule
  <1> QED
    BY <1>1 DEF Backed

\* Readings up to u.
Upto(u) == {x \in Int : x <= u}

\* A history whose last hit is too old backs no more than an empty one.
LEMMA ExpiredBacks ==
  ASSUME NEW L, NEW s, NEW t \in Int, NEW u \in Int, u <= t - Span(Before),
         NEW h \in Seq(Upto(u)), Backed(L, s, h, t), NEW k
  PROVE  Backed(L, s, k, t)
  <1> SUFFICES ASSUME NEW from \in Int, from > t - Span(Before), Since(L, s, from) # {}
               PROVE  FALSE
    BY DEF Backed
  <1>1. PICK a \in Int : a >= from /\ \E p \in 1 .. Len(h) : h[p] = a
    BY DEF Backed, Remembers
  <1>2. a \in Upto(u)
    BY <1>1, ElementOfSeq
  <1> QED
    BY <1>1, <1>2, BeforeIsRule DEF Upto

\* What nobody has counted in backs anything.
LEMMA UnusedBacks ==
  ASSUME NEW L, NEW s, \A g \in L : g[1] # s, NEW h, NEW t
  PROVE  Backed(L, s, h, t) /\ Spread(L, s)
  <1>1. \A from \in Int : Since(L, s, from) = {} /\ InWindow(L, s, from) = {}
    BY DEF Since, InWindow
  <1>2. Cardinality({}) = 0
    BY FS_EmptySet
  <1>3. 0 <= Before.count
    BY BeforeIsRule
  <1> QED
    BY <1>1, <1>2, <1>3 DEF Backed, Spread

\* The elements of a set that has no more than c of them can be told apart by the
\* numbers up to c.
LEMMA Ranked ==
  ASSUME NEW S, IsFiniteSet(S), NEW c \in Nat, Cardinality(S) <= c
  PROVE  \E r \in [S -> 1 .. c] : \A x \in S, y \in S : r[x] = r[y] => x = y
  <1>1. PICK n \in Nat : n = Cardinality(S)
    BY FS_CardinalityType
  <1>2. n \in Int /\ 1 \in Int /\ (IF 1 > n THEN 0 ELSE n - 1 + 1) = n
    OBVIOUS
  <1>3. IsFiniteSet(1 .. n) /\ Cardinality(1 .. n) = n
    BY <1>2, FS_Interval
  <1>4. ExistsBijection(S, 1 .. n)
    BY <1>1, <1>3, FS_SameCardinalityBij
  <1>5. PICK r \in [S -> 1 .. n] : \A x \in S, y \in S : r[x] = r[y] => x = y
    BY <1>4 DEF ExistsBijection, Bijection, Injection, IsInjective
  <1>6. 1 .. n \subseteq 1 .. c
    BY <1>1
  <1>7. r \in [S -> 1 .. c]
    BY <1>5, <1>6
  <1> QED
    BY <1>5, <1>7

\* A window has no more grants than its sources, each up to its limit, account for.
LEMMA LedgerBound ==
  ASSUME NEW n \in Nat, NEW L \in SUBSET Entries, IsFiniteSet(L), NEW from \in Int,
         \A s \in 0 .. n : Cardinality(InWindow(L, s, from)) <= Before.count,
         NEW W \in SUBSET Nat, \A t \in W : from <= t /\ t < from + Span(Before),
         \A t \in W : \A i \in 1 .. grants[t] : \E s \in 0 .. n : <<s, t, i>> \in L
  PROVE  Cardinality(GrantsOf(W)) <= Before.count * (1 + n)
  <1> DEFINE c == Before.count
             Places == (0 .. n) \X (1 .. c)
             source(x) == CHOOSE s \in 0 .. n : <<s, x[1], x[2]>> \in L
             entry(x) == <<source(x), x[1], x[2]>>
             rank(s) == CHOOSE r \in [InWindow(L, s, from) -> 1 .. c] :
                          \A g \in InWindow(L, s, from), h \in InWindow(L, s, from) :
                            r[g] = r[h] => g = h
             place == [x \in GrantsOf(W) |-> <<source(x), rank(source(x))[entry(x)]>>]
  <1>1. c \in Nat /\ c \in Int
    BY BeforeIsRule
  <1>2. ASSUME NEW s \in 0 .. n
        PROVE  /\ rank(s) \in [InWindow(L, s, from) -> 1 .. c]
               /\ \A g \in InWindow(L, s, from), h \in InWindow(L, s, from) :
                    rank(s)[g] = rank(s)[h] => g = h
    <2>1. IsFiniteSet(InWindow(L, s, from))
      BY SinceCounts
    <2>2. \E r \in [InWindow(L, s, from) -> 1 .. c] :
            \A g \in InWindow(L, s, from), h \in InWindow(L, s, from) : r[g] = r[h] => g = h
      BY <1>1, <2>1, Ranked
    <2> QED
      BY <2>2
  <1>3. ASSUME NEW x \in GrantsOf(W)
        PROVE  /\ source(x) \in 0 .. n /\ entry(x) \in InWindow(L, source(x), from)
               /\ x = <<x[1], x[2]>>
    <2>1. PICK t \in W : \E i \in 1 .. grants[t] : x = <<t, i>>
      BY DEF GrantsOf
    <2>2. PICK i \in 1 .. grants[t] : x = <<t, i>>
      BY <2>1
    <2>3. x[1] = t /\ x[2] = i /\ x = <<x[1], x[2]>>
      BY <2>2
    <2>4. source(x) \in 0 .. n /\ entry(x) \in L
      BY <2>3
    <2>5. entry(x)[1] = source(x) /\ entry(x)[2] = t
      BY <2>3
    <2> QED
      BY <2>3, <2>4, <2>5 DEF InWindow
  <1> HIDE DEF source, rank, c
  <1>4. place \in [GrantsOf(W) -> Places]
    <2> SUFFICES ASSUME NEW x \in GrantsOf(W)
                 PROVE  <<source(x), rank(source(x))[entry(x)]>> \in Places
      OBVIOUS
    <2>1. source(x) \in 0 .. n /\ entry(x) \in InWindow(L, source(x), from)
      BY <1>3
    <2>2. rank(source(x))[entry(x)] \in 1 .. c
      BY <1>2, <2>1
    <2> QED
      BY <2>1, <2>2
  <1>5. ASSUME NEW x \in GrantsOf(W), NEW y \in GrantsOf(W), place[x] = place[y]
        PROVE  x = y
    <2>1. source(x) = source(y) /\ rank(source(x))[entry(x)] = rank(source(x))[entry(y)]
      BY <1>5
    <2>2. /\ source(x) \in 0 .. n /\ entry(x) \in InWindow(L, source(x), from)
          /\ entry(y) \in InWindow(L, source(x), from)
      BY <1>3, <2>1
    <2>3. entry(x) = entry(y)
      BY <1>2, <2>1, <2>2
    <2>4. x[1] = y[1] /\ x[2] = y[2]
      BY <2>3
    <2> QED
      BY <1>3, <2>4
  <1>6. place \in Injection(GrantsOf(W), Places)
    BY <1>4, <1>5 DEF Injection, IsInjective
  <1>7. IsFiniteSet(0 .. n) /\ Cardinality(0 .. n) = n + 1
    <2>1. n \in Int /\ 0 \in Int /\ (IF 0 > n THEN 0 ELSE n - 0 + 1) = n + 1
      OBVIOUS
    <2> QED
      BY <2>1, FS_Interval
  <1>8. IsFiniteSet(1 .. c) /\ Cardinality(1 .. c) = c
    <2>1. 1 \in Int /\ (IF 1 > c THEN 0 ELSE c - 1 + 1) = c
      BY <1>1
    <2> QED
      BY <1>1, <2>1, FS_Interval
  <1>9. IsFiniteSet(Places) /\ Cardinality(Places) = (n + 1) * c
    BY <1>7, <1>8, FS_Product
  <1>10. Cardinality(GrantsOf(W)) <= (n + 1) * c
    BY <1>6, <1>9, FS_Injection
  <1>11. (n + 1) * c = c * (1 + n)
    BY <1>1
  <1> QED
    BY <1>10, <1>11 DEF c
-----------------------------------------------------------------------------
\* What a step does to the counter of one rule.

\* What a hit leaves of an entry, and what it is told.
HitEntry(store, entry, r) ==
  [content |-> Hit(Content(entry), now, r), expires |-> HitExpires(store, r)]
HitReply(entry, r) ==
  <<IF OverLimit(Hit(Content(entry), now, r), r) THEN "refused" ELSE "granted", now>>

LEMMA HitExecuted ==
  ASSUME Shape, subject = "counter", NEW c \in SubjectCommands, NEW store, NEW entry
  PROVE  /\ Executed(store, entry, c).entry = HitEntry(store, entry, RuleOf(c.version))
         /\ Executed(store, entry, c).reply = HitReply(entry, RuleOf(c.version))
         /\ c.op = "hit" /\ c.version \in Versions
         /\ Executed(store, entry, c).reply # <<"error">>
  <1>1. c.op = "hit" /\ c.version \in Versions
    BY DEF SubjectCommands
  <1>2. PICK hits : hits = Hit(Content(entry), now, RuleOf(c.version))
    OBVIOUS
  <1>3. PICK verdict : verdict = IF OverLimit(hits, RuleOf(c.version)) THEN "refused" ELSE "granted"
    OBVIOUS
  <1>4. Executed(store, entry, c) =
          [entry |-> [content |-> hits, expires |-> HitExpires(store, RuleOf(c.version))],
           reply |-> <<verdict, now>>]
    BY <1>1, <1>2, <1>3 DEF Executed, Leaving
  <1>5. <<verdict, now>> # <<"error">>
    <2>1. Len(<<verdict, now>>) = 2 /\ Len(<<"error">>) = 1
      OBVIOUS
    <2> QED
      BY <2>1
  <1> QED
    BY <1>1, <1>2, <1>3, <1>4, <1>5 DEF HitEntry, HitReply

\* A process that has not updated its rule hits under that of start-up, in the
\* counter of that rule.
BeforeCalls ==
  subject = "counter" =>
    \A p \in Processes :
      updating[p] = "no" /\ call[p] # Idle => call[p].command.version = "before"

\* A hit at an entry under the rule of start-up, and whether it is a grant.
HitAt(store, entry, after) ==
  /\ after = HitEntry(store, entry, Before)
  /\ \/ grants' = grants
     \/ /\ ~OverLimit(after.content, Before)
        /\ grants' = [grants EXCEPT ![now] = @ + 1]

\* No grant, and those that count under the rule of start-up keep what they have.
NothingGranted ==
  /\ grants' = grants /\ now' \in {now, now + 1} /\ UNCHANGED <<restarts, evictions>>
  /\ redis'[0] = redis[0]
  /\ \A q \in Processes : updating'[q] = "no" => updating[q] = "no" /\ fallback'[q] = fallback[q]

HitInRedis ==
  /\ UNCHANGED <<restarts, evictions, now, updating, fallback>>
  /\ HitAt("redis", redis[0], redis'[0])

HitInMemory(p) ==
  /\ counter_mode = "local" /\ updating[p] = "no"
  /\ UNCHANGED <<restarts, evictions, now, updating, redis>>
  /\ \A q \in Processes \ {p} : fallback'[q] = fallback[q]
  /\ HitAt("memory", fallback[p], fallback'[p])

MemoryLost(p) ==
  /\ restarts' + evictions' = restarts + evictions + 1
  /\ UNCHANGED <<grants, now, redis>>
  /\ fallback'[p] = Absent
  /\ \A q \in Processes \ {p} : updating'[q] = updating[q] /\ fallback'[q] = fallback[q]

\* How a hit's call ends, in the modes that bound the grants.
LEMMA HitEnds ==
  ASSUME subject = "counter", counter_mode # "open", NEW p \in Processes, NEW reply,
         End(p, reply)
  PROVE  grants' = IF reply[1] = "granted" /\ updating[p] = "no"
                   THEN [grants EXCEPT ![reply[2]] = @ + 1] ELSE grants
  BY DEF End

LEMMA AnsweredHit ==
  ASSUME Shape, subject = "counter", counter_mode # "open", NEW p \in Processes,
         NEW entry, End(p, HitReply(entry, Before))
  PROVE  \/ grants' = grants
         \/ /\ updating[p] = "no" /\ ~OverLimit(Hit(Content(entry), now, Before), Before)
            /\ grants' = [grants EXCEPT ![now] = @ + 1]
  <1>1. PICK verdict : /\ HitReply(entry, Before) = <<verdict, now>>
                       /\ verdict = IF OverLimit(Hit(Content(entry), now, Before), Before)
                                    THEN "refused" ELSE "granted"
    BY DEF HitReply
  <1>2. <<verdict, now>>[1] = verdict /\ <<verdict, now>>[2] = now
    OBVIOUS
  <1>3. grants' = IF verdict = "granted" /\ updating[p] = "no"
                  THEN [grants EXCEPT ![now] = @ + 1] ELSE grants
    BY <1>1, <1>2, HitEnds
  <1> QED
    BY <1>1, <1>3

\* A failed hit is refused, or counted in the memory of its process.
LEMMA FailedHit ==
  ASSUME Shape, BeforeCalls, subject = "counter", counter_mode # "open",
         NEW p \in Processes, call[p].at = "sent", OnFailure(p),
         UNCHANGED <<restarts, evictions, now, updating, redis>>
  PROVE  NothingGranted \/ HitInMemory(p)
  <1>1. FailureMode = counter_mode /\ counter_mode \in {"closed", "local"}
    BY DEF FailureMode, Shape
  <1>2. call[p].command \in SubjectCommands /\ call[p] # Idle
    BY CallShape DEF Idle
  <1>3. CASE counter_mode = "closed"
    <2>1. End(p, <<"unavailable">>) /\ fallback' = fallback
      BY <1>1, <1>3 DEF OnFailure
    <2>2. <<"unavailable">>[1] # "granted"
      OBVIOUS
    <2>3. grants' = grants
      BY <2>1, <2>2, HitEnds
    <2> QED
      BY <2>1, <2>3 DEF NothingGranted
  <1>4. CASE counter_mode = "local"
    <2> DEFINE c == call[p].command
               entry == Executed("memory", fallback[p], c).entry
               reply == Executed("memory", fallback[p], c).reply
    <2>0. ~MayRefuse(fallback[p], c)
      BY <1>2, HitExecuted DEF MayRefuse
    <2>1. End(p, reply) /\ fallback' = [fallback EXCEPT ![p] = entry]
      BY <1>1, <1>4, <2>0 DEF OnFailure, AnswerFromMemory
    <2>2. /\ entry = HitEntry("memory", fallback[p], RuleOf(c.version))
          /\ reply = HitReply(fallback[p], RuleOf(c.version))
      BY <1>2, HitExecuted
    <2> HIDE DEF entry, reply
    <2>3. fallback'[p] = entry /\ \A q \in Processes \ {p} : fallback'[q] = fallback[q]
      BY <2>1 DEF Shape
    <2>4. CASE updating[p] = "no"
      <3>1. RuleOf(c.version) = Before
        BY <1>2, <2>4 DEF BeforeCalls, RuleOf
      <3>2. \/ grants' = grants
            \/ /\ ~OverLimit(Hit(Content(fallback[p]), now, Before), Before)
               /\ grants' = [grants EXCEPT ![now] = @ + 1]
        BY <2>1, <2>2, <3>1, AnsweredHit
      <3>3. fallback'[p] = HitEntry("memory", fallback[p], Before)
        BY <2>2, <2>3, <3>1
      <3>4. fallback'[p].content = Hit(Content(fallback[p]), now, Before)
        BY <3>3 DEF HitEntry
      <3>5. HitAt("memory", fallback[p], fallback'[p])
        BY <3>2, <3>3, <3>4 DEF HitAt
      <3> QED
        BY <1>4, <2>3, <2>4, <3>5 DEF HitInMemory
    <2>5. CASE updating[p] # "no"
      <3>1. grants' = grants
        BY <2>1, <2>5, HitEnds
      <3> QED
        BY <2>3, <2>5, <3>1 DEF NothingGranted
    <2> QED
      BY <2>4, <2>5
  <1> QED
    BY <1>1, <1>3, <1>4

\* A command that runs in Redis hits the counter of the rule of start-up under
\* that rule, unless a hit has strayed into it.
LEMMA RunHits ==
  ASSUME Shape, subject = "counter", NEW p, NEW c \in SubjectCommands, NEW g \in Generations,
         RunInRedis(p, c, g), ~strayed'
  PROVE  \/ g = 1 /\ redis'[0] = redis[0]
         \/ /\ g = 0 /\ c.version = "before"
            /\ redis'[0] = HitEntry("redis", redis[0], Before)
  <1>1. /\ redis'[g] = Executed("redis", redis[g], c).entry
        /\ \A h \in Generations \ {g} : redis'[h] = redis[h]
    BY RunShape
  <1>2. c.op = "hit" /\ c.version \in {"before", "after"}
    BY HitExecuted DEF Versions
  <1>3. CASE g = 1
    BY <1>1, <1>3 DEF Generations
  <1>4. CASE g = 0
    <2>1. c.version = "before"
      BY <1>2, <1>4 DEF RunInRedis
    <2>2. redis'[0] = HitEntry("redis", redis[0], RuleOf(c.version))
      BY <1>1, <1>4, HitExecuted
    <2> QED
      BY <1>4, <2>1, <2>2 DEF RuleOf
  <1> QED
    BY <1>3, <1>4 DEF Generations

LEMMA CounterSteps ==
  ASSUME Shape, KeysReached, BeforeCalls, subject = "counter", counter_mode # "open",
         [Next]_vars, ~strayed'
  PROVE  \/ NothingGranted \/ HitInRedis
         \/ \E p \in Processes : HitInMemory(p) \/ MemoryLost(p)
  <1>1. CASE Tick \/ UNCHANGED vars
    BY <1>1 DEF Tick, NothingGranted, wire, updates, vars
  <1>2. ASSUME NEW p \in Processes, ReadRules(p) \/ SendHit(p)
        PROVE  NothingGranted
    BY <1>2 DEF ReadRules, SendHit, NothingGranted, wire, updates
  <1>3. ASSUME NEW p \in Processes, NEW c \in Commands, SendCommand(p, c)
        PROVE  FALSE
    BY <1>3 DEF SendCommand
  <1>4. ASSUME NEW p \in Processes, Reply(p)
        PROVE  NothingGranted \/ HitInRedis
    <2> DEFINE c == call[p].command
               g == call[p].key
               reply == Executed("redis", redis[g], c).reply
    <2>1. c \in SubjectCommands /\ g \in Generations /\ call[p] # Idle /\ call[p].at = "sent"
      BY <1>4, CallShape DEF Reply, Idle
    <2>2. RunInRedis(p, c, g) /\ UNCHANGED <<now, restarts, evictions, updating>>
      BY <1>4 DEF Reply, wire, updates
    <2>3. End(p, reply) /\ fallback' = fallback
      BY <1>4, <2>1, HitExecuted DEF Reply
    <2>4. reply = HitReply(redis[g], RuleOf(c.version))
      BY <2>1, HitExecuted
    <2>5. \/ g = 1 /\ redis'[0] = redis[0]
          \/ g = 0 /\ c.version = "before" /\ redis'[0] = HitEntry("redis", redis[0], Before)
      BY <2>1, <2>2, RunHits
    <2> HIDE DEF c, g, reply
    <2>6. CASE g = 1
      <3>1. updating[p] # "no"
        BY <2>1, <2>6 DEF KeysReached, g
      <3>2. grants' = grants
        BY <2>3, <3>1, HitEnds
      <3> QED
        BY <2>2, <2>3, <2>5, <2>6, <3>2 DEF NothingGranted
    <2>7. CASE g = 0
      <3>1. reply = HitReply(redis[0], Before) /\ redis'[0] = HitEntry("redis", redis[0], Before)
        BY <2>4, <2>5, <2>7 DEF RuleOf
      <3>2. \/ grants' = grants
            \/ /\ ~OverLimit(Hit(Content(redis[0]), now, Before), Before)
               /\ grants' = [grants EXCEPT ![now] = @ + 1]
        BY <2>3, <3>1, AnsweredHit
      <3>3. redis'[0].content = Hit(Content(redis[0]), now, Before)
        BY <3>1 DEF HitEntry
      <3>4. HitAt("redis", redis[0], redis'[0])
        BY <3>1, <3>2, <3>3 DEF HitAt
      <3> QED
        BY <2>2, <2>3, <3>4 DEF HitInRedis
    <2> QED
      BY <2>1, <2>6, <2>7 DEF Generations
  <1>5. ASSUME NEW p \in Processes, Fail(p)
        PROVE  NothingGranted \/ HitInMemory(p)
    BY <1>5, FailedHit DEF Fail, Fault, updates
  <1>6. ASSUME NEW p \in Processes, Cancel(p)
        PROVE  NothingGranted
    <2>1. Silent[1] # "granted"
      BY DEF Silent
    <2>2. grants' = grants
      BY <1>6, <2>1, HitEnds DEF Cancel
    <2> QED
      BY <1>6, <2>2 DEF Cancel, Fault, NothingGranted, updates
  <1>7. ASSUME NEW p \in Processes, Swap(p) \/ MoveOn(p)
        PROVE  NothingGranted
    <2>1. updating' = [updating EXCEPT ![p] = updating'[p]] /\ updating'[p] # "no"
      BY <1>7 DEF Swap, MoveOn, Shape
    <2>2. \A q \in Processes : updating'[q] = "no" => updating[q] = "no"
      BY <2>1 DEF Shape
    <2> QED
      BY <1>7, <2>2 DEF Swap, MoveOn, NothingGranted, wire
  <1>8. ASSUME NEW p \in Processes, ClearFallback(p)
        PROVE  NothingGranted
    <2>1. \A q \in Processes : updating'[q] = "no" => q # p /\ updating[q] = "no"
      BY <1>8 DEF ClearFallback, Shape
    <2>2. \A q \in Processes \ {p} : fallback'[q] = fallback[q]
      BY <1>8 DEF ClearFallback, Shape
    <2> QED
      BY <1>8, <2>1, <2>2 DEF ClearFallback, NothingGranted, wire
  <1>9. ASSUME NEW p \in Processes, Restart(p) \/ Evict(p)
        PROVE  MemoryLost(p)
    <2>1. restarts' + evictions' = restarts + evictions + 1
      <3>1. restarts \in Nat /\ evictions \in Nat
        BY DEF Shape
      <3>2. \/ restarts' = restarts + 1 /\ evictions' = evictions
            \/ restarts' = restarts /\ evictions' = evictions + 1
        BY <1>9 DEF Restart, Evict
      <3> QED
        BY <3>1, <3>2
    <2> QED
      BY <1>9, <2>1 DEF Restart, Evict, MemoryLost, Shape, updates
  <1>10. ASSUME NEW a \in abandoned, RunAbandoned(a)
         PROVE  NothingGranted \/ HitInRedis
    <2>1. a.command \in SubjectCommands /\ a.key \in Generations
      BY DEF Shape
    <2>2. \/ redis'[0] = redis[0]
          \/ redis'[0] = HitEntry("redis", redis[0], Before)
      BY <1>10, <2>1, RunHits DEF RunAbandoned
    <2>3. UNCHANGED <<grants, now, restarts, evictions, updating, fallback>>
      BY <1>10 DEF RunAbandoned, updates
    <2> QED
      BY <2>2, <2>3 DEF NothingGranted, HitInRedis, HitAt
  <1> QED
    BY <1>1, <1>2, <1>3, <1>4, <1>5, <1>6, <1>7, <1>8, <1>9, <1>10 DEF Next
-----------------------------------------------------------------------------
\* The invariant of the grants.

\* Redis may grant, and in one mode each memory, as often as it began with nothing.
Memories == Cardinality(Processes) + restarts + evictions
Sources == 0 .. IF counter_mode = "closed" THEN 0 ELSE Memories

\* Each grant of the log is in the ledger, under one of the sources.
Booked(L, sources, t, log) ==
  /\ L \in SUBSET Entries /\ IsFiniteSet(L)
  /\ \A g \in L : g[1] \in sources /\ g[2] \in 0 .. t /\ g[3] \in 1 .. log[g[2]]
  /\ \A u \in 0 .. MaxTime : \A i \in 1 .. log[u] : \E s \in sources : <<s, u, i>> \in L

\* Each process counts in a memory of its own.
Owned(memory, n) ==
  /\ memory \in [Processes -> 1 .. n]
  /\ \A p \in Processes, q \in Processes : memory[p] = memory[q] => p = q

\* The calls count, and the counter of the rule of start-up is its own.
Counts == subject = "counter" /\ counter_mode # "open" /\ ~strayed

\* No source has exceeded the limit, and those that will grant again remember.
Counting ==
  Counts =>
    \E L, memory :
      /\ Booked(L, Sources, now, grants) /\ Owned(memory, Memories)
      /\ \A s \in Nat : Spread(L, s)
      /\ Backed(L, 0, redis[0].content, now)
      /\ \A p \in Processes :
           updating[p] = "no" => Backed(L, memory[p], fallback[p].content, now)

\* The counter in Redis expires a window after its last hit, those in memory never.
CountedInRedis ==
  Counts =>
    \/ redis[0] = Absent
    \/ \E u \in 0 .. now : /\ redis[0].content \in Seq(Upto(u))
                           /\ redis[0].expires = u + Span(Before)

CountedInMemory ==
  Counts =>
    \A p \in Processes :
      updating[p] = "no" => fallback[p].content \in Seq(Int) /\ fallback[p].expires = None

OthersGrantNothing == subject # "counter" => \A t \in 0 .. MaxTime : grants[t] = 0

GrantsInv ==
  /\ BeforeCalls
  /\ CountedInRedis
  /\ CountedInMemory
  /\ OthersGrantNothing
  /\ Counting

LEMMA MemoriesAreMany ==
  ASSUME Shape
  PROVE  /\ Cardinality(Processes) \in Nat /\ Memories \in Nat
         /\ Sources \in SUBSET Nat /\ 0 \in Sources
         /\ \A s \in Sources : s <= Memories
         /\ counter_mode = "local" => \A s \in 1 .. Memories : s \in Sources
  <1>1. Cardinality(Processes) \in Nat
    BY RedisAssumption, FS_CardinalityType
  <1>2. Memories \in Nat
    BY <1>1 DEF Memories, Shape
  <1>3. PICK n \in Nat : n = Memories
    BY <1>2
  <1>4. PICK m \in Nat : /\ Sources = 0 .. m /\ m <= n
                         /\ counter_mode = "local" => m = n
    BY <1>3 DEF Sources
  <1> QED
    BY <1>1, <1>3, <1>4

\* What a grant adds to the ledger.
Entered(L, s, t, n) == L \cup {<<s, t, n>>}

\* A new grant is a new entry.
NewAt(L, sources, s, t, n, more) ==
  /\ s \in Nat /\ t \in Nat /\ n \in Nat
  /\ L \in SUBSET Entries /\ IsFiniteSet(L)
  /\ \A g \in L : g[2] <= t
  /\ <<s, t, n>> \notin L
  /\ Booked(Entered(L, s, t, n), sources, t, more)

LEMMA NewEntry ==
  ASSUME NEW sources \in SUBSET Nat, NEW t \in 0 .. MaxTime, NEW log \in [0 .. MaxTime -> Nat],
         NEW L, Booked(L, sources, t, log), NEW s \in sources,
         NEW more, more = [log EXCEPT ![t] = @ + 1]
  PROVE  NewAt(L, sources, s, t, log[t] + 1, more)
  <1>1. PICK n : n = log[t]
    OBVIOUS
  <1> DEFINE x == <<s, t, n + 1>>
             K == L \cup {x}
  <1>2. s \in Nat
    OBVIOUS
  <1>3. MaxTime \in Nat
    BY RedisAssumption
  <1>4. n \in Nat
    BY <1>1, <1>3
  <1>5. t \in Nat /\ n + 1 \in Nat /\ n + 1 \notin 1 .. n /\ 1 .. n \subseteq 1 .. (n + 1)
        /\ t \in 0 .. t /\ n + 1 \in 1 .. (n + 1)
    BY <1>3, <1>4
  <1>6. /\ more[t] = n + 1
        /\ \A u \in 0 .. MaxTime : u # t => more[u] = log[u]
    BY <1>1, <1>3
  <1>7. x[1] = s /\ x[2] = t /\ x[3] = n + 1
    OBVIOUS
  <1>8. /\ L \in SUBSET Entries /\ IsFiniteSet(L)
        /\ \A g \in L : g[1] \in sources /\ g[2] \in 0 .. t /\ g[3] \in 1 .. log[g[2]]
        /\ \A u \in 0 .. MaxTime : \A i \in 1 .. log[u] : \E r \in sources : <<r, u, i>> \in L
    BY DEF Booked
  <1>9. x \notin L
    <2> SUFFICES ASSUME x \in L
                 PROVE  FALSE
      OBVIOUS
    <2>1. n + 1 \in 1 .. n
      BY <1>1, <1>7, <1>8
    <2> QED
      BY <1>5, <2>1
  <1>10. \A g \in L : g[2] <= t
    BY <1>3, <1>8
  <1>11. K \in SUBSET Entries /\ IsFiniteSet(K)
    <2>1. x \in Entries
      BY <1>2, <1>5 DEF Entries
    <2> QED
      BY <1>8, <2>1, FS_AddElement
  <1>12. ASSUME NEW g \in K
         PROVE  g[1] \in sources /\ g[2] \in 0 .. t /\ g[3] \in 1 .. more[g[2]]
    <2>1. CASE g = x
      BY <1>5, <1>6, <1>7, <2>1
    <2>2. CASE g \in L
      <3>1. g[1] \in sources /\ g[2] \in 0 .. t /\ g[3] \in 1 .. log[g[2]]
        BY <1>8, <2>2
      <3>2. g[2] \in 0 .. MaxTime
        BY <1>3, <3>1
      <3>3. CASE g[2] = t
        BY <1>1, <1>5, <1>6, <3>1, <3>3
      <3>4. CASE g[2] # t
        BY <1>6, <3>1, <3>2, <3>4
      <3> QED
        BY <3>3, <3>4
    <2> QED
      BY <2>1, <2>2
  <1>13. ASSUME NEW u \in 0 .. MaxTime, NEW i \in 1 .. more[u]
         PROVE  \E r \in sources : <<r, u, i>> \in K
    <2>1. CASE u # t
      BY <1>6, <1>8, <2>1
    <2>2. CASE u = t /\ i \in 1 .. n
      BY <1>1, <1>8, <2>2
    <2>3. CASE u = t /\ i = n + 1
      BY <2>3
    <2>4. u = t => i \in 1 .. n \/ i = n + 1
      BY <1>4, <1>6
    <2> QED
      BY <2>1, <2>2, <2>3, <2>4
  <1> HIDE DEF K
  <1>14. Booked(K, sources, t, more)
    BY <1>11, <1>12, <1>13 DEF Booked
  <1>15. K = Entered(L, s, t, n + 1)
    BY DEF K, Entered
  <1>16. NewAt(L, sources, s, t, n + 1, more)
    BY <1>2, <1>5, <1>8, <1>9, <1>10, <1>14, <1>15 DEF NewAt
  <1> QED
    BY <1>1, <1>16

\* What a hit at time t does to the log of grants, by the history h it counts in.
Logs(h, t, log, more) ==
  \/ more = log
  \/ /\ ~OverLimit(Hit(h, t, Before), Before)
     /\ more = [log EXCEPT ![t] = @ + 1]

\* There is a ledger of the new log in which the source s has its new history
\* behind it, and the others lose nothing.
Kept(L, s, h, t, sources, more) ==
  \E K : /\ Booked(K, sources, t, more) /\ \A r \in Nat : Spread(K, r)
         /\ Backed(K, s, Hit(h, t, Before), t)
         /\ \A r, k : r # s /\ Backed(L, r, k, t) => Backed(K, r, k, t)

\* What a hit of the source s does, in whichever history it counts.
LEMMA HitKeeps ==
  ASSUME NEW sources \in SUBSET Nat, NEW t \in 0 .. MaxTime, NEW log \in [0 .. MaxTime -> Nat],
         NEW L, Booked(L, sources, t, log), NEW s \in sources, \A r \in Nat : Spread(L, r),
         NEW h \in Seq(Int), Backed(L, s, h, t), NEW more, Logs(h, t, log, more)
  PROVE  Kept(L, s, h, t, sources, more)
  <1>1. \/ more = log
        \/ /\ ~OverLimit(Hit(h, t, Before), Before)
           /\ more = [log EXCEPT ![t] = @ + 1]
    BY DEF Logs
  <1>2. t \in Int /\ IsFiniteSet(L)
    BY DEF Booked
  <1>3. CASE more = log
    <2>1. Backed(L, s, Hit(h, t, Before), t)
      BY <1>2, HitBacks
    <2> QED
      BY <1>3, <2>1 DEF Kept
  <1>4. CASE /\ ~OverLimit(Hit(h, t, Before), Before)
             /\ more = [log EXCEPT ![t] = @ + 1]
    <2>1. NewAt(L, sources, s, t, log[t] + 1, more)
      BY <1>4, NewEntry
    <2>2. PICK n : n = log[t] + 1
      OBVIOUS
    <2> DEFINE K == L \cup {<<s, t, n>>}
    <2>3. /\ s \in Nat /\ t \in Nat /\ n \in Nat
          /\ L \in SUBSET Entries /\ IsFiniteSet(L)
          /\ \A g \in L : g[2] <= t
          /\ <<s, t, n>> \notin L
          /\ Booked(K, sources, t, more)
      BY <2>1, <2>2 DEF NewAt, Entered
    <2>4. Spread(L, s)
      BY <2>3
    <2>5. Backed(K, s, Hit(h, t, Before), t) /\ Spread(K, s)
      BY <1>4, <2>3, <2>4, GrantBacks
    <2>6. \A r : r # s => /\ Spread(L, r) => Spread(K, r)
                          /\ \A k, u : Backed(L, r, k, u) => Backed(K, r, k, u)
      BY <2>3, OthersBacked
    <2> HIDE DEF K
    <2>7. \A r \in Nat : Spread(K, r)
      BY <2>5, <2>6
    <2> QED
      BY <2>3, <2>5, <2>6, <2>7 DEF Kept
  <1> QED
    BY <1>1, <1>3, <1>4
-----------------------------------------------------------------------------
\* Steps that have nothing to do with the ledger.

LEMMA BeforeCallsKept ==
  ASSUME Shape, BeforeCalls, [Next]_vars
  PROVE  BeforeCalls'
  <1>1. subject' = subject
    BY DEF Next, Tick, ReadRules, SendHit, SendCommand, Reply, Fail, Cancel, Swap, MoveOn,
           ClearFallback, Restart, Evict, RunAbandoned, config, vars
  <1> SUFFICES ASSUME subject = "counter", NEW q \in Processes, updating'[q] = "no", call'[q] # Idle
               PROVE  call'[q].command.version = "before"
    BY <1>1 DEF BeforeCalls
  <1>2. updating[q] = "no" /\ call[q] # Idle => call[q].command.version = "before"
    BY DEF BeforeCalls
  <1>3. CASE updating' = updating /\ call' = call
    BY <1>2, <1>3
  <1>4. ASSUME NEW p \in Processes, ReadRules(p)
        PROVE  call'[q].command.version = "before"
    <2>1. updating[q] = "no"
      BY <1>4 DEF ReadRules, updates
    <2>2. CASE q = p
      <3>1. call'[q] = [at |-> "evaluating", command |-> [op |-> "hit", version |-> RuleAt(q)]]
        BY <1>4, <2>2 DEF ReadRules, Shape
      <3> QED
        BY <2>1, <3>1 DEF RuleAt
    <2>3. CASE q # p
      <3>1. call'[q] = call[q]
        BY <1>4, <2>3 DEF ReadRules, Shape
      <3> QED
        BY <1>2, <2>1, <3>1
    <2> QED
      BY <2>2, <2>3
  <1>5. ASSUME NEW p \in Processes, SendHit(p)
        PROVE  call'[q].command.version = "before"
    <2>1. updating[q] = "no" /\ call[p] # Idle
      BY <1>5 DEF SendHit, updates, Idle
    <2>2. CASE q = p
      <3>1. call'[q].command = call[q].command
        BY <1>5, <2>2 DEF SendHit, Shape
      <3> QED
        BY <1>2, <2>1, <2>2, <3>1
    <2>3. CASE q # p
      <3>1. call'[q] = call[q]
        BY <1>5, <2>3 DEF SendHit, Shape
      <3> QED
        BY <1>2, <2>1, <3>1
    <2> QED
      BY <2>2, <2>3
  <1>6. ASSUME NEW p \in Processes, NEW c \in Commands, SendCommand(p, c)
        PROVE  FALSE
    BY <1>6 DEF SendCommand
  <1>7. ASSUME NEW p \in Processes, Reply(p) \/ Fail(p) \/ Cancel(p)
        PROVE  call'[q].command.version = "before"
    <2>1. call' = [call EXCEPT ![p] = Idle]
      BY <1>7, EndsCall
    <2>2. updating' = updating /\ call'[q] = call[q]
      BY <1>7, <2>1 DEF Shape, Reply, Fail, Cancel, updates
    <2> QED
      BY <1>2, <2>2
  <1>8. ASSUME NEW p \in Processes, Swap(p) \/ MoveOn(p) \/ ClearFallback(p) \/ Restart(p)
        PROVE  call'[q].command.version = "before"
    <2>1. q # p
      BY <1>8 DEF Swap, MoveOn, ClearFallback, Restart, Shape
    <2>2. updating'[q] = updating[q] /\ call'[q] = call[q]
      BY <1>8, <2>1 DEF Swap, MoveOn, ClearFallback, Restart, Shape
    <2> QED
      BY <1>2, <2>2
  <1>9. \/ Tick \/ UNCHANGED vars \/ (\E a \in abandoned : RunAbandoned(a))
        \/ \E p \in Processes : Evict(p)
        => updating' = updating /\ call' = call
    BY DEF Tick, RunAbandoned, Evict, updates, vars
  <1> QED
    BY <1>3, <1>4, <1>5, <1>6, <1>7, <1>8, <1>9 DEF Next

LEMMA OthersGrantNothingKept ==
  ASSUME Shape, OthersGrantNothing, [Next]_vars
  PROVE  OthersGrantNothing'
  <1>1. subject' = subject
    BY DEF Next, Tick, ReadRules, SendHit, SendCommand, Reply, Fail, Cancel, Swap, MoveOn,
           ClearFallback, Restart, Evict, RunAbandoned, config, vars
  <1> SUFFICES ASSUME subject # "counter"
               PROVE  grants' = grants
    BY <1>1 DEF OthersGrantNothing
  <1>2. \A p, reply : End(p, reply) => grants' = grants
    BY DEF End
  <1>3. ASSUME NEW p \in Processes, OnFailure(p)
        PROVE  grants' = grants
    <2>1. FailureMode \in {"open", "closed", "local"}
      BY DEF Shape, FailureMode
    <2>2. \E reply : End(p, reply)
      BY <1>3, <2>1 DEF OnFailure, AnswerFromMemory
    <2> QED
      BY <1>2, <2>2
  <1>4. \A p \in Processes : Reply(p) \/ Fail(p) \/ Cancel(p) => grants' = grants
    BY <1>2, <1>3 DEF Reply, Fail, Cancel
  <1> QED
    BY <1>4 DEF Next, Tick, ReadRules, SendHit, SendCommand, Swap, MoveOn, ClearFallback,
                Restart, Evict, RunAbandoned, vars
-----------------------------------------------------------------------------
\* Steps of the ledger.

LEMMA CountsBefore ==
  ASSUME Shape, [Next]_vars, Counts'
  PROVE  /\ Counts /\ ~strayed' /\ counter_mode' = counter_mode /\ subject' = subject
         /\ UNCHANGED <<restarts, evictions>> => Sources' = Sources /\ Memories' = Memories
  <1>1. config' = config
    BY DEF Next, Tick, ReadRules, SendHit, SendCommand, Reply, Fail, Cancel, Swap, MoveOn,
           ClearFallback, Restart, Evict, RunAbandoned, vars
  <1>2. subject' = subject /\ counter_mode' = counter_mode
    BY <1>1, ConfigKept
  <1>3. ASSUME NEW p \in Processes, OnFailure(p)
        PROVE  strayed' = strayed
    <2>1. FailureMode \in {"open", "closed", "local"}
      BY DEF Shape, FailureMode
    <2> QED
      BY <1>3, <2>1 DEF OnFailure, AnswerFromMemory, marks
  <1>4. strayed => strayed'
    BY <1>3 DEF Next, Tick, ReadRules, SendHit, SendCommand, Reply, Fail, Cancel, Swap, MoveOn,
           ClearFallback, Restart, Evict, RunAbandoned, RunInRedis, vars, marks
  <1> QED
    BY <1>2, <1>4 DEF Counts, Sources, Memories

LEMMA EmptyHistory ==
  ASSUME NEW S
  PROVE  Nothing \in Seq(S)
  BY DEF Nothing

\* What Redis still has of a counter backs what the counter backs.
LEMMA ContentBacks ==
  ASSUME Shape, Counts, CountedInRedis, NEW L, Backed(L, 0, redis[0].content, now)
  PROVE  /\ Content(redis[0]) \in Seq(Upto(now)) /\ Content(redis[0]) \in Seq(Int)
         /\ Backed(L, 0, Content(redis[0]), now)
  <1>1. now \in Nat
    BY RedisAssumption DEF Shape
  <1>2. Upto(now) \subseteq Int
    BY DEF Upto
  <1>3. Content(redis[0]) \in Seq(Upto(now)) /\ Backed(L, 0, Content(redis[0]), now)
    <2>1. CASE redis[0] = Absent
      <3>1. redis[0].content = Nothing /\ Content(redis[0]) = Nothing
        BY <2>1 DEF Absent, Content
      <3> QED
        BY <3>1, EmptyHistory
    <2>2. ASSUME NEW u \in 0 .. now, redis[0].content \in Seq(Upto(u)),
                 redis[0].expires = u + Span(Before)
          PROVE  Content(redis[0]) \in Seq(Upto(now)) /\ Backed(L, 0, Content(redis[0]), now)
      <3>1. PICK w \in Nat \ {0} : w = Span(Before)
        BY BeforeIsRule
      <3>2. CASE u + w <= now
        <4>1. Content(redis[0]) = Nothing
          BY <1>1, <2>2, <3>1, <3>2 DEF Content, None
        <4>2. u \in Int /\ now \in Int /\ u <= now - w
          BY <1>1, <3>2
        <4>3. Backed(L, 0, Nothing, now)
          BY <2>2, <3>1, <4>2, ExpiredBacks
        <4> QED
          BY <4>1, <4>3, EmptyHistory
      <3>3. CASE ~(u + w <= now)
        <4>1. Content(redis[0]) = redis[0].content
          BY <2>2, <3>1, <3>3 DEF Content
        <4>2. Upto(u) \subseteq Upto(now)
          BY <1>1 DEF Upto
        <4> QED
          BY <2>2, <4>1, <4>2
      <3> QED
        BY <3>2, <3>3
    <2> QED
      BY <2>1, <2>2 DEF CountedInRedis
  <1> QED
    BY <1>2, <1>3

\* What a hit leaves in Redis, and in a memory.
LEMMA HitLeaves ==
  ASSUME Shape, Counts, CountedInRedis, CountedInMemory
  PROVE  /\ \A after : after = HitEntry("redis", redis[0], Before) =>
              /\ after.content = Hit(Content(redis[0]), now, Before)
              /\ after.content \in Seq(Upto(now)) /\ after.expires = now + Span(Before)
         /\ \A p \in Processes : \A after :
              updating[p] = "no" /\ after = HitEntry("memory", fallback[p], Before) =>
                /\ after.content = Hit(fallback[p].content, now, Before)
                /\ after.content \in Seq(Int) /\ after.expires = None
  <1>1. now \in Nat /\ now \in Int /\ now \in Upto(now) /\ Upto(now) \in SUBSET Int /\ Int \in SUBSET Int
    BY RedisAssumption DEF Shape, Upto
  <1>2. Content(redis[0]) \in Seq(Upto(now))
    <2>1. Backed({}, 0, redis[0].content, now)
      BY UnusedBacks
    <2> QED
      BY <2>1, ContentBacks
  <1>3. Hit(Content(redis[0]), now, Before) \in Seq(Upto(now))
    BY <1>1, <1>2, BeforeIsRule, HitType
  <1>4. ASSUME NEW p \in Processes, updating[p] = "no"
        PROVE  /\ Content(fallback[p]) = fallback[p].content
               /\ Hit(fallback[p].content, now, Before) \in Seq(Int)
    <2>1. fallback[p].content \in Seq(Int) /\ fallback[p].expires = None
      BY <1>4 DEF CountedInMemory
    <2>2. Hit(fallback[p].content, now, Before) \in Seq(Int)
      BY <1>1, <2>1, BeforeIsRule, HitType
    <2> QED
      BY <2>1, <2>2 DEF Content
  <1> QED
    BY <1>3, <1>4 DEF HitEntry, HitExpires

\* When nothing is granted the ledger stays as it is.
LEMMA BookedLater ==
  ASSUME NEW L, NEW sources, NEW more, sources \subseteq more, NEW log,
         NEW t \in Nat, NEW u \in Nat, t <= u, Booked(L, sources, t, log)
  PROVE  Booked(L, more, u, log)
  <1>1. 0 .. t \subseteq 0 .. u
    OBVIOUS
  <1> QED
    BY <1>1 DEF Booked

LEMMA NothingKept ==
  ASSUME Shape, Shape', [Next]_vars, Counts', CountedInRedis, CountedInMemory, Counting,
         NothingGranted
  PROVE  CountedInRedis' /\ CountedInMemory' /\ Counting'
  <1>1. /\ Counts /\ Sources' = Sources /\ Memories' = Memories /\ grants' = grants
        /\ redis'[0] = redis[0]
        /\ \A q \in Processes : updating'[q] = "no" => updating[q] = "no" /\ fallback'[q] = fallback[q]
    BY CountsBefore DEF NothingGranted
  <1>2. PICK t \in Nat, u \in Nat : t = now /\ u = now' /\ t <= u /\ t \in Int /\ u \in Int
    <2>1. now \in Nat /\ now' \in Nat
      BY RedisAssumption DEF Shape
    <2>2. now <= now'
      BY <2>1 DEF NothingGranted
    <2> QED
      BY <2>1, <2>2
  <1>3. CountedInRedis'
    <2>1. 0 .. t \subseteq 0 .. u
      BY <1>2
    <2> QED
      BY <1>1, <1>2, <2>1 DEF CountedInRedis
  <1>4. CountedInMemory'
    BY <1>1 DEF CountedInMemory
  <1>5. PICK L, memory :
          /\ Booked(L, Sources, t, grants) /\ Owned(memory, Memories)
          /\ \A s \in Nat : Spread(L, s)
          /\ Backed(L, 0, redis[0].content, t)
          /\ \A p \in Processes :
               updating[p] = "no" => Backed(L, memory[p], fallback[p].content, t)
    BY <1>1, <1>2 DEF Counting
  <1>6. Booked(L, Sources, u, grants)
    BY <1>2, <1>5, BookedLater
  <1>7. \A s, h : Backed(L, s, h, t) => Backed(L, s, h, u)
    BY <1>2, BackedLater
  <1>8. /\ Booked(L, Sources', now', grants') /\ Owned(memory, Memories')
        /\ Backed(L, 0, redis'[0].content, now')
        /\ \A p \in Processes :
             updating'[p] = "no" => Backed(L, memory[p], fallback'[p].content, now')
    BY <1>1, <1>2, <1>5, <1>6, <1>7
  <1>9. Counting'
    BY <1>5, <1>8 DEF Counting
  <1> QED
    BY <1>3, <1>4, <1>9

LEMMA RedisHitKept ==
  ASSUME Shape, Shape', [Next]_vars, Counts', CountedInRedis, CountedInMemory, Counting,
         HitInRedis
  PROVE  CountedInRedis' /\ CountedInMemory' /\ Counting'
  <1>1. /\ Counts /\ Sources' = Sources /\ Memories' = Memories /\ now' = now
        /\ updating' = updating /\ fallback' = fallback
        /\ redis'[0] = HitEntry("redis", redis[0], Before)
    BY CountsBefore DEF HitInRedis, HitAt
  <1>2. /\ redis'[0].content = Hit(Content(redis[0]), now, Before)
        /\ redis'[0].content \in Seq(Upto(now)) /\ redis'[0].expires = now + Span(Before)
    BY <1>1, HitLeaves
  <1>3. CountedInRedis'
    <2>1. now \in 0 .. now'
      BY <1>1, RedisAssumption DEF Shape
    <2> QED
      BY <1>1, <1>2, <2>1 DEF CountedInRedis
  <1>4. CountedInMemory'
    BY <1>1 DEF CountedInMemory
  <1>5. PICK L, memory :
          /\ Booked(L, Sources, now, grants) /\ Owned(memory, Memories)
          /\ \A s \in Nat : Spread(L, s)
          /\ Backed(L, 0, redis[0].content, now)
          /\ \A p \in Processes :
               updating[p] = "no" => Backed(L, memory[p], fallback[p].content, now)
    BY <1>1 DEF Counting
  <1>6. PICK h : h = Content(redis[0]) /\ h \in Seq(Int) /\ Backed(L, 0, h, now)
    BY <1>1, <1>5, ContentBacks
  <1>7. Logs(h, now, grants, grants')
    BY <1>2, <1>6 DEF HitInRedis, HitAt, Logs
  <1>8. /\ Sources \in SUBSET Nat /\ 0 \in Sources
        /\ now \in 0 .. MaxTime /\ grants \in [0 .. MaxTime -> Nat]
    BY MemoriesAreMany DEF Shape
  <1>9. Kept(L, 0, h, now, Sources, grants')
    BY <1>5, <1>6, <1>7, <1>8, HitKeeps
  <1>10. PICK K : /\ Booked(K, Sources, now, grants') /\ \A r \in Nat : Spread(K, r)
                 /\ Backed(K, 0, Hit(h, now, Before), now)
                 /\ \A r, k : r # 0 /\ Backed(L, r, k, now) => Backed(K, r, k, now)
    BY <1>9 DEF Kept
  <1>11. \A p \in Processes : memory[p] # 0
    BY <1>5, MemoriesAreMany DEF Owned
  <1>12. /\ Booked(K, Sources', now', grants') /\ Owned(memory, Memories')
         /\ Backed(K, 0, redis'[0].content, now')
         /\ \A p \in Processes :
              updating'[p] = "no" => Backed(K, memory[p], fallback'[p].content, now')
    BY <1>1, <1>2, <1>5, <1>6, <1>10, <1>11
  <1>13. Counting'
    BY <1>10, <1>12 DEF Counting
  <1> QED
    BY <1>3, <1>4, <1>13

LEMMA MemoryHitKept ==
  ASSUME Shape, Shape', [Next]_vars, Counts', CountedInRedis, CountedInMemory, Counting,
         NEW p \in Processes, HitInMemory(p)
  PROVE  CountedInRedis' /\ CountedInMemory' /\ Counting'
  <1>1. /\ Counts /\ Sources' = Sources /\ Memories' = Memories /\ now' = now
        /\ updating' = updating /\ updating[p] = "no" /\ redis' = redis /\ counter_mode = "local"
        /\ fallback'[p] = HitEntry("memory", fallback[p], Before)
        /\ \A q \in Processes \ {p} : fallback'[q] = fallback[q]
    BY CountsBefore DEF HitInMemory, HitAt
  <1>2. /\ fallback'[p].content = Hit(fallback[p].content, now, Before)
        /\ fallback'[p].content \in Seq(Int) /\ fallback'[p].expires = None
    BY <1>1, HitLeaves
  <1>3. CountedInRedis'
    BY <1>1 DEF CountedInRedis
  <1>4. CountedInMemory'
    BY <1>1, <1>2 DEF CountedInMemory
  <1>5. PICK L, memory :
          /\ Booked(L, Sources, now, grants) /\ Owned(memory, Memories)
          /\ \A s \in Nat : Spread(L, s)
          /\ Backed(L, 0, redis[0].content, now)
          /\ \A q \in Processes :
               updating[q] = "no" => Backed(L, memory[q], fallback[q].content, now)
    BY <1>1 DEF Counting
  <1>6. PICK h : h = fallback[p].content /\ h \in Seq(Int) /\ Backed(L, memory[p], h, now)
    BY <1>1, <1>5 DEF CountedInMemory
  <1>7. Logs(h, now, grants, grants')
    BY <1>2, <1>6 DEF HitInMemory, HitAt, Logs
  <1>8. PICK s : s = memory[p]
    OBVIOUS
  <1>9. /\ Sources \in SUBSET Nat /\ s \in Sources /\ s # 0
        /\ now \in 0 .. MaxTime /\ grants \in [0 .. MaxTime -> Nat]
        /\ \A q \in Processes \ {p} : memory[q] # s
    <2>1. PICK n \in Nat : n = Memories /\ \A r \in 1 .. n : r \in Sources /\ r # 0
      BY <1>1, MemoriesAreMany
    <2>2. s \in 1 .. n /\ \A q \in Processes \ {p} : memory[q] # s
      BY <1>5, <1>8, <2>1 DEF Owned
    <2>3. now \in 0 .. MaxTime /\ grants \in [0 .. MaxTime -> Nat]
      BY DEF Shape
    <2> QED
      BY <2>1, <2>2, <2>3, MemoriesAreMany
  <1>10. Kept(L, s, h, now, Sources, grants')
    BY <1>5, <1>6, <1>7, <1>8, <1>9, HitKeeps
  <1>11. PICK K : /\ Booked(K, Sources, now, grants') /\ \A r \in Nat : Spread(K, r)
                  /\ Backed(K, s, Hit(h, now, Before), now)
                  /\ \A r, k : r # s /\ Backed(L, r, k, now) => Backed(K, r, k, now)
    BY <1>10 DEF Kept
  <1>12. Booked(K, Sources', now', grants') /\ Owned(memory, Memories')
    BY <1>1, <1>5, <1>11
  <1>13. Backed(K, 0, redis'[0].content, now')
    BY <1>1, <1>5, <1>9, <1>11
  <1>14. ASSUME NEW q \in Processes, updating'[q] = "no"
         PROVE  Backed(K, memory[q], fallback'[q].content, now')
    <2>1. CASE q = p
      BY <1>1, <1>2, <1>6, <1>8, <1>11, <2>1
    <2>2. CASE q # p
      BY <1>1, <1>5, <1>9, <1>11, <1>14, <2>2
    <2> QED
      BY <2>1, <2>2
  <1>15. Counting'
    BY <1>11, <1>12, <1>13, <1>14 DEF Counting
  <1> QED
    BY <1>3, <1>4, <1>15

\* A memory that has lost the counter is a new source.
LEMMA MemoryLostKept ==
  ASSUME Shape, Shape', [Next]_vars, Counts', CountedInRedis, CountedInMemory, Counting,
         NEW p \in Processes, MemoryLost(p)
  PROVE  CountedInRedis' /\ CountedInMemory' /\ Counting'
  <1>1. /\ Counts /\ counter_mode' = counter_mode /\ now' = now
        /\ restarts' + evictions' = restarts + evictions + 1
        /\ redis' = redis /\ grants' = grants /\ fallback'[p] = Absent
        /\ \A q \in Processes \ {p} : updating'[q] = updating[q] /\ fallback'[q] = fallback[q]
    BY CountsBefore DEF MemoryLost
  <1>2. fallback'[p].content = Nothing /\ fallback'[p].expires = None
    BY <1>1 DEF Absent
  <1>3. CountedInRedis'
    BY <1>1 DEF CountedInRedis
  <1>4. CountedInMemory'
    BY <1>1, <1>2, EmptyHistory DEF CountedInMemory
  <1>5. PICK L, memory :
          /\ Booked(L, Sources, now, grants) /\ Owned(memory, Memories)
          /\ \A s \in Nat : Spread(L, s)
          /\ Backed(L, 0, redis[0].content, now)
          /\ \A q \in Processes :
               updating[q] = "no" => Backed(L, memory[q], fallback[q].content, now)
    BY <1>1 DEF Counting
  <1>6. PICK n \in Nat : n = Memories
    BY MemoriesAreMany
  <1>7. Memories' = n + 1
    <2>1. PICK c \in Nat : c = Cardinality(Processes)
      BY MemoriesAreMany
    <2>2. PICK r \in Nat, e \in Nat, rr \in Nat, ee \in Nat :
            r = restarts /\ e = evictions /\ rr = restarts' /\ ee = evictions'
      BY DEF Shape
    <2>3. n = c + r + e /\ Memories' = c + rr + ee
      BY <1>6, <2>1, <2>2 DEF Memories
    <2>4. rr + ee = r + e + 1
      BY <1>1, <2>2
    <2> QED
      BY <2>3, <2>4
  <1>8. Sources \subseteq Sources'
    BY <1>1, <1>6, <1>7 DEF Sources
  <1>9. PICK t \in Nat : t = now
    BY RedisAssumption DEF Shape
  <1>10. Booked(L, Sources', now', grants')
    <2>1. Booked(L, Sources', t, grants)
      BY <1>5, <1>8, <1>9, BookedLater
    <2> QED
      BY <1>1, <1>9, <2>1
  <1> DEFINE owner == [memory EXCEPT ![p] = n + 1]
  <1>11. /\ owner[p] = n + 1 /\ \A q \in Processes \ {p} : owner[q] = memory[q]
         /\ Owned(owner, Memories')
    <2>1. /\ memory \in [Processes -> 1 .. n]
          /\ \A q \in Processes, r \in Processes : memory[q] = memory[r] => q = r
      BY <1>5, <1>6 DEF Owned
    <2>2. 1 .. n \subseteq 1 .. (n + 1) /\ n + 1 \in 1 .. (n + 1) /\ n + 1 \notin 1 .. n
      BY <1>6
    <2>3. owner \in [Processes -> 1 .. (n + 1)]
      BY <2>1, <2>2
    <2>4. owner[p] = n + 1 /\ \A q \in Processes \ {p} : owner[q] = memory[q] /\ owner[q] # n + 1
      BY <2>1, <2>2
    <2>5. \A q \in Processes, r \in Processes : owner[q] = owner[r] => q = r
      BY <2>1, <2>4
    <2> QED
      BY <1>7, <2>3, <2>4, <2>5 DEF Owned
  <1> HIDE DEF owner
  <1>12. Backed(L, 0, redis'[0].content, now')
    BY <1>1, <1>5
  <1>13. Backed(L, n + 1, Nothing, now')
    <2>1. \A g \in L : g[1] # n + 1
      <3>1. \A s \in Sources : s # n + 1
        BY <1>6, MemoriesAreMany
      <3> QED
        BY <1>5, <3>1 DEF Booked
    <2> QED
      BY <2>1, UnusedBacks
  <1>14. ASSUME NEW q \in Processes, updating'[q] = "no"
         PROVE  Backed(L, owner[q], fallback'[q].content, now')
    <2>1. CASE q = p
      BY <1>2, <1>11, <1>13, <2>1
    <2>2. CASE q # p
      BY <1>1, <1>5, <1>11, <1>14, <2>2
    <2> QED
      BY <2>1, <2>2
  <1>15. Counting'
    BY <1>5, <1>10, <1>11, <1>12, <1>14 DEF Counting
  <1> QED
    BY <1>3, <1>4, <1>15

LEMMA LedgerKept ==
  ASSUME Shape, Shape', KeysReached, BeforeCalls, [Next]_vars,
         CountedInRedis, CountedInMemory, Counting
  PROVE  CountedInRedis' /\ CountedInMemory' /\ Counting'
  <1>1. CASE ~Counts'
    BY <1>1 DEF CountedInRedis, CountedInMemory, Counting
  <1>2. CASE Counts'
    <2>1. \/ NothingGranted \/ HitInRedis
          \/ \E p \in Processes : HitInMemory(p) \/ MemoryLost(p)
      <3>1. subject = "counter" /\ counter_mode # "open" /\ ~strayed'
        BY <1>2, CountsBefore DEF Counts
      <3> QED
        BY <3>1, CounterSteps
    <2> QED
      BY <1>2, <2>1, NothingKept, RedisHitKept, MemoryHitKept, MemoryLostKept
  <1> QED
    BY <1>1, <1>2
-----------------------------------------------------------------------------
LEMMA LedgerBegins ==
  ASSUME Init
  PROVE  CountedInRedis /\ CountedInMemory /\ Counting
  <1>1. /\ restarts = 0 /\ evictions = 0 /\ now = 0 /\ redis[0] = Absent /\ grants = [t \in 0 .. MaxTime |-> 0]
        /\ \A p \in Processes : fallback[p] = Absent
    BY DEF Init, Generations
  <1>2. Absent.content = Nothing /\ Absent.expires = None
    BY DEF Absent
  <1>3. PICK n \in Nat : n = Cardinality(Processes)
    BY RedisAssumption, FS_CardinalityType
  <1>4. Memories = n
    BY <1>1, <1>3 DEF Memories
  <1>5. \E memory : Owned(memory, n)
    <2>1. n \in Int /\ 1 \in Int /\ (IF 1 > n THEN 0 ELSE n - 1 + 1) = n
      OBVIOUS
    <2>2. IsFiniteSet(1 .. n) /\ Cardinality(1 .. n) = n
      BY <2>1, FS_Interval
    <2>3. ExistsBijection(Processes, 1 .. n)
      BY <1>3, <2>2, RedisAssumption, FS_SameCardinalityBij
    <2> QED
      BY <2>3 DEF ExistsBijection, Bijection, Injection, IsInjective, Owned
  <1>6. Booked({}, Sources, now, grants)
    <2>1. \A t \in 0 .. MaxTime : 1 .. grants[t] = {}
      BY <1>1
    <2>2. {} \in SUBSET Entries /\ IsFiniteSet({})
      BY FS_EmptySet
    <2> QED
      BY <2>1, <2>2 DEF Booked
  <1>7. \A s, h, t : Backed({}, s, h, t) /\ Spread({}, s)
    BY UnusedBacks
  <1>8. Counting
    BY <1>4, <1>5, <1>6, <1>7 DEF Counting
  <1> QED
    BY <1>1, <1>2, <1>8, EmptyHistory DEF CountedInRedis, CountedInMemory

LEMMA GrantsInvHolds == Spec => []GrantsInv
  <1>1. Init => GrantsInv
    <2> SUFFICES ASSUME Init
                 PROVE  GrantsInv
      OBVIOUS
    <2>1. BeforeCalls
      BY DEF Init, BeforeCalls
    <2>2. OthersGrantNothing
      BY DEF Init, OthersGrantNothing
    <2> QED
      BY <2>1, <2>2, LedgerBegins DEF GrantsInv
  <1>2. RedisInv /\ RedisInv' /\ GrantsInv /\ [Next]_vars => GrantsInv'
    BY BeforeCallsKept, OthersGrantNothingKept, LedgerKept DEF RedisInv, GrantsInv
  <1> QED
    BY <1>1, <1>2, RedisInvHolds, PTL DEF Spec

\* What a window may hold follows from what each source may grant in it.
LEMMA WindowsHold ==
  ASSUME Shape, GrantsInv, counter_mode # "open", ~strayed,
         NEW n \in Nat, \A s \in Sources : s <= n, \A s \in 0 .. n : s \in Sources
  PROVE  Within(n)
  <1> DEFINE During(from) == {t \in DOMAIN grants : from <= t /\ t < from + Span(Before)}
  <1>1. DOMAIN grants = 0 .. MaxTime /\ 0 .. MaxTime \subseteq Nat
    BY RedisAssumption DEF Shape
  <1> SUFFICES ASSUME NEW from \in 0 .. MaxTime
               PROVE  Cardinality(GrantsOf(During(from))) <= Before.count * (1 + n)
    BY <1>1 DEF Within
  <1>2. CASE subject = "counter"
    <2>1. PICK L : Booked(L, Sources, now, grants) /\ \A s \in Nat : Spread(L, s)
      BY <1>2 DEF GrantsInv, Counting, Counts
    <2>2. L \in SUBSET Entries /\ IsFiniteSet(L)
      BY <2>1 DEF Booked
    <2>3. from \in Int
      OBVIOUS
    <2>4. \A s \in 0 .. n : Cardinality(InWindow(L, s, from)) <= Before.count
      BY <2>1, <2>3 DEF Spread
    <2>5. /\ During(from) \in SUBSET Nat
          /\ \A t \in During(from) : from <= t /\ t < from + Span(Before)
      BY <1>1
    <2>6. \A t \in During(from) : \A i \in 1 .. grants[t] : \E s \in 0 .. n : <<s, t, i>> \in L
      <3>1. \A s \in Sources : s \in 0 .. n
        BY MemoriesAreMany
      <3> QED
        BY <1>1, <2>1, <3>1 DEF Booked
    <2> HIDE DEF During
    <2> QED
      BY <2>2, <2>3, <2>4, <2>5, <2>6, LedgerBound
  <1>3. CASE subject # "counter"
    <2>1. \A t \in 0 .. MaxTime : 1 .. grants[t] = {}
      BY <1>3 DEF GrantsInv, OthersGrantNothing
    <2>2. GrantsOf(During(from)) = {}
      BY <1>1, <2>1 DEF GrantsOf
    <2>3. Cardinality(GrantsOf(During(from))) = 0
      BY <2>2, FS_EmptySet
    <2>4. \A c \in Nat : c * (1 + n) \in Nat
      OBVIOUS
    <2>5. Before.count * (1 + n) \in Nat
      BY <2>4, BeforeIsRule
    <2> HIDE DEF During
    <2> QED
      BY <2>3, <2>5
  <1> QED
    BY <1>2, <1>3

\* The processes that share a rule keep to its limit together when calls that
\* Redis does not answer are refused, and exceed it by no more than once for
\* each memory that answers in its place and once for each time such a memory
\* lost the counter, to a restart or because it was full, in every window,
\* whatever else is lost, recorded twice or cancelled, unless a hit under
\* another rule strayed into their counter (redis.py record_hit,
\* _handle_record_hit_failure, memory.py _evict_counters_if_needed).
THEOREM GrantsStayBounded == Spec => []GrantsBounded
  <1>1. ASSUME RedisInv, GrantsInv
        PROVE  GrantsBounded
    <2> SUFFICES ASSUME counter_mode # "open", ~strayed
                 PROVE  Within(IF counter_mode = "closed" THEN 0 ELSE Memories)
      BY DEF GrantsBounded, Memories
    <2>1. PICK n : n = IF counter_mode = "closed" THEN 0 ELSE Memories
      OBVIOUS
    <2>2. Sources = 0 .. n
      BY <2>1 DEF Sources
    <2>3. n \in Nat
      BY <1>1, <2>1, MemoriesAreMany DEF RedisInv
    <2>4. \A s \in 0 .. n : s <= n
      BY <2>3
    <2>5. Within(n)
      BY <1>1, <2>2, <2>3, <2>4, WindowsHold DEF RedisInv
    <2> QED
      BY <2>1, <2>5
  <1> QED
    BY <1>1, RedisInvHolds, GrantsInvHolds, PTL
=============================================================================
