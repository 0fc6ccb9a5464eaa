--------------------------- MODULE ManagerStorage ----------------------------
(***************************************************************************)
(* ManagerStorage: a dictionary that processes share through a manager,    *)
(* and the approximate counter that a Storage without record_hit of its    *)
(* own falls back on: one number per window of the clock.                  *)
(*                                                                         *)
(* Every operation runs in a worker thread and holds the shared lock, so   *)
(* each is one action, but only some time after the call; a caller who is  *)
(* cancelled meanwhile does not stop the thread.  A deadline is an entry   *)
(* of the dictionary beside the value's; the two come and go together.     *)
(***************************************************************************)
EXTENDS Integers, FiniteSets

CONSTANTS
  Instances,   \* the processes, with one ManagerStorage and one caller each
  Names,       \* the plain keys
  Lifetimes,   \* the values of expire in ticks, without None
  Interval,    \* _cleanup_interval in ticks
  Window,      \* of the rule that counts, in ticks
  Count,       \* its limit
  MaxValue,    \* bound on the values and on the hits of a bucket
  MaxTime,     \* bound on the clock
  MaxCancels   \* bound on cancelled calls

ASSUME ManagerAssumption ==
  /\ Lifetimes \subseteq Nat \ {0}
  /\ IsFiniteSet(Names)
  /\ {Interval, Window, Count, MaxValue} \subseteq Nat \ {0}
  /\ {MaxTime, MaxCancels} \subseteq Nat

VARIABLES
  subject,       \* the operations that this behavior follows
  now,
  entries,       \* the shared dictionary: per key, Absent or a value and its deadline
  next_cleanup,  \* per instance
  call,          \* per instance, the operation its caller waits for
  detached,      \* operations in threads that nobody waits for
  cancels,
  reply,         \* what the last operation returned
  \* History variables.
  grants,        \* per instant, the requests called then and found within the limit
  slow           \* a hit was recorded more than a window after its call

ghosts == <<grants, slow>>
vars == <<subject, now, entries, next_cleanup, call, detached, cancels, reply, ghosts>>

None == 0
Absent == <<>>
Idle == [op |-> "none"]

\* The slip of a bucket that is an instant.
BucketOfInstant(t) == t

\* int(now // window_seconds)
Bucket(t) == t \div Window
Buckets == {"bucket"} \X (0 .. Bucket(MaxTime))
Keys == ({"name"} \X Names) \cup Buckets

\* A behavior has every operation on names, or hits, or hits beside other writes;
\* cancelled calls in the first two, which is a bound.
Operations ==
  LET On(ops, expires) == [op : ops, key : {"name"} \X Names, expire : expires]
  IN  On({"get", "delete"}, {None}) \cup On({"set", "incr"}, Lifetimes \cup {None})
Mixed == {c \in Operations : c.op = "set" /\ c.expire # None}
Subjects == {Operations, {}, Mixed}

Init ==
  /\ subject \in Subjects
  /\ now = 0
  /\ entries = [k \in Keys |-> Absent]
  /\ next_cleanup = [i \in Instances |-> 0]
  /\ call = [i \in Instances |-> Idle]
  /\ detached = {} /\ cancels = 0
  /\ reply = Absent
  /\ grants = [t \in 0 .. MaxTime |-> 0]
  /\ slow = FALSE
-----------------------------------------------------------------------------
\* What an operation does once its thread has the lock.

Live(e) == IF e # Absent /\ e[2] # None /\ e[2] <= now THEN Absent ELSE e

\* A sweep that every write puts off.
SweepPutOff(i) == next_cleanup' = [next_cleanup EXCEPT ![i] = now + Interval]

\* At most once per interval a write drops everything that has expired.
SweepDue(i) == now >= next_cleanup[i]
Sweep(i) == next_cleanup' = IF SweepDue(i) THEN [next_cleanup EXCEPT ![i] = now + Interval]
                            ELSE next_cleanup
Swept(i) == IF SweepDue(i) THEN [k \in Keys |-> Live(entries[k])] ELSE entries

Write(i, k, value, deadline) ==
  /\ Sweep(i)
  /\ entries' = [Swept(i) EXCEPT ![k] = <<value, deadline>>]

Get(k) ==
  /\ entries' = [entries EXCEPT ![k] = Live(@)]
  /\ reply' = IF Live(entries[k]) = Absent THEN <<"nothing">> ELSE <<"value", entries[k][1]>>
  /\ UNCHANGED next_cleanup

\* A set that clears no deadline.
SetKeepingDeadline(i, k, value, expire) ==
  /\ Write(i, k, value, IF expire # None THEN now + expire
                        ELSE IF Live(entries[k]) = Absent THEN None ELSE entries[k][2])
  /\ reply' = <<"done">>

Set(i, k, value, expire) ==
  /\ Write(i, k, value, IF expire = None THEN None ELSE now + expire)
  /\ reply' = <<"done">>

\* incr, up to what it returns.
Counted(k) == IF Live(entries[k]) = Absent THEN 1 ELSE entries[k][1] + 1

Incr(i, k, expire) ==
  Write(i, k, Counted(k), IF expire # None THEN now + expire
                          ELSE IF Live(entries[k]) = Absent THEN None ELSE entries[k][2])

Delete(k) ==
  /\ entries' = [entries EXCEPT ![k] = Absent]
  /\ reply' = <<"done">>
  /\ UNCHANGED next_cleanup

\* The slip of a counter that lives for one window.
HitForWindow(i, c) ==
  /\ Counted(c.key) <= MaxValue
  /\ Incr(i, c.key, Window)
  /\ UNCHANGED reply

\* The counter of a window outlives it by another.
Hit(i, c) ==
  /\ Counted(c.key) <= MaxValue
  /\ Incr(i, c.key, 2 * Window)
  /\ UNCHANGED reply

Perform(i, c) ==
  CASE c.op = "get" -> Get(c.key)
    [] c.op = "set" -> Set(i, c.key, 1, c.expire)
    [] c.op = "incr" -> /\ Counted(c.key) <= MaxValue
                        /\ Incr(i, c.key, c.expire)
                        /\ reply' = <<"value", Counted(c.key)>>
    [] c.op = "delete" -> Delete(c.key)
    [] c.op = "hit" -> Hit(i, c)
-----------------------------------------------------------------------------
Tick ==
  /\ now < MaxTime
  /\ now' = now + 1
  /\ UNCHANGED <<subject, entries, next_cleanup, call, detached, cancels, reply, ghosts>>

\* asyncio.to_thread
Call(i, c) ==
  /\ call[i] = Idle
  /\ call' = [call EXCEPT ![i] = c]
  /\ UNCHANGED <<subject, now, entries, next_cleanup, detached, cancels, reply, ghosts>>

\* record_hit chooses the counter before it waits for a thread.
RecordHit(i) == Call(i, [op |-> "hit", key |-> <<"bucket", Bucket(now)>>, at |-> now])

Run(i) ==
  LET c == call[i]
  IN  /\ c # Idle
      /\ Perform(i, c)
      /\ call' = [call EXCEPT ![i] = Idle]
      /\ IF c.op = "hit"
         THEN /\ grants' = IF Counted(c.key) > Count THEN grants ELSE [grants EXCEPT ![c.at] = @ + 1]
              /\ slow' = (slow \/ now > c.at + Window)
         ELSE UNCHANGED ghosts
      /\ UNCHANGED <<subject, now, detached, cancels>>

\* A job that no thread has taken up yet is dropped, a thread that waits for the
\* lock goes on.
Cancel(i) ==
  /\ call[i] # Idle
  /\ cancels < MaxCancels /\ subject # Mixed
  /\ cancels' = cancels + 1
  /\ call' = [call EXCEPT ![i] = Idle]
  /\ detached' \in {detached, detached \cup {[instance |-> i, operation |-> call[i]]}}
  /\ UNCHANGED <<subject, now, entries, next_cleanup, reply, ghosts>>

RunDetached(d) ==
  /\ Perform(d.instance, d.operation)
  /\ detached' = detached \ {d}
  /\ slow' = (slow \/ (d.operation.op = "hit" /\ now > d.operation.at + Window))
  /\ UNCHANGED <<subject, now, call, cancels, grants>>

\* cleanup_handler_counters of the endpoint, or cleanup_orphaned_counters when
\* it has no policy any more.
CleanupCounters ==
  /\ entries' = [k \in Keys |-> IF k \in Buckets THEN Absent ELSE entries[k]]
  /\ grants' = [t \in 0 .. MaxTime |-> 0]
  /\ UNCHANGED <<subject, now, next_cleanup, call, detached, cancels, reply, slow>>

Next ==
  \/ Tick
  \/ \E i \in Instances :
       \/ \E c \in subject : Call(i, c)
       \/ subject # Operations /\ RecordHit(i)
       \/ Run(i)
       \/ Cancel(i)
  \/ \E d \in detached : RunDetached(d)
  \/ CleanupCounters

Spec == Init /\ [][Next]_vars
-----------------------------------------------------------------------------
\* The shape of the state; no counter is of a window that is yet to come.
TypeOK ==
  /\ subject \in Subjects
  /\ now \in 0 .. MaxTime
  /\ \A k \in Keys : entries[k] # Absent =>
       /\ entries[k] \in (Nat \ {0}) \X Nat
       /\ k \in Buckets => k[2] * Window <= now /\ entries[k][2] # None
  /\ next_cleanup \in [Instances -> 0 .. MaxTime + Interval]
  /\ cancels \in 0 .. MaxCancels
  /\ grants \in [0 .. MaxTime -> Nat]

\* A pair for each of the grants of the instants in W.
GrantsOf(log, W) == UNION {{t} \X (1 .. log[t]) : t \in W}

\* The approximate counter lets no more than twice the limit through in any
\* window, however its hits are delayed, cancelled or swept, as long as none is
\* recorded more than a window after its call (base.py record_hit).
TwiceTheLimit ==
  LET During(from) == {t \in DOMAIN grants : from <= t /\ t < from + Window}
  IN  ~slow => \A from \in DOMAIN grants :
        Cardinality(GrantsOf(grants, During(from))) <= 2 * Count

\* After a write nothing is left that expired an interval ago or earlier, though
\* every process sweeps on its own schedule (manager.py _cleanup_expired).
GarbageBounded ==
  [][\A i \in Instances :
       call[i].op \in {"set", "incr", "hit"} /\ call'[i] = Idle /\ cancels' = cancels =>
         \A k \in Keys : entries'[k] = Absent \/ entries'[k][2] = None
                         \/ entries'[k][2] > now - Interval]_vars

\* The plain keys keep KeyPromise, whoever's sweep or lazy expiry removes what,
\* and though operations of cancelled callers take effect late.
Seen == [k \in {"name"} \X Names |-> Live(entries[k])]

P == INSTANCE KeyPromise WITH
  Keys <- {"name"} \X Names,
  Protected <- {},
  Capacity <- Cardinality(Names),
  Values <- 1 .. MaxValue,
  clock <- now,
  entries <- Seen

KeepsPromise == P!Spec
=============================================================================
