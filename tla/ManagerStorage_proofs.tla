------------------------ MODULE ManagerStorage_proofs ------------------------
(***************************************************************************)
(* ManagerStorage for every set of processes, names and lifetimes, every   *)
(* interval, window and limit: the shape of the shared dictionary, that a  *)
(* write leaves no old garbage, that the approximate counter never lets    *)
(* more than twice its limit through, and that the plain keys keep         *)
(* KeyPromise.                                                             *)
(***************************************************************************)
EXTENDS ManagerStorage, FiniteSetTheorems, TLAPS

-----------------------------------------------------------------------------
\* The inductive invariant.

PlainKeys == {"name"} \X Names
Pairs == (Nat \ {0}) \X Nat
HitAt(t) == [op |-> "hit", key |-> <<"bucket", Bucket(t)>>, at |-> t]

\* What a caller may wait for, and a thread nobody waits for may still do.
Commands == Operations \cup {HitAt(t) : t \in 0 .. now}

Shape ==
  /\ subject \in Subjects
  /\ now \in 0 .. MaxTime
  /\ entries \in [Keys -> {Absent} \cup Pairs]
  /\ next_cleanup \in [Instances -> Nat]
  /\ call \in [Instances -> {Idle} \cup Commands]
  /\ detached \subseteq [instance : Instances, operation : Commands]
  /\ cancels \in 0 .. MaxCancels
  /\ grants \in [0 .. MaxTime -> Nat]
  /\ slow \in BOOLEAN

\* A counter is of a window that has begun, and does not live for ever.
CountersBegun ==
  \A k \in Buckets : entries[k] # Absent => k[2] * Window <= now /\ entries[k][2] # None

\* No process plans its sweep further ahead than an interval, and nothing is
\* left that had expired when any of them last swept.
SweepsPlanned == \A i \in Instances : next_cleanup[i] <= now + Interval
SweptOnce ==
  \A i \in Instances, k \in Keys :
    entries[k] = Absent \/ entries[k][2] = None \/ entries[k][2] > next_cleanup[i] - Interval

\* The grants of a window of the clock.
InBucket(b) == {t \in 0 .. MaxTime : Bucket(t) = b}
Granted(log, b) == Cardinality(GrantsOf(log, InBucket(b)))

\* Until a window after its own is over, the counter of a window stands for all
\* that it has granted.
Stands(e, n, b) == e # Absent /\ e[1] >= n /\ e[2] >= (b + 2) * Window
Counting ==
  ~slow => \A b \in 0 .. Bucket(MaxTime) :
             /\ Granted(grants, b) <= Count
             /\ Granted(grants, b) > 0 /\ now < (b + 2) * Window =>
                  Stands(entries[<<"bucket", b>>], Granted(grants, b), b)

ManagerInv == Shape /\ CountersBegun /\ SweepsPlanned /\ SweptOnce /\ Counting
-----------------------------------------------------------------------------
\* Windows of the clock.

\* A bucket is the interval of the clock that its number says.
LEMMA BucketSpan ==
  ASSUME NEW t \in Nat
  PROVE  /\ Bucket(t) \in Nat
         /\ Bucket(t) * Window <= t
         /\ t < Bucket(t) * Window + Window
  <1> DEFINE q == t \div Window
  <1>1. Window \in Nat \ {0}
    BY ManagerAssumption
  <1>2. q \in Int /\ Window * q <= t /\ t < Window * q + Window
    BY <1>1
  <1>3. q = Bucket(t)
    BY DEF Bucket
  <1> HIDE DEF q
  <1>4. Window * q \in Int /\ q * Window = Window * q
    BY <1>1, <1>2
  <1>5. ~(q < 0)
    <2>1. SUFFICES ASSUME q < 0
                   PROVE  FALSE
      OBVIOUS
    <2>2. Window * (q + 1) <= 0
      BY <1>1, <1>2, <2>1
    <2>3. Window * (q + 1) = Window * q + Window
      BY <1>1, <1>2
    <2> QED
      BY <1>1, <1>2, <1>4, <2>2, <2>3
  <1> QED
    BY <1>2, <1>3, <1>4, <1>5

\* Later instants are in later buckets.
LEMMA BucketsInOrder ==
  ASSUME NEW t \in Nat, NEW u \in Nat, t <= u
  PROVE  Bucket(t) <= Bucket(u)
  <1> DEFINE a == Bucket(t)
             b == Bucket(u)
  <1>1. /\ a \in Nat /\ a * Window <= t
        /\ b \in Nat /\ u < b * Window + Window
    BY BucketSpan
  <1>2. Window \in Nat \ {0}
    BY ManagerAssumption
  <1> HIDE DEF a, b
  <1>3. ~(b + 1 <= a)
    <2>1. SUFFICES ASSUME b + 1 <= a
                   PROVE  FALSE
      OBVIOUS
    <2>2. (b + 1) * Window <= a * Window
      BY <1>1, <1>2, <2>1
    <2>3. (b + 1) * Window = b * Window + Window /\ b * Window \in Nat /\ a * Window \in Nat
      BY <1>1, <1>2
    <2> QED
      BY <1>1, <1>2, <2>2, <2>3
  <1> QED
    BY <1>1, <1>3 DEF a, b

\* The keys are of two kinds; a hit is on the counter of its window.
LEMMA SortsOfKeys ==
  /\ Keys = PlainKeys \cup Buckets
  /\ PlainKeys \cap Buckets = {}
  /\ \A b \in 0 .. Bucket(MaxTime) : <<"bucket", b>> \in Buckets
  BY DEF Keys, PlainKeys, Buckets

\* What a command asks for.
LEMMA SortsOfCommands ==
  ASSUME Shape, NEW c \in Commands
  PROVE  \/ /\ c \in Operations /\ c.op \in {"get", "set", "incr", "delete"}
            /\ c.key \in PlainKeys /\ c.expire \in Lifetimes \cup {None}
         \/ /\ c.op = "hit" /\ c.at \in 0 .. now
            /\ c.key = <<"bucket", Bucket(c.at)>>
            /\ Bucket(c.at) \in 0 .. Bucket(MaxTime)
            /\ c = HitAt(c.at)
  <1>1. CASE c \in Operations
    BY <1>1 DEF Operations, PlainKeys
  <1>2. CASE \E t \in 0 .. now : c = HitAt(t)
    <2>1. PICK t \in 0 .. now : c = HitAt(t)
      BY <1>2
    <2>2. t \in Nat /\ MaxTime \in Nat /\ t <= MaxTime
      BY <2>1, ManagerAssumption DEF Shape
    <2>3. Bucket(t) \in Nat /\ Bucket(MaxTime) \in Nat /\ Bucket(t) <= Bucket(MaxTime)
      BY <2>2, BucketSpan, BucketsInOrder
    <2>4. c.op = "hit" /\ c.key = <<"bucket", Bucket(t)>> /\ c.at = t
      BY <2>1 DEF HitAt
    <2> QED
      BY <2>1, <2>3, <2>4
  <1> QED
    BY <1>1, <1>2 DEF Commands

\* Nothing stored is Absent, nor is any command Idle.
LEMMA StoredIsThere ==
  /\ \A e \in Pairs : e # Absent
  /\ \A a, b : <<a, b>> # Absent
  /\ Idle.op = "none"
  BY DEF Pairs, Absent, Idle

\* A stored value that is not absent is a value and a deadline.
LEMMA EntryType ==
  ASSUME Shape, NEW k \in Keys, entries[k] # Absent
  PROVE  /\ entries[k] \in Pairs /\ entries[k] = <<entries[k][1], entries[k][2]>>
         /\ entries[k][1] \in Nat \ {0} /\ entries[k][2] \in Nat
  BY DEF Shape, Pairs

\* What an access finds is what is stored, or nothing once the deadline has come.
LEMMA WhatIsLive ==
  ASSUME NEW e
  PROVE  /\ Live(e) = e \/ Live(e) = Absent
         /\ Live(e) # Absent => Live(e) = e /\ e # Absent /\ (e[2] = None \/ ~(e[2] <= now))
         /\ e # Absent /\ (e[2] = None \/ ~(e[2] <= now)) => Live(e) = e
         /\ Live(Absent) = Absent
  BY DEF Live

\* What incr and a hit write.
Until(k, expire) ==
  IF expire # None THEN now + expire
  ELSE IF Live(entries[k]) = Absent THEN None ELSE entries[k][2]

LEMMA CountedType ==
  ASSUME Shape, NEW k \in Keys, NEW expire \in Nat
  PROVE  /\ Counted(k) \in Nat \ {0} /\ Until(k, expire) \in Nat
         /\ Until(k, expire) = None \/ Until(k, expire) > now
         /\ <<Counted(k), Until(k, expire)>> \in Pairs
         /\ Live(entries[k]) # Absent => Counted(k) = entries[k][1] + 1
  <1>1. now \in Nat
    BY ManagerAssumption DEF Shape
  <1>2. CASE Live(entries[k]) = Absent
    BY <1>1, <1>2 DEF Counted, Until, None, Pairs
  <1>3. CASE Live(entries[k]) # Absent
    <2>1. /\ entries[k] # Absent
          /\ entries[k][2] = None \/ ~(entries[k][2] <= now)
      BY <1>3, WhatIsLive
    <2>2. entries[k][1] \in Nat \ {0} /\ entries[k][2] \in Nat
      BY <2>1, EntryType
    <2>3. Counted(k) = entries[k][1] + 1
      BY <1>3 DEF Counted
    <2>4. Until(k, expire) = IF expire # None THEN now + expire ELSE entries[k][2]
      BY <1>3 DEF Until
    <2> QED
      BY <1>1, <2>1, <2>2, <2>3, <2>4 DEF None, Pairs
  <1> QED
    BY <1>2, <1>3
-----------------------------------------------------------------------------
\* What an operation does once its thread has the lock.

\* A process writes an entry that is not expired, and sweeps when that is due.
Writes(i, k, e) ==
  /\ e \in Pairs
  /\ e[2] = None \/ e[2] > now
  /\ Sweep(i)
  /\ entries' = [Swept(i) EXCEPT ![k] = e]

LEMMA IncrWrites ==
  ASSUME Shape, NEW i \in Instances, NEW k \in Keys, NEW expire \in Nat, Incr(i, k, expire)
  PROVE  Writes(i, k, <<Counted(k), Until(k, expire)>>)
  <1> DEFINE e == <<Counted(k), Until(k, expire)>>
  <1>1. e \in Pairs /\ (Until(k, expire) = None \/ Until(k, expire) > now)
    BY CountedType
  <1>2. e[2] = Until(k, expire)
    OBVIOUS
  <1>3. Sweep(i) /\ entries' = [Swept(i) EXCEPT ![k] = e]
    BY DEF Incr, Write, Until
  <1> HIDE DEF e
  <1> QED
    BY <1>1, <1>2, <1>3 DEF Writes, e

LEMMA SetWrites ==
  ASSUME Shape, NEW i \in Instances, NEW k \in Keys, NEW v \in Nat \ {0},
         NEW expire \in Lifetimes \cup {None}, Set(i, k, v, expire)
  PROVE  Writes(i, k, <<v, IF expire = None THEN None ELSE now + expire>>)
  <1> DEFINE deadline == IF expire = None THEN None ELSE now + expire
  <1>1. now \in Nat /\ (expire # None => expire \in Nat \ {0})
    BY ManagerAssumption DEF Shape, None
  <1>2. deadline \in Nat /\ (deadline = None \/ deadline > now)
    BY <1>1 DEF None
  <1>3. Sweep(i) /\ entries' = [Swept(i) EXCEPT ![k] = <<v, deadline>>]
    BY DEF Set, Write
  <1> HIDE DEF deadline
  <1> QED
    BY <1>2, <1>3 DEF Writes, Pairs, deadline

\* The effect of a command: a look, a removal, or a write.
Effect(i, c) ==
  \/ c.op = "get" /\ c.key \in PlainKeys /\ Get(c.key)
  \/ c.op = "delete" /\ c.key \in PlainKeys /\ Delete(c.key)
  \/ /\ c.op \in {"set", "incr"} /\ c.key \in PlainKeys
     /\ \E e \in Pairs : Writes(i, c.key, e)
  \/ /\ c.op = "hit" /\ c.at \in 0 .. now
     /\ Bucket(c.at) \in 0 .. Bucket(MaxTime)
     /\ c.key = <<"bucket", Bucket(c.at)>> /\ c.key \in Buckets
     /\ Writes(i, c.key, <<Counted(c.key), now + 2 * Window>>)
     /\ UNCHANGED reply

LEMMA SetUnfolds ==
  ASSUME NEW i, NEW c, Perform(i, c), c.op = "set"
  PROVE  Set(i, c.key, 1, c.expire)
  <1>1. c.op # "get"
    OBVIOUS
  <1> QED
    BY <1>1 DEF Perform

LEMMA IncrUnfolds ==
  ASSUME NEW i, NEW c, Perform(i, c), c.op = "incr"
  PROVE  Incr(i, c.key, c.expire) /\ reply' = <<"value", Counted(c.key)>>
  <1>1. c.op # "get" /\ c.op # "set"
    OBVIOUS
  <1> QED
    BY <1>1 DEF Perform

LEMMA WindowOfAHit ==
  /\ Window \in Nat \ {0} /\ 2 * Window \in Nat \ {0} /\ 2 * Window # None
  BY ManagerAssumption DEF None

LEMMA WhatIsPerformed ==
  ASSUME Shape, NEW i \in Instances, NEW c \in Commands, Perform(i, c)
  PROVE  Effect(i, c)
  <1>1. CASE c.op = "get" /\ c.key \in PlainKeys
    BY <1>1 DEF Perform, Effect
  <1>2. CASE c.op = "delete" /\ c.key \in PlainKeys
    <2>1. c.op # "get" /\ c.op # "set" /\ c.op # "incr"
      BY <1>2
    <2> QED
      BY <1>2, <2>1 DEF Perform, Effect
  <1>3. CASE c.op = "set" /\ c.key \in PlainKeys /\ c.expire \in Lifetimes \cup {None}
    <2>1. c.key \in Keys /\ 1 \in Nat \ {0}
      BY <1>3, SortsOfKeys
    <2>2. Writes(i, c.key, <<1, IF c.expire = None THEN None ELSE now + c.expire>>)
      BY <1>3, <2>1, SetUnfolds, SetWrites
    <2> QED
      BY <1>3, <2>2 DEF Effect, Writes
  <1>4. CASE c.op = "incr" /\ c.key \in PlainKeys /\ c.expire \in Lifetimes \cup {None}
    <2>1. c.key \in Keys /\ c.expire \in Nat
      <3>1. c.key \in Keys
        BY <1>4, SortsOfKeys
      <3>2. Lifetimes \cup {None} \subseteq Nat
        BY ManagerAssumption DEF None
      <3> QED
        BY <1>4, <3>1, <3>2
    <2>2. Writes(i, c.key, <<Counted(c.key), Until(c.key, c.expire)>>)
      BY <1>4, <2>1, IncrUnfolds, IncrWrites
    <2> QED
      BY <1>4, <2>2 DEF Effect, Writes
  <1>5. CASE /\ c.op = "hit" /\ c.at \in 0 .. now
             /\ c.key = <<"bucket", Bucket(c.at)>> /\ Bucket(c.at) \in 0 .. Bucket(MaxTime)
    <2>1. c.key \in Buckets /\ c.key \in Keys
      BY <1>5, SortsOfKeys
    <2>2. Hit(i, c)
      <3>1. c.op # "get" /\ c.op # "set" /\ c.op # "incr" /\ c.op # "delete"
        BY <1>5
      <3> QED
        BY <1>5, <3>1 DEF Perform
    <2>3. Incr(i, c.key, 2 * Window) /\ UNCHANGED reply
      BY <2>2 DEF Hit
    <2>4. Writes(i, c.key, <<Counted(c.key), Until(c.key, 2 * Window)>>)
      BY <2>1, <2>3, WindowOfAHit, IncrWrites
    <2>5. Until(c.key, 2 * Window) = now + 2 * Window
      BY WindowOfAHit DEF Until
    <2> QED
      BY <1>5, <2>1, <2>3, <2>4, <2>5 DEF Effect
  <1> QED
    BY <1>1, <1>2, <1>3, <1>4, <1>5, SortsOfCommands

\* A sweep drops what has expired and nothing else.
LEMMA SweepTypes ==
  ASSUME Shape, NEW i \in Instances
  PROVE  /\ Swept(i) \in [Keys -> {Absent} \cup Pairs]
         /\ \A k \in Keys : Swept(i)[k] = entries[k] \/ Swept(i)[k] = Absent
         /\ \A k \in Keys : Live(entries[k]) # Absent => Swept(i)[k] = entries[k]
         /\ Sweep(i) =>
              /\ next_cleanup' \in [Instances -> Nat]
              /\ \A j \in Instances \ {i} : next_cleanup'[j] = next_cleanup[j]
              /\ next_cleanup'[i] = IF SweepDue(i) THEN now + Interval ELSE next_cleanup[i]
         /\ SweepDue(i) => \A k \in Keys : Swept(i)[k] = Live(entries[k])
  <1>1. \A k \in Keys : /\ Live(entries[k]) = entries[k] \/ Live(entries[k]) = Absent
                        /\ entries[k] \in {Absent} \cup Pairs
    BY WhatIsLive DEF Shape
  <1>2. now + Interval \in Nat
    BY ManagerAssumption DEF Shape
  <1>3. CASE SweepDue(i)
    BY <1>1, <1>2, <1>3 DEF Swept, Sweep, Shape
  <1>4. CASE ~SweepDue(i)
    BY <1>1, <1>4 DEF Swept, Sweep, Shape
  <1> QED
    BY <1>3, <1>4

\* What an operation leaves of the dictionary.
LEMMA AfterWrite ==
  ASSUME Shape, NEW i \in Instances, NEW k \in Keys, NEW e, Writes(i, k, e)
  PROVE  /\ entries' \in [Keys -> {Absent} \cup Pairs]
         /\ entries'[k] = e
         /\ \A d \in Keys \ {k} : entries'[d] = Swept(i)[d]
  BY SweepTypes DEF Writes

LEMMA AfterLook ==
  ASSUME Shape, NEW k \in Keys, NEW look, entries' = [entries EXCEPT ![k] = look],
         look = Absent \/ look = Live(entries[k])
  PROVE  /\ entries' \in [Keys -> {Absent} \cup Pairs]
         /\ entries'[k] = look
         /\ \A d \in Keys \ {k} : entries'[d] = entries[d]
  <1>1. look \in {Absent} \cup Pairs
    BY WhatIsLive DEF Shape
  <1> QED
    BY <1>1 DEF Shape
-----------------------------------------------------------------------------
\* Every operation keeps the dictionary in shape, and its garbage young.

\* What an operation can do to an entry: keep it, drop it, or write it anew.
LEMMA WhatBecomesOfEntries ==
  ASSUME Shape, NEW i \in Instances, NEW c, Effect(i, c), NEW d \in Keys
  PROVE  \/ entries'[d] = entries[d]
         \/ entries'[d] = Absent
         \/ /\ d = c.key /\ c.op \in {"set", "incr", "hit"}
            /\ entries'[d] \in Pairs /\ (entries'[d][2] = None \/ entries'[d][2] > now)
            /\ c.op = "hit" => entries'[d] = <<Counted(d), now + 2 * Window>>
            /\ c.op # "hit" => d \in PlainKeys
  <1>1. CASE c.op = "get" /\ c.key \in PlainKeys /\ Get(c.key)
    <2>1. c.key \in Keys /\ entries' = [entries EXCEPT ![c.key] = Live(entries[c.key])]
      BY <1>1, SortsOfKeys DEF Get
    <2> QED
      BY <2>1, AfterLook, WhatIsLive
  <1>2. CASE c.op = "delete" /\ c.key \in PlainKeys /\ Delete(c.key)
    <2>1. c.key \in Keys /\ entries' = [entries EXCEPT ![c.key] = Absent]
      BY <1>2, SortsOfKeys DEF Delete
    <2> QED
      BY <2>1, AfterLook
  <1>3. CASE /\ c.op \in {"set", "incr"} /\ c.key \in PlainKeys
             /\ \E e \in Pairs : Writes(i, c.key, e)
    <2>1. PICK e \in Pairs : Writes(i, c.key, e)
      BY <1>3
    <2>2. c.key \in Keys
      BY <1>3, SortsOfKeys
    <2>3. /\ entries'[c.key] = e /\ (e[2] = None \/ e[2] > now)
          /\ d # c.key => entries'[d] = Swept(i)[d]
      BY <2>1, <2>2, AfterWrite DEF Writes
    <2>4. Swept(i)[d] = entries[d] \/ Swept(i)[d] = Absent
      BY SweepTypes
    <2>5. CASE d = c.key
      BY <1>3, <2>1, <2>3, <2>5
    <2> QED
      BY <2>3, <2>4, <2>5
  <1>4. CASE /\ c.op = "hit" /\ c.key \in Buckets
             /\ Writes(i, c.key, <<Counted(c.key), now + 2 * Window>>)
    <2> DEFINE e == <<Counted(c.key), now + 2 * Window>>
    <2>1. c.key \in Keys
      BY <1>4, SortsOfKeys
    <2>2. e \in Pairs /\ (e[2] = None \/ e[2] > now)
      BY <1>4 DEF Writes
    <2>3. Writes(i, c.key, e)
      BY <1>4
    <2> HIDE DEF e
    <2>4. /\ entries'[c.key] = e
          /\ d # c.key => entries'[d] = Swept(i)[d]
      BY <2>1, <2>3, AfterWrite
    <2>5. Swept(i)[d] = entries[d] \/ Swept(i)[d] = Absent
      BY SweepTypes
    <2>6. CASE d = c.key
      BY <1>4, <2>2, <2>4, <2>6 DEF e
    <2> QED
      BY <2>4, <2>5, <2>6
  <1> QED
    BY <1>1, <1>2, <1>3, <1>4 DEF Effect

\* A write leaves what its process has swept; the other processes' plans stand.
LEMMA WhatBecomesOfSweeps ==
  ASSUME Shape, NEW i \in Instances, NEW c, Effect(i, c)
  PROVE  /\ entries' \in [Keys -> {Absent} \cup Pairs]
         /\ next_cleanup' \in [Instances -> Nat]
         /\ \A j \in Instances \ {i} : next_cleanup'[j] = next_cleanup[j]
         /\ \/ next_cleanup'[i] = next_cleanup[i] /\ (c.op \in {"set", "incr", "hit"} => ~SweepDue(i))
            \/ /\ SweepDue(i) /\ next_cleanup'[i] = now + Interval
               /\ \A d \in Keys \ {c.key} : entries'[d] = Live(entries[d])
  <1>1. CASE c.op = "get" /\ c.key \in PlainKeys /\ Get(c.key)
    <2>1. /\ c.key \in Keys /\ entries' = [entries EXCEPT ![c.key] = Live(entries[c.key])]
          /\ UNCHANGED next_cleanup
      BY <1>1, SortsOfKeys DEF Get
    <2>2. entries' \in [Keys -> {Absent} \cup Pairs]
      BY <2>1, AfterLook
    <2> QED
      BY <1>1, <2>1, <2>2 DEF Shape
  <1>2. CASE c.op = "delete" /\ c.key \in PlainKeys /\ Delete(c.key)
    <2>1. /\ c.key \in Keys /\ entries' = [entries EXCEPT ![c.key] = Absent]
          /\ UNCHANGED next_cleanup
      BY <1>2, SortsOfKeys DEF Delete
    <2>2. entries' \in [Keys -> {Absent} \cup Pairs]
      BY <2>1, AfterLook
    <2> QED
      BY <1>2, <2>1, <2>2 DEF Shape
  <1>3. CASE \E e : Writes(i, c.key, e) /\ c.key \in Keys
    <2>1. PICK e : Writes(i, c.key, e) /\ c.key \in Keys
      BY <1>3
    <2>2. /\ entries' \in [Keys -> {Absent} \cup Pairs]
          /\ \A d \in Keys \ {c.key} : entries'[d] = Swept(i)[d]
      BY <2>1, AfterWrite
    <2>3. Sweep(i)
      BY <2>1 DEF Writes
    <2> QED
      BY <2>2, <2>3, SweepTypes
  <1>4. (\E e \in Pairs : Writes(i, c.key, e)) \/ Writes(i, c.key, <<Counted(c.key), now + 2 * Window>>)
          => \E e : Writes(i, c.key, e)
    OBVIOUS
  <1> QED
    BY <1>1, <1>2, <1>3, <1>4, SortsOfKeys DEF Effect

LEMMA EffectKeepsPlans ==
  ASSUME Shape, SweepsPlanned, NEW i \in Instances, NEW c, Effect(i, c), now' = now
  PROVE  SweepsPlanned'
  <1>1. now \in Nat /\ Interval \in Nat
    BY ManagerAssumption DEF Shape
  <1>2. \A j \in Instances : next_cleanup'[j] = next_cleanup[j] \/ next_cleanup'[j] = now + Interval
    BY WhatBecomesOfSweeps
  <1> QED
    BY <1>1, <1>2 DEF SweepsPlanned

LEMMA EffectKeepsYoung ==
  ASSUME Shape, SweepsPlanned, SweptOnce, NEW i \in Instances, NEW c, Effect(i, c), now' = now
  PROVE  SweptOnce'
  <1>1. now \in Nat /\ Interval \in Nat /\ next_cleanup' \in [Instances -> Nat] /\ SweepsPlanned'
    BY ManagerAssumption, EffectKeepsPlans, WhatBecomesOfSweeps DEF Shape
  <1> SUFFICES ASSUME NEW j \in Instances, NEW d \in Keys, entries'[d] # Absent,
                      entries'[d][2] # None
               PROVE  entries'[d][2] > next_cleanup'[j] - Interval
    BY DEF SweptOnce
  <1>2. CASE entries'[d][2] > now /\ entries'[d] \in Pairs
    <2>1. entries'[d][2] \in Nat
      BY <1>2 DEF Pairs
    <2>2. next_cleanup'[j] <= now + Interval /\ next_cleanup'[j] \in Nat
      BY <1>1 DEF SweepsPlanned
    <2> QED
      BY <1>1, <1>2, <2>1, <2>2
  <1>3. CASE entries'[d] = entries[d] /\ next_cleanup'[j] = next_cleanup[j]
    BY <1>3 DEF SweptOnce
  <1>4. CASE entries'[d] = Live(entries[d])
    <2>1. entries'[d] = entries[d] /\ entries[d] # Absent /\ ~(entries[d][2] <= now)
      BY <1>4, WhatIsLive
    <2>2. entries[d] \in Pairs /\ entries[d][2] \in Nat
      BY <2>1, EntryType
    <2> QED
      BY <1>1, <1>2, <2>1, <2>2
  <1>5. \/ entries'[d] = entries[d]
        \/ entries'[d][2] > now /\ entries'[d] \in Pairs /\ d = c.key
    BY WhatBecomesOfEntries
  <1>6. \/ next_cleanup'[j] = next_cleanup[j]
        \/ d # c.key => entries'[d] = Live(entries[d])
    BY WhatBecomesOfSweeps
  <1>7. CASE d = c.key /\ entries'[d] = entries[d] /\ next_cleanup'[j] # next_cleanup[j]
    <2>1. c.op \in {"set", "incr", "hit"} \/ next_cleanup' = next_cleanup
      BY DEF Effect, Get, Delete
    <2>2. \E e : Writes(i, c.key, e)
      BY <1>7, <2>1 DEF Effect
    <2>3. PICK e : Writes(i, c.key, e)
      BY <2>2
    <2>4. entries'[d] = e
      BY <1>7, <2>3, AfterWrite
    <2>5. e \in Pairs /\ (e[2] = None \/ e[2] > now)
      BY <2>3 DEF Writes
    <2> QED
      BY <1>2, <2>4, <2>5
  <1> QED
    BY <1>2, <1>3, <1>4, <1>5, <1>6, <1>7

LEMMA EffectKeepsBegun ==
  ASSUME Shape, CountersBegun, NEW i \in Instances, NEW c, Effect(i, c), now' = now
  PROVE  CountersBegun'
  <1>1. now \in Nat
    BY ManagerAssumption DEF Shape
  <1> SUFFICES ASSUME NEW d \in Buckets, entries'[d] # Absent
               PROVE  d[2] * Window <= now /\ entries'[d][2] # None
    BY DEF CountersBegun
  <1>2. d \in Keys /\ d \notin PlainKeys
    BY SortsOfKeys
  <1>3. CASE entries'[d] = entries[d]
    BY <1>3 DEF CountersBegun
  <1>4. CASE d = c.key /\ c.op = "hit" /\ entries'[d] = <<Counted(d), now + 2 * Window>>
    <2>1. c.at \in 0 .. now /\ d = <<"bucket", Bucket(c.at)>>
      BY <1>4 DEF Effect
    <2>2. c.at \in Nat /\ c.at <= now /\ d[2] = Bucket(c.at)
      BY <1>1, <2>1
    <2>3. Bucket(c.at) \in Nat /\ Bucket(c.at) * Window <= c.at
      BY <2>2, BucketSpan
    <2>4. Bucket(c.at) * Window \in Nat
      BY <2>3, WindowOfAHit
    <2>5. entries'[d][2] = now + 2 * Window
      BY <1>4
    <2> QED
      BY <1>1, <2>2, <2>3, <2>4, <2>5, WindowOfAHit DEF None
  <1> QED
    BY <1>2, <1>3, <1>4, WhatBecomesOfEntries
-----------------------------------------------------------------------------
\* Counting grants.

Logs == [0 .. MaxTime -> Nat]

\* What a window has granted is a number.
LEMMA GrantsAreFinite ==
  ASSUME NEW log \in Logs, NEW W \in SUBSET (0 .. MaxTime)
  PROVE  IsFiniteSet(GrantsOf(log, W)) /\ Cardinality(GrantsOf(log, W)) \in Nat
  <1> DEFINE Row(t) == {t} \X (1 .. log[t])
             Rows == {Row(t) : t \in W}
             row == [t \in W |-> Row(t)]
  <1>1. IsFiniteSet(W)
    <2>1. MaxTime \in Int
      BY ManagerAssumption
    <2>2. IsFiniteSet(0 .. MaxTime)
      BY <2>1, FS_Interval
    <2> QED
      BY <2>2, FS_Subset
  <1>2. ASSUME NEW t \in W
        PROVE  IsFiniteSet(Row(t))
    <2>1. PICK n \in Int : n = log[t]
      BY DEF Logs
    <2>2. IsFiniteSet({t})
      BY FS_Singleton
    <2>3. IsFiniteSet(1 .. n)
      BY <2>1, FS_Interval
    <2>4. IsFiniteSet({t} \X (1 .. n))
      BY <2>2, <2>3, FS_Product
    <2> QED
      BY <2>1, <2>4
  <1> HIDE DEF Row
  <1>3. row \in Surjection(W, Rows)
    BY DEF Surjection
  <1>4. IsFiniteSet(Rows)
    BY <1>1, <1>3, FS_Surjection
  <1>5. IsFiniteSet(UNION Rows)
    BY <1>2, <1>4, FS_UNION
  <1>6. GrantsOf(log, W) = UNION Rows
    BY DEF GrantsOf, Row
  <1> QED
    BY <1>5, <1>6, FS_CardinalityType

\* What two parts of a window have granted is at least what the window has.
LEMMA GrantsOfParts ==
  ASSUME NEW log \in Logs, NEW V \in SUBSET (0 .. MaxTime), NEW W \in SUBSET (0 .. MaxTime),
         NEW U \in SUBSET (V \cup W)
  PROVE  Cardinality(GrantsOf(log, U)) <=
           Cardinality(GrantsOf(log, V)) + Cardinality(GrantsOf(log, W))
  <1> DEFINE u == GrantsOf(log, U)
             v == GrantsOf(log, V)
             w == GrantsOf(log, W)
  <1>1. u \subseteq v \cup w
    BY DEF GrantsOf
  <1>2. /\ IsFiniteSet(u) /\ IsFiniteSet(v) /\ IsFiniteSet(w)
        /\ Cardinality(u) \in Nat /\ Cardinality(v) \in Nat /\ Cardinality(w) \in Nat
    BY GrantsAreFinite
  <1> HIDE DEF u, v, w
  <1>3. /\ IsFiniteSet(v \cup w) /\ Cardinality(v \cup w) \in Nat
        /\ Cardinality(v \cap w) \in Nat
        /\ Cardinality(v \cup w) = Cardinality(v) + Cardinality(w) - Cardinality(v \cap w)
    BY <1>2, FS_Union, FS_Intersection, FS_CardinalityType
  <1>4. Cardinality(u) <= Cardinality(v \cup w)
    BY <1>1, <1>3, FS_Subset
  <1> QED
    BY <1>2, <1>3, <1>4 DEF u, v, w

\* A request let through is one grant more of its own window.
LEMMA OneGrantMore ==
  ASSUME NEW log \in Logs, NEW t \in 0 .. MaxTime, NEW b \in Nat
  PROVE  LET more == [log EXCEPT ![t] = @ + 1]
         IN  /\ more \in Logs
             /\ Granted(more, b) = IF b = Bucket(t) THEN Granted(log, b) + 1 ELSE Granted(log, b)
  <1> DEFINE more == [log EXCEPT ![t] = @ + 1]
             W == InBucket(b)
  <1>1. more \in Logs /\ log[t] \in Nat /\ more[t] = log[t] + 1
    BY DEF Logs
  <1>2. \A u \in W \ {t} : more[u] = log[u]
    BY DEF Logs, InBucket
  <1>3. W \in SUBSET (0 .. MaxTime) /\ (t \in W <=> b = Bucket(t))
    BY DEF InBucket
  <1>4. CASE b = Bucket(t)
    <2> DEFINE g == <<t, log[t] + 1>>
    <2>1. \A u \in W \ {t} : {u} \X (1 .. more[u]) = {u} \X (1 .. log[u])
      BY <1>2
    <2>2. 1 .. (log[t] + 1) = (1 .. log[t]) \cup {log[t] + 1}
      BY <1>1
    <2>3. {t} \X (1 .. more[t]) = ({t} \X (1 .. log[t])) \cup {g}
      BY <1>1, <2>2
    <2>4. GrantsOf(more, W) = GrantsOf(log, W) \cup {g}
      <3> HIDE DEF W, more, g
      <3>1. \A u \in W : \A x \in {u} \X (1 .. more[u]) : x = g \/ x \in {u} \X (1 .. log[u])
        BY <2>1, <2>3
      <3>2. \A u \in W : \A x \in {u} \X (1 .. log[u]) : x \in {u} \X (1 .. more[u])
        BY <2>1, <2>3
      <3>3. g \in {t} \X (1 .. more[t]) /\ t \in W
        BY <1>3, <1>4, <2>3
      <3> QED
        BY <3>1, <3>2, <3>3 DEF GrantsOf
    <2>5. g \notin GrantsOf(log, W)
      <3>1. \A u \in W : g \in {u} \X (1 .. log[u]) => u = t /\ log[t] + 1 \in 1 .. log[t]
        OBVIOUS
      <3> QED
        BY <1>1, <3>1 DEF GrantsOf
    <2>6. IsFiniteSet(GrantsOf(log, W))
      BY <1>3, GrantsAreFinite
    <2> HIDE DEF g, W, more
    <2>7. Cardinality(GrantsOf(more, W)) = Cardinality(GrantsOf(log, W)) + 1
      BY <2>4, <2>5, <2>6, FS_AddElement
    <2> QED
      BY <1>1, <1>4, <2>7 DEF Granted, W, more
  <1>5. CASE b # Bucket(t)
    <2>1. \A u \in W : {u} \X (1 .. more[u]) = {u} \X (1 .. log[u])
      BY <1>2, <1>3, <1>5
    <2>2. GrantsOf(more, W) = GrantsOf(log, W)
      <3> HIDE DEF W, more
      <3> QED
        BY <2>1 DEF GrantsOf
    <2> QED
      BY <1>1, <1>5, <2>2 DEF Granted
  <1> QED
    BY <1>4, <1>5

LEMMA GrantedType ==
  ASSUME NEW log \in Logs, NEW b \in Nat
  PROVE  Granted(log, b) \in Nat
  <1>1. InBucket(b) \in SUBSET (0 .. MaxTime)
    BY DEF InBucket
  <1> QED
    BY <1>1, GrantsAreFinite DEF Granted

\* At first, and after a clean-up, nothing has been granted.
LEMMA NothingGranted ==
  ASSUME NEW b
  PROVE  Granted([t \in 0 .. MaxTime |-> 0], b) = 0
  <1> DEFINE log == [t \in 0 .. MaxTime |-> 0]
  <1>1. \A t \in InBucket(b) : log[t] = 0
    BY DEF InBucket
  <1>2. 1 .. 0 = {}
    OBVIOUS
  <1>3. \A t \in InBucket(b) : {t} \X (1 .. log[t]) = {}
    BY <1>1, <1>2
  <1> HIDE DEF log
  <1>4. GrantsOf(log, InBucket(b)) = {}
    BY <1>3 DEF GrantsOf
  <1> QED
    BY <1>4, FS_EmptySet DEF Granted, log
-----------------------------------------------------------------------------
\* The counter of a window stands for what the window has granted.

\* Nothing that is live disappears, except at the key of the command.
LEMMA OthersStay ==
  ASSUME Shape, NEW i \in Instances, NEW c, Effect(i, c), NEW d \in Keys, d # c.key
  PROVE  /\ entries'[d] = entries[d] \/ entries'[d] = Live(entries[d])
         /\ Live(entries[d]) # Absent => entries'[d] = entries[d]
  <1>1. \/ next_cleanup'[i] = next_cleanup[i] /\ (c.op \in {"set", "incr", "hit"} => ~SweepDue(i))
        \/ entries'[d] = Live(entries[d])
    BY WhatBecomesOfSweeps
  <1>2. CASE c.op \in {"set", "incr", "hit"} /\ ~SweepDue(i)
    <2>1. PICK e : Writes(i, c.key, e) /\ c.key \in Keys
      BY <1>2, SortsOfKeys DEF Effect
    <2>2. entries'[d] = Swept(i)[d]
      BY <2>1, AfterWrite
    <2>3. Swept(i)[d] = entries[d]
      BY <1>2 DEF Swept
    <2> QED
      BY <2>2, <2>3
  <1>3. CASE c.op \notin {"set", "incr", "hit"}
    <2>1. c.key \in Keys /\ (Get(c.key) \/ Delete(c.key))
      BY <1>3, SortsOfKeys DEF Effect
    <2> QED
      BY <2>1 DEF Get, Delete, Shape
  <1> QED
    BY <1>1, <1>2, <1>3, WhatIsLive

LEMMA StandingIsLive ==
  ASSUME Shape, NEW b \in Nat, NEW n, <<"bucket", b>> \in Keys, now < (b + 2) * Window,
         Stands(entries[<<"bucket", b>>], n, b)
  PROVE  Live(entries[<<"bucket", b>>]) = entries[<<"bucket", b>>]
  <1> DEFINE k == <<"bucket", b>>
             end == (b + 2) * Window
  <1>1. now \in Nat /\ end \in Nat
    BY WindowOfAHit, ManagerAssumption DEF Shape
  <1>2. entries[k] # Absent /\ entries[k][2] >= end /\ now < end
    BY DEF Stands
  <1> HIDE DEF k, end
  <1>3. entries[k][2] \in Nat
    BY <1>2, EntryType DEF k
  <1>4. ~(entries[k][2] <= now)
    BY <1>1, <1>2, <1>3
  <1> QED
    BY <1>2, <1>4, WhatIsLive DEF k

LEMMA EffectKeepsCounting ==
  ASSUME Shape, Counting, NEW i \in Instances, NEW c \in Commands, Effect(i, c), now' = now,
         slow' = (slow \/ (c.op = "hit" /\ now > c.at + Window)),
         \/ grants' = grants
         \/ c.op = "hit" /\ Counted(c.key) <= Count /\ grants' = [grants EXCEPT ![c.at] = @ + 1]
  PROVE  Counting'
  <1> SUFFICES ASSUME ~slow', NEW b \in 0 .. Bucket(MaxTime)
               PROVE  /\ Granted(grants', b) <= Count
                      /\ Granted(grants', b) > 0 /\ now < (b + 2) * Window =>
                           Stands(entries'[<<"bucket", b>>], Granted(grants', b), b)
    BY DEF Counting
  <1> DEFINE k == <<"bucket", b>>
             end == (b + 2) * Window
  <1>1. b \in Nat /\ k \in Keys /\ k \in Buckets /\ k \notin PlainKeys
    BY SortsOfKeys
  <1>2. now \in Nat /\ Window \in Nat \ {0} /\ end \in Nat /\ end = b * Window + 2 * Window
        /\ b * Window \in Nat /\ Count \in Nat \ {0}
    BY <1>1, WindowOfAHit, ManagerAssumption DEF Shape
  <1>3. ~slow /\ (c.op = "hit" => ~(now > c.at + Window))
    OBVIOUS
  <1>4. PICK n \in Nat : n = Granted(grants, b)
    BY <1>1, GrantedType DEF Shape, Logs
  <1>5. n <= Count /\ (n > 0 /\ now < end => Stands(entries[k], n, b))
    BY <1>3, <1>4 DEF Counting
  <1>6. CASE k # c.key \/ c.op # "hit"
    <2>1. k # c.key
      BY <1>1, <1>6 DEF Effect
    <2>2. Granted(grants', b) = n
      <3>1. CASE grants' = grants
        BY <1>4, <3>1
      <3>2. CASE c.op = "hit" /\ grants' = [grants EXCEPT ![c.at] = @ + 1]
        <4>1. c.at \in 0 .. now /\ b # Bucket(c.at)
          BY <2>1, <3>2 DEF Effect
        <4>2. c.at \in 0 .. MaxTime /\ grants \in Logs
          BY <1>2, <4>1, ManagerAssumption DEF Shape, Logs
        <4> QED
          BY <1>1, <1>4, <3>2, <4>1, <4>2, OneGrantMore
      <3> QED
        BY <3>1, <3>2
    <2>3. n > 0 /\ now < end => entries'[k] = entries[k]
      <3>1. SUFFICES ASSUME n > 0, now < end
                     PROVE  entries'[k] = entries[k]
        OBVIOUS
      <3>2. Live(entries[k]) = entries[k] /\ entries[k] # Absent
        BY <1>1, <1>5, <3>1, StandingIsLive DEF Stands
      <3> QED
        BY <1>1, <2>1, <3>2, OthersStay
    <2> QED
      BY <1>5, <2>2, <2>3
  <1>7. CASE k = c.key /\ c.op = "hit"
    <2>1. c.at \in 0 .. now /\ b = Bucket(c.at)
      BY <1>7 DEF Effect
    <2>2. PICK t \in Nat : t = c.at /\ t <= now
      BY <1>2, <2>1
    <2>3. b * Window <= t /\ t < b * Window + Window /\ ~(now > t + Window)
      BY <1>3, <1>7, <2>1, <2>2, BucketSpan
    <2>4. now < end /\ now + 2 * Window >= end
      BY <1>2, <2>2, <2>3
    <2>5. PICK m \in Nat \ {0} : m = Counted(k)
      BY <1>1, CountedType, WindowOfAHit
    <2>6. entries'[k] = <<m, now + 2 * Window>>
      <3>1. Writes(i, k, <<Counted(k), now + 2 * Window>>)
        BY <1>7 DEF Effect
      <3> QED
        BY <1>1, <2>5, <3>1, AfterWrite
    <2>7. m >= n + 1
      <3>1. CASE n = 0
        BY <2>5, <3>1
      <3>2. CASE n > 0
        <4>1. Stands(entries[k], n, b)
          BY <1>5, <2>4, <3>2
        <4>2. Live(entries[k]) = entries[k] /\ entries[k] # Absent /\ entries[k][1] >= n
          BY <1>1, <2>4, <4>1, StandingIsLive DEF Stands
        <4>3. PICK v \in Nat : v = entries[k][1] /\ m = v + 1
          BY <1>1, <2>5, <4>2, EntryType, CountedType, WindowOfAHit
        <4> QED
          BY <4>2, <4>3
      <3> QED
        BY <3>1, <3>2
    <2>8. PICK p \in Nat : p = Granted(grants', b) /\ (p = n \/ (p = n + 1 /\ m <= Count))
      <3>1. CASE grants' = grants
        BY <1>4, <3>1
      <3>2. CASE Counted(c.key) <= Count /\ grants' = [grants EXCEPT ![c.at] = @ + 1]
        <4>1. t \in 0 .. MaxTime /\ grants \in Logs
          BY <1>2, <2>2, ManagerAssumption DEF Shape, Logs
        <4>2. Granted(grants', b) = n + 1
          BY <1>1, <1>4, <2>1, <2>2, <3>2, <4>1, OneGrantMore
        <4> QED
          BY <1>7, <2>5, <3>2, <4>2
      <3> QED
        BY <3>1, <3>2
    <2>9. p <= Count /\ p <= m
      BY <1>2, <1>5, <2>7, <2>8
    <2>10. Stands(entries'[k], p, b)
      <3>1. entries'[k] # Absent /\ entries'[k][1] = m /\ entries'[k][2] = now + 2 * Window
        BY <2>6, StoredIsThere
      <3> QED
        BY <2>4, <2>9, <3>1 DEF Stands
    <2> QED
      BY <2>8, <2>9, <2>10
  <1> QED
    BY <1>6, <1>7
-----------------------------------------------------------------------------
\* The invariant holds.

LEMMA CommandsRemain ==
  ASSUME Shape, now' \in Nat, now <= now'
  PROVE  Commands \subseteq Commands'
  <1>1. now \in Nat
    BY ManagerAssumption DEF Shape
  <1>2. 0 .. now \subseteq 0 .. now'
    BY <1>1
  <1> QED
    BY <1>2 DEF Commands

LEMMA SubjectsAreOperations ==
  ASSUME Shape
  PROVE  subject \subseteq Operations
  BY DEF Shape, Subjects, Mixed

\* What a thread that has run changes beside the dictionary.
LEMMA RunKeepsInv ==
  ASSUME ManagerInv, NEW i \in Instances, NEW c \in Commands, Effect(i, c), now' = now,
         subject' = subject, cancels' = cancels,
         call' \in [Instances -> {Idle} \cup Commands],
         detached' \subseteq detached,
         slow' = (slow \/ (c.op = "hit" /\ now > c.at + Window)),
         \/ grants' = grants
         \/ c.op = "hit" /\ Counted(c.key) <= Count /\ grants' = [grants EXCEPT ![c.at] = @ + 1]
  PROVE  ManagerInv'
  <1>1. Shape /\ CountersBegun /\ SweepsPlanned /\ SweptOnce /\ Counting
    BY DEF ManagerInv
  <1>2. Commands' = Commands
    BY DEF Commands
  <1>3. grants' \in Logs
    <2>1. CASE grants' = grants
      BY <1>1, <2>1 DEF Shape, Logs
    <2>2. CASE c.op = "hit" /\ grants' = [grants EXCEPT ![c.at] = @ + 1]
      <3>1. c.at \in 0 .. now /\ now \in 0 .. MaxTime /\ grants \in Logs
        BY <1>1, <2>2 DEF Effect, Shape, Logs
      <3>2. c.at \in 0 .. MaxTime
        BY <3>1, ManagerAssumption
      <3> QED
        BY <2>2, <3>1, <3>2 DEF Logs
    <2> QED
      BY <2>1, <2>2
  <1>4. slow' \in BOOLEAN
    OBVIOUS
  <1>5. Shape'
    BY <1>1, <1>2, <1>3, <1>4, WhatBecomesOfSweeps DEF Shape, Logs
  <1>6. CountersBegun' /\ SweepsPlanned' /\ SweptOnce' /\ Counting'
    BY <1>1, EffectKeepsBegun, EffectKeepsPlans, EffectKeepsYoung, EffectKeepsCounting
  <1> QED
    BY <1>5, <1>6 DEF ManagerInv

\* The two ways a thread runs: for its caller, or for nobody any more.
LEMMA RunHasEffect ==
  ASSUME Shape, NEW i \in Instances, Run(i)
  PROVE  /\ call[i] \in Commands /\ call[i] # Idle /\ Effect(i, call[i])
         /\ call' = [call EXCEPT ![i] = Idle]
         /\ UNCHANGED <<subject, now, detached, cancels>>
         /\ slow' = (slow \/ (call[i].op = "hit" /\ now > call[i].at + Window))
         /\ \/ grants' = grants
            \/ /\ call[i].op = "hit" /\ Counted(call[i].key) <= Count
               /\ grants' = [grants EXCEPT ![call[i].at] = @ + 1]
  <1> DEFINE c == call[i]
  <1>1. c \in Commands /\ c # Idle
    BY DEF Run, Shape
  <1>2. Perform(i, c)
    BY DEF Run
  <1>3. Effect(i, c)
    BY <1>1, <1>2, WhatIsPerformed
  <1>4. /\ call' = [call EXCEPT ![i] = Idle]
        /\ UNCHANGED <<subject, now, detached, cancels>>
    BY DEF Run
  <1>5. slow \in BOOLEAN
    BY DEF Shape
  <1>6. CASE c.op = "hit"
    <2>1. /\ slow' = (slow \/ now > c.at + Window)
          /\ grants' = IF Counted(c.key) > Count THEN grants
                       ELSE [grants EXCEPT ![c.at] = @ + 1]
      BY <1>6 DEF Run
    <2>2. PICK m \in Nat : m = Counted(c.key)
      <3>1. c.key \in Keys
        BY <1>1, <1>6, SortsOfCommands, SortsOfKeys
      <3> QED
        BY <3>1, CountedType, WindowOfAHit
    <2>3. Count \in Nat
      BY ManagerAssumption
    <2>4. m > Count \/ m <= Count
      BY <2>2, <2>3
    <2> QED
      BY <1>1, <1>3, <1>4, <1>6, <2>1, <2>2, <2>4
  <1>7. CASE c.op # "hit"
    <2>1. UNCHANGED <<grants, slow>>
      BY <1>7 DEF Run, ghosts
    <2> QED
      BY <1>1, <1>3, <1>4, <1>5, <1>7, <2>1
  <1> QED
    BY <1>6, <1>7

LEMMA RunDetachedHasEffect ==
  ASSUME Shape, NEW d \in detached, RunDetached(d)
  PROVE  /\ d.instance \in Instances /\ d.operation \in Commands
         /\ Effect(d.instance, d.operation)
         /\ UNCHANGED <<subject, now, call, cancels, grants>> /\ detached' \subseteq detached
         /\ slow' = (slow \/ (d.operation.op = "hit" /\ now > d.operation.at + Window))
  <1>1. d.instance \in Instances /\ d.operation \in Commands
    BY DEF Shape
  <1> QED
    BY <1>1, WhatIsPerformed DEF RunDetached

LEMMA ManagerInvariant == Spec => []ManagerInv
  <1>1. Init => ManagerInv
    <2> SUFFICES ASSUME Init
                 PROVE  ManagerInv
      OBVIOUS
    <2>1. \A k \in Keys : entries[k] = Absent
      BY DEF Init
    <2>2. Shape
      <3>1. 0 \in 0 .. MaxTime /\ 0 \in 0 .. MaxCancels
        BY ManagerAssumption
      <3> QED
        BY <3>1 DEF Init, Shape
    <2>3. CountersBegun
      BY <2>1, SortsOfKeys DEF CountersBegun
    <2>4. SweepsPlanned /\ SweptOnce
      BY <2>1, ManagerAssumption DEF Init, SweepsPlanned, SweptOnce
    <2>5. Counting
      <3>1. \A b \in 0 .. Bucket(MaxTime) : Granted(grants, b) = 0
        BY NothingGranted DEF Init
      <3> QED
        BY <3>1, WindowOfAHit, ManagerAssumption DEF Counting
    <2> QED
      BY <2>2, <2>3, <2>4, <2>5 DEF ManagerInv
  <1>2. ManagerInv /\ [Next]_vars => ManagerInv'
    <2> SUFFICES ASSUME ManagerInv, [Next]_vars
                 PROVE  ManagerInv'
      OBVIOUS
    <2>1. Shape /\ CountersBegun /\ SweepsPlanned /\ SweptOnce /\ Counting
      BY DEF ManagerInv
    <2>2. now \in Nat /\ Interval \in Nat /\ Window \in Nat \ {0}
      BY <2>1, ManagerAssumption DEF Shape
    <2>3. CASE Tick
      <3>1. /\ now' = now + 1 /\ now < MaxTime
            /\ UNCHANGED <<subject, entries, next_cleanup, call, detached, cancels, grants, slow>>
        BY <2>3 DEF Tick, ghosts
      <3>2. now' \in 0 .. MaxTime /\ Commands \subseteq Commands'
        BY <2>1, <2>2, <3>1, CommandsRemain, ManagerAssumption
      <3>3. Shape'
        BY <2>1, <3>1, <3>2 DEF Shape
      <3>4. SweepsPlanned' /\ SweptOnce'
        BY <2>1, <2>2, <3>1 DEF SweepsPlanned, SweptOnce, Shape
      <3>5. CountersBegun'
        <4> SUFFICES ASSUME NEW k \in Buckets, entries[k] # Absent
                     PROVE  k[2] * Window <= now' /\ entries[k][2] # None
          BY <3>1 DEF CountersBegun
        <4>1. k[2] * Window <= now /\ k[2] * Window \in Nat
          BY <2>1, <2>2 DEF CountersBegun, Buckets
        <4>2. entries[k][2] # None
          BY <2>1 DEF CountersBegun
        <4> QED
          BY <2>2, <3>1, <4>1, <4>2
      <3>6. Counting'
        <4> SUFFICES ASSUME ~slow, NEW b \in 0 .. Bucket(MaxTime)
                     PROVE  /\ Granted(grants, b) <= Count
                            /\ Granted(grants, b) > 0 /\ now' < (b + 2) * Window =>
                                 Stands(entries[<<"bucket", b>>], Granted(grants, b), b)
          BY <3>1 DEF Counting
        <4>1. (b + 2) * Window \in Nat
          BY <2>2
        <4>2. now' < (b + 2) * Window => now < (b + 2) * Window
          BY <2>2, <3>1, <4>1
        <4> QED
          BY <2>1, <4>2 DEF Counting
      <3> QED
        BY <3>3, <3>4, <3>5, <3>6 DEF ManagerInv
    <2>4. ASSUME UNCHANGED <<subject, now, entries, next_cleanup, grants, slow>>,
                 call' \in [Instances -> {Idle} \cup Commands],
                 detached' \subseteq [instance : Instances, operation : Commands],
                 cancels' \in 0 .. MaxCancels
          PROVE  ManagerInv'
      <3>1. Commands' = Commands
        BY <2>4 DEF Commands
      <3>2. Shape'
        BY <2>1, <2>4, <3>1 DEF Shape
      <3>3. CountersBegun' /\ SweepsPlanned' /\ SweptOnce' /\ Counting'
        BY <2>1, <2>4 DEF CountersBegun, SweepsPlanned, SweptOnce, Counting
      <3> QED
        BY <3>2, <3>3 DEF ManagerInv
    <2>5. ASSUME NEW i \in Instances, NEW c \in Commands, Call(i, c)
          PROVE  ManagerInv'
      <3>1. /\ UNCHANGED <<subject, now, entries, next_cleanup, detached, cancels, grants, slow>>
            /\ call' = [call EXCEPT ![i] = c]
        BY <2>5 DEF Call, ghosts
      <3>2. call' \in [Instances -> {Idle} \cup Commands]
        BY <2>1, <3>1 DEF Shape
      <3>3. detached' \subseteq [instance : Instances, operation : Commands] /\ cancels' \in 0 .. MaxCancels
        BY <2>1, <3>1 DEF Shape
      <3> QED
        BY <2>4, <3>1, <3>2, <3>3
    <2>6. ASSUME NEW i \in Instances, NEW c \in subject, Call(i, c)
          PROVE  ManagerInv'
      <3>1. c \in Commands
        BY <2>1, SubjectsAreOperations DEF Commands
      <3> QED
        BY <2>5, <2>6, <3>1
    <2>7. ASSUME NEW i \in Instances, RecordHit(i)
          PROVE  ManagerInv'
      <3>1. HitAt(now) \in Commands /\ Call(i, HitAt(now))
        BY <2>2, <2>7 DEF Commands, RecordHit, HitAt
      <3> QED
        BY <2>5, <3>1
    <2>8. ASSUME NEW i \in Instances, Run(i)
          PROVE  ManagerInv'
      <3> DEFINE c == call[i]
      <3>1. /\ c \in Commands /\ Effect(i, c)
            /\ call' = [call EXCEPT ![i] = Idle]
            /\ UNCHANGED <<subject, now, detached, cancels>>
            /\ slow' = (slow \/ (c.op = "hit" /\ now > c.at + Window))
            /\ \/ grants' = grants
               \/ /\ c.op = "hit" /\ Counted(c.key) <= Count
                  /\ grants' = [grants EXCEPT ![c.at] = @ + 1]
        BY <2>1, <2>8, RunHasEffect
      <3>2. call' \in [Instances -> {Idle} \cup Commands] /\ detached' \subseteq detached
        BY <2>1, <3>1 DEF Shape
      <3> HIDE DEF c
      <3> QED
        BY <3>1, <3>2, RunKeepsInv
    <2>9. ASSUME NEW i \in Instances, Cancel(i)
          PROVE  ManagerInv'
      <3>1. /\ UNCHANGED <<subject, now, entries, next_cleanup, grants, slow>>
            /\ call[i] # Idle /\ call' = [call EXCEPT ![i] = Idle]
            /\ cancels < MaxCancels /\ cancels' = cancels + 1
            /\ detached' \in {detached, detached \cup {[instance |-> i, operation |-> call[i]]}}
        BY <2>9 DEF Cancel, ghosts
      <3>2. call' \in [Instances -> {Idle} \cup Commands] /\ call[i] \in Commands
        BY <2>1, <3>1 DEF Shape
      <3>3. detached' \subseteq [instance : Instances, operation : Commands]
        BY <2>1, <3>1, <3>2 DEF Shape
      <3>4. cancels' \in 0 .. MaxCancels
        BY <2>1, <3>1, ManagerAssumption DEF Shape
      <3> QED
        BY <2>4, <3>1, <3>2, <3>3, <3>4
    <2>10. ASSUME NEW d \in detached, RunDetached(d)
           PROVE  ManagerInv'
      <3> DEFINE c == d.operation
                 i == d.instance
      <3>1. /\ i \in Instances /\ c \in Commands /\ Effect(i, c)
            /\ UNCHANGED <<subject, now, call, cancels, grants>> /\ detached' \subseteq detached
            /\ slow' = (slow \/ (c.op = "hit" /\ now > c.at + Window))
        BY <2>1, <2>10, RunDetachedHasEffect
      <3>2. call' \in [Instances -> {Idle} \cup Commands]
        BY <2>1, <3>1 DEF Shape
      <3> HIDE DEF c, i
      <3> QED
        BY <3>1, <3>2, RunKeepsInv
    <2>11. CASE CleanupCounters
      <3>1. /\ entries' = [k \in Keys |-> IF k \in Buckets THEN Absent ELSE entries[k]]
            /\ grants' = [t \in 0 .. MaxTime |-> 0]
            /\ UNCHANGED <<subject, now, next_cleanup, call, detached, cancels, slow>>
        BY <2>11 DEF CleanupCounters
      <3>2. entries' \in [Keys -> {Absent} \cup Pairs] /\ Commands' = Commands
        BY <2>1, <3>1 DEF Shape, Commands
      <3>3. Shape'
        BY <2>1, <3>1, <3>2 DEF Shape
      <3>4. CountersBegun' /\ SweepsPlanned' /\ SweptOnce'
        BY <2>1, <3>1, SortsOfKeys DEF CountersBegun, SweepsPlanned, SweptOnce
      <3>5. Counting'
        <4>1. \A b \in 0 .. Bucket(MaxTime) : Granted(grants', b) = 0
          BY <3>1, NothingGranted
        <4>2. Count \in Nat
          BY ManagerAssumption
        <4>3. \A b \in 0 .. Bucket(MaxTime) : Granted(grants', b) <= Count /\ ~(Granted(grants', b) > 0)
          BY <4>1, <4>2
        <4> QED
          BY <4>3 DEF Counting
      <3> QED
        BY <3>3, <3>4, <3>5 DEF ManagerInv
    <2>12. CASE UNCHANGED vars
      <3>1. UNCHANGED <<subject, now, entries, next_cleanup, call, detached, cancels, grants, slow>>
        BY <2>12 DEF vars, ghosts
      <3> QED
        BY <2>1, <2>4, <3>1 DEF Shape
    <2> QED
      BY <2>3, <2>6, <2>7, <2>8, <2>9, <2>10, <2>11, <2>12 DEF Next
  <1> QED
    BY <1>1, <1>2, PTL DEF Spec

\* The state has its shape, and no counter is of a window that is yet to come
\* (manager.py, base.py record_hit).
THEOREM ManagerTypeCorrect == Spec => []TypeOK
  <1>1. ManagerInv => TypeOK
    <2> SUFFICES ASSUME ManagerInv
                 PROVE  TypeOK
      OBVIOUS
    <2>1. Shape /\ CountersBegun /\ SweepsPlanned
      BY DEF ManagerInv
    <2>2. next_cleanup \in [Instances -> 0 .. MaxTime + Interval]
      <3>1. now \in Nat /\ now <= MaxTime /\ MaxTime \in Nat /\ Interval \in Nat
        BY <2>1, ManagerAssumption DEF Shape
      <3>2. \A i \in Instances : next_cleanup[i] \in Nat /\ next_cleanup[i] <= now + Interval
        BY <2>1 DEF Shape, SweepsPlanned
      <3>3. \A i \in Instances : next_cleanup[i] \in 0 .. MaxTime + Interval
        BY <3>1, <3>2
      <3> QED
        BY <2>1, <3>3 DEF Shape
    <2>3. \A k \in Keys : entries[k] # Absent =>
            /\ entries[k] \in (Nat \ {0}) \X Nat
            /\ k \in Buckets => k[2] * Window <= now /\ entries[k][2] # None
      BY <2>1, EntryType DEF Pairs, CountersBegun
    <2> QED
      BY <2>1, <2>2, <2>3 DEF TypeOK, Shape
  <1> QED
    BY <1>1, ManagerInvariant, PTL
-----------------------------------------------------------------------------
\* Twice the limit, and garbage.

LEMMA BucketWithinLimit ==
  ASSUME Shape, Counting, ~slow, NEW b \in Nat
  PROVE  Cardinality(GrantsOf(grants, InBucket(b))) <= Count
  <1>1. Bucket(MaxTime) \in Nat /\ MaxTime \in Nat
    BY BucketSpan, ManagerAssumption
  <1>2. CASE b <= Bucket(MaxTime)
    <2>1. b \in 0 .. Bucket(MaxTime)
      BY <1>1, <1>2
    <2>2. Granted(grants, b) <= Count
      BY <2>1 DEF Counting
    <2> QED
      BY <2>2 DEF Granted
  <1>3. CASE ~(b <= Bucket(MaxTime))
    <2>1. \A t \in 0 .. MaxTime : Bucket(t) <= Bucket(MaxTime)
      BY <1>1, BucketsInOrder
    <2>2. InBucket(b) = {}
      BY <1>3, <2>1 DEF InBucket
    <2>3. GrantsOf(grants, InBucket(b)) = {}
      BY <2>2 DEF GrantsOf
    <2>4. Cardinality(GrantsOf(grants, InBucket(b))) = 0
      BY <2>3, FS_EmptySet
    <2> QED
      BY <2>4, ManagerAssumption
  <1> QED
    BY <1>2, <1>3

LEMMA WindowMeetsTwoBuckets ==
  ASSUME NEW t \in Nat, NEW from \in Nat, from <= t, t < from + Window
  PROVE  Bucket(t) = Bucket(from) \/ Bucket(t) = Bucket(from) + 1
  <1> DEFINE a == Bucket(from)
             b == Bucket(t)
  <1>1. /\ a \in Nat /\ from < a * Window + Window
        /\ b \in Nat /\ b * Window <= t
        /\ a <= b
    BY BucketSpan, BucketsInOrder
  <1>2. Window \in Nat \ {0}
    BY ManagerAssumption
  <1> HIDE DEF a, b
  <1>3. ~(a + 2 <= b)
    <2>1. SUFFICES ASSUME a + 2 <= b
                   PROVE  FALSE
      OBVIOUS
    <2>2. (a + 2) * Window <= b * Window
      BY <1>1, <1>2, <2>1
    <2>3. (a + 2) * Window = a * Window + 2 * Window /\ a * Window \in Nat /\ b * Window \in Nat
      BY <1>1, <1>2
    <2> QED
      BY <1>1, <1>2, <2>2, <2>3
  <1> QED
    BY <1>1, <1>3 DEF a, b

\* However hits are delayed, cancelled or swept: as long as none is recorded
\* more than a window after its call, no window lets through more than twice
\* the limit (base.py record_hit).
THEOREM TwiceTheLimitHolds == Spec => []TwiceTheLimit
  <1>1. ManagerInv => TwiceTheLimit
    <2> DEFINE During(from) == {t \in DOMAIN grants : from <= t /\ t < from + Window}
    <2> SUFFICES ASSUME ManagerInv, ~slow, NEW from \in DOMAIN grants
                 PROVE  Cardinality(GrantsOf(grants, During(from))) <= 2 * Count
      BY DEF TwiceTheLimit
    <2>1. Shape /\ Counting
      BY DEF ManagerInv
    <2>2. grants \in Logs /\ DOMAIN grants = 0 .. MaxTime /\ from \in Nat
      BY <2>1 DEF Shape, Logs
    <2> DEFINE V == InBucket(Bucket(from))
               W == InBucket(Bucket(from) + 1)
               U == During(from)
    <2>3. V \in SUBSET (0 .. MaxTime) /\ W \in SUBSET (0 .. MaxTime)
      BY DEF InBucket
    <2>4. U \in SUBSET (V \cup W)
      <3>1. ASSUME NEW t \in U
            PROVE  t \in V \cup W
        <4>1. t \in 0 .. MaxTime /\ t \in Nat /\ from <= t /\ t < from + Window
          BY <2>2
        <4> QED
          BY <2>2, <4>1, WindowMeetsTwoBuckets DEF InBucket
      <3> QED
        BY <3>1
    <2>5. Bucket(from) \in Nat /\ Bucket(from) + 1 \in Nat
      BY <2>2, BucketSpan
    <2>6. Cardinality(GrantsOf(grants, V)) <= Count /\ Cardinality(GrantsOf(grants, W)) <= Count
      BY <2>1, <2>5, BucketWithinLimit
    <2> HIDE DEF U, V, W
    <2>7. PICK v \in Nat, w \in Nat :
            v = Cardinality(GrantsOf(grants, V)) /\ w = Cardinality(GrantsOf(grants, W))
      BY <2>2, <2>3, GrantsAreFinite
    <2>8. U \in SUBSET (0 .. MaxTime)
      BY <2>3, <2>4
    <2>9. PICK u \in Nat : u = Cardinality(GrantsOf(grants, U))
      BY <2>2, <2>8, GrantsAreFinite
    <2>10. u <= v + w
      BY <2>2, <2>3, <2>4, <2>7, <2>9, GrantsOfParts
    <2>11. Count \in Nat
      BY ManagerAssumption
    <2>12. u <= 2 * Count
      BY <2>6, <2>7, <2>10, <2>11
    <2> QED
      BY <2>9, <2>12 DEF U
  <1> QED
    BY <1>1, ManagerInvariant, PTL

\* After a write nothing is left that expired an interval ago or earlier, though
\* every process sweeps on its own schedule (manager.py _cleanup_expired).
THEOREM GarbageStaysBounded == Spec => GarbageBounded
  <1> DEFINE Step == \A i \in Instances :
       call[i].op \in {"set", "incr", "hit"} /\ call'[i] = Idle /\ cancels' = cancels =>
         \A k \in Keys : entries'[k] = Absent \/ entries'[k][2] = None
                         \/ entries'[k][2] > now - Interval
  <1>1. ManagerInv /\ [Next]_vars => [Step]_vars
    <2> SUFFICES ASSUME ManagerInv, Next, NEW i \in Instances,
                        call[i].op \in {"set", "incr", "hit"}, call'[i] = Idle,
                        cancels' = cancels, NEW k \in Keys,
                        entries'[k] # Absent, entries'[k][2] # None
                 PROVE  entries'[k][2] > now - Interval
      OBVIOUS
    <2>1. Shape /\ SweepsPlanned /\ SweptOnce
      BY DEF ManagerInv
    <2>2. call[i] # Idle /\ call'[i] # call[i]
      BY StoredIsThere
    <2>3. Run(i)
      <3>1. ~Tick /\ ~CleanupCounters /\ ~(\E d \in detached : RunDetached(d))
        BY <2>2 DEF Tick, CleanupCounters, RunDetached
      <3>2. \A j \in Instances : ~Cancel(j)
        <4> SUFFICES ASSUME NEW j \in Instances, Cancel(j)
                     PROVE  FALSE
          OBVIOUS
        <4>1. cancels' = cancels + 1 /\ cancels \in Nat
          BY <2>1, ManagerAssumption DEF Cancel, Shape
        <4> QED
          BY <4>1
      <3>3. ASSUME NEW j \in Instances, NEW c, Call(j, c)
            PROVE  FALSE
        <4>1. call[j] = Idle /\ call' = [call EXCEPT ![j] = c]
          BY <3>3 DEF Call
        <4>2. j # i
          BY <2>2, <4>1
        <4> QED
          BY <2>1, <2>2, <4>1, <4>2 DEF Shape
      <3>4. \A j \in Instances : ~RecordHit(j)
        BY <3>3 DEF RecordHit
      <3>5. \A j \in Instances : Run(j) => j = i
        BY <2>1, <2>2 DEF Run, Shape
      <3> QED
        BY <3>1, <3>2, <3>3, <3>4, <3>5 DEF Next
    <2> DEFINE c == call[i]
    <2>4. c \in Commands /\ Effect(i, c) /\ now' = now
      BY <2>1, <2>3, RunHasEffect
    <2>5. SweptOnce' /\ SweepsPlanned'
      BY <2>1, <2>4, EffectKeepsYoung, EffectKeepsPlans
    <2>6. PICK n \in Nat : n = now
      BY <2>1, ManagerAssumption DEF Shape
    <2>7. Interval \in Nat \ {0}
      BY ManagerAssumption
    <2>8. next_cleanup'[i] \in Nat /\ next_cleanup'[i] > n
      <3>1. next_cleanup'[i] \in Nat
        BY <2>1, <2>4, WhatBecomesOfSweeps
      <3>2. \/ next_cleanup'[i] = next_cleanup[i] /\ ~SweepDue(i)
            \/ next_cleanup'[i] = now + Interval
        BY <2>1, <2>4, WhatBecomesOfSweeps
      <3>3. next_cleanup[i] \in Nat
        BY <2>1 DEF Shape
      <3> QED
        BY <2>6, <2>7, <3>1, <3>2, <3>3 DEF SweepDue
    <2>9. entries'[k][2] > next_cleanup'[i] - Interval
      BY <2>5 DEF SweptOnce
    <2>10. entries'[k][2] \in Nat
      <3>1. entries'[k] \in Pairs
        BY <2>1, <2>4, WhatBecomesOfSweeps
      <3> QED
        BY <3>1 DEF Pairs
    <2> QED
      BY <2>6, <2>7, <2>8, <2>9, <2>10
  <1> QED
    BY <1>1, ManagerInvariant, PTL DEF Spec, GarbageBounded
-----------------------------------------------------------------------------
\* The plain keys keep KeyPromise.

LEMMA SameCardinality ==
  ASSUME NEW S
  PROVE  P!Cardinality(S) = Cardinality(S)
  BY DEF P!Cardinality, Cardinality

\* What is seen of a key, and that a key that shows nothing leaves room.
LEMMA SeenOfAKey ==
  ASSUME Shape
  PROVE  /\ \A k \in PlainKeys : Seen[k] = Live(entries[k]) /\ (k \in P!Live <=> Live(entries[k]) # Absent)
         /\ P!Live \subseteq PlainKeys
         /\ \A k \in PlainKeys : P!MayDrop(k) = {{}}
  <1>1. /\ \A k \in PlainKeys : Seen[k] = Live(entries[k])
        /\ P!Live = {k \in PlainKeys : Seen[k] # Absent}
    BY DEF Seen, P!Live, P!Absent, Absent, PlainKeys
  <1>2. ASSUME NEW k \in PlainKeys, k \notin P!Live
        PROVE  Cardinality(P!Live) # Cardinality(Names)
    <2> DEFINE names == {n \in Names : <<"name", n>> \in P!Live}
               to == [n \in names |-> <<"name", n>>]
    <2>1. PICK n \in Names : k = <<"name", n>>
      BY <1>2 DEF PlainKeys
    <2>2. n \notin names /\ names \in SUBSET Names /\ names # Names
      BY <1>2, <2>1
    <2>3. IsFiniteSet(Names)
      BY ManagerAssumption
    <2>4. /\ IsFiniteSet(names) /\ Cardinality(names) <= Cardinality(Names)
          /\ Cardinality(Names) # Cardinality(names)
      BY <2>2, <2>3, FS_Subset
    <2>5. to \in Surjection(names, P!Live)
      BY <1>1 DEF Surjection, PlainKeys
    <2>6. IsFiniteSet(P!Live) /\ Cardinality(P!Live) <= Cardinality(names)
      BY <2>4, <2>5, FS_Surjection
    <2> HIDE DEF names
    <2>7. PICK a \in Nat, b \in Nat, c \in Nat :
            a = Cardinality(P!Live) /\ b = Cardinality(names) /\ c = Cardinality(Names)
      BY <2>3, <2>4, <2>6, FS_CardinalityType
    <2> QED
      BY <2>4, <2>6, <2>7
  <1>3. \A k \in PlainKeys : P!MayDrop(k) = {{}}
    BY <1>2, SameCardinality DEF P!MayDrop
  <1> QED
    BY <1>1, <1>3

\* A step at one instant that leaves what is live shows the same.
LEMMA SeenStays ==
  ASSUME Shape, NEW e, NEW k \in PlainKeys, now' = now,
         \A d \in PlainKeys \ {k} : entries'[d] = entries[d] \/ entries'[d] = Live(entries[d]),
         Live(entries'[k]) = e
  PROVE  Seen' = [d \in PlainKeys |-> IF d = k THEN e ELSE Seen[d]]
  <1>1. ASSUME NEW d \in PlainKeys \ {k}
        PROVE  Live(entries'[d]) = Live(entries[d])
    BY WhatIsLive
  <1>2. Seen' = [d \in PlainKeys |-> Live(entries'[d])]
    BY DEF Seen, PlainKeys, Live
  <1> QED
    BY <1>1, <1>2 DEF Seen, PlainKeys

-----------------------------------------------------------------------------
\* What a write shows.
LEMMA WriteShows ==
  ASSUME Shape, NEW i \in Instances, NEW c, NEW k \in PlainKeys, c.key = k,
         Effect(i, c), now' = now, NEW e, Writes(i, k, e)
  PROVE  Seen' = [d \in PlainKeys |-> IF d = k THEN e ELSE Seen[d]]
  <1>1. k \in Keys /\ PlainKeys \subseteq Keys
    BY SortsOfKeys
  <1>2. entries'[k] = e
    BY <1>1, AfterWrite
  <1>3. e # Absent /\ (e[2] = None \/ ~(e[2] <= now))
    <2>1. e \in Pairs /\ e[2] \in Nat /\ (e[2] = None \/ e[2] > now)
      BY DEF Writes, Pairs
    <2>2. now \in Nat
      BY ManagerAssumption DEF Shape
    <2> QED
      BY <2>1, <2>2, StoredIsThere
  <1>4. Live(entries'[k]) = e
    BY <1>2, <1>3, WhatIsLive
  <1>5. \A d \in PlainKeys \ {k} : entries'[d] = entries[d] \/ entries'[d] = Live(entries[d])
    BY <1>1, OthersStay
  <1> QED
    BY <1>4, <1>5, SeenStays

LEMMA GetIsAllowed ==
  ASSUME Shape, NEW k \in PlainKeys, Get(k), now' = now
  PROVE  P!Get(k)
  <1>1. k \in Keys /\ PlainKeys \subseteq Keys /\ entries' = [entries EXCEPT ![k] = Live(entries[k])]
    BY SortsOfKeys DEF Get
  <1>2. entries'[k] = Live(entries[k]) /\ \A d \in PlainKeys \ {k} : entries'[d] = entries[d]
    BY <1>1, AfterLook
  <1>3. Live(entries'[k]) = Live(entries[k])
    BY <1>2, WhatIsLive
  <1>4. Seen' = [d \in PlainKeys |-> IF d = k THEN Live(entries[k]) ELSE Seen[d]]
    BY <1>2, <1>3, SeenStays
  <1>5. Seen[k] = Live(entries[k]) /\ (k \in P!Live <=> Live(entries[k]) # Absent)
    BY SeenOfAKey
  <1>6. Seen' = Seen
    BY <1>4, <1>5 DEF Seen, PlainKeys
  <1>7. Live(entries[k]) # Absent => Seen[k] = entries[k]
    BY <1>5, WhatIsLive
  <1>8. reply' = IF k \in P!Live THEN <<"value", Seen[k][1]>> ELSE <<"nothing">>
    BY <1>5, <1>7 DEF Get
  <1> QED
    BY <1>6, <1>8 DEF P!Get, P!Value

LEMMA DeleteIsAllowed ==
  ASSUME Shape, NEW k \in PlainKeys, Delete(k), now' = now
  PROVE  P!Delete(k)
  <1>1. k \in Keys /\ PlainKeys \subseteq Keys /\ entries' = [entries EXCEPT ![k] = Absent]
    BY SortsOfKeys DEF Delete
  <1>2. entries'[k] = Absent /\ \A d \in PlainKeys \ {k} : entries'[d] = entries[d]
    BY <1>1, AfterLook
  <1>3. Seen' = [d \in PlainKeys |-> IF d = k THEN Absent ELSE Seen[d]]
    BY <1>2, WhatIsLive, SeenStays
  <1>4. Seen' = [Seen EXCEPT ![k] = Absent]
    BY <1>3 DEF Seen, PlainKeys
  <1> QED
    BY <1>4 DEF Delete, P!Delete, P!Absent, Absent

LEMMA WriteIsAllowed ==
  ASSUME Shape, NEW k \in PlainKeys, NEW v, NEW deadline,
         Seen' = [d \in PlainKeys |-> IF d = k THEN <<v, deadline>> ELSE Seen[d]]
  PROVE  \E dropped \in P!MayDrop(k) : P!Wrote(k, P!Entry(v, deadline), dropped)
  <1>1. P!MayDrop(k) = {{}}
    BY SeenOfAKey
  <1>2. P!Wrote(k, P!Entry(v, deadline), {})
    BY DEF P!Wrote, P!Entry, PlainKeys
  <1> QED
    BY <1>1, <1>2

LEMMA SetIsAllowed ==
  ASSUME Shape, NEW i \in Instances, NEW c, NEW k \in PlainKeys, c.key = k, Effect(i, c),
         NEW expire \in Lifetimes \cup {None}, Set(i, k, 1, expire), now' = now
  PROVE  P!Set(k, 1, expire)
  <1> DEFINE deadline == IF expire = None THEN None ELSE now + expire
  <1>1. Writes(i, k, <<1, deadline>>)
    <2>1. k \in Keys /\ 1 \in Nat \ {0}
      BY SortsOfKeys
    <2> QED
      BY <2>1, SetWrites
  <1>2. deadline = P!DeadlineOf(expire)
    BY DEF P!DeadlineOf, P!Never, None
  <1> HIDE DEF deadline
  <1>3. Seen' = [d \in PlainKeys |-> IF d = k THEN <<1, deadline>> ELSE Seen[d]]
    BY <1>1, WriteShows
  <1>4. \E dropped \in P!MayDrop(k) : P!Wrote(k, P!Entry(1, deadline), dropped)
    BY <1>3, WriteIsAllowed
  <1> QED
    BY <1>2, <1>4 DEF Set, P!Set

LEMMA IncrIsAllowed ==
  ASSUME Shape, NEW i \in Instances, NEW c, NEW k \in PlainKeys, c.key = k, Effect(i, c),
         NEW expire \in Lifetimes \cup {None}, Incr(i, k, expire),
         reply' = <<"value", Counted(k)>>, now' = now
  PROVE  P!Incr(k, expire)
  <1> DEFINE v == Counted(k)
             deadline == Until(k, expire)
  <1>1. Writes(i, k, <<v, deadline>>)
    <2>1. k \in Keys
      BY SortsOfKeys
    <2>2. Lifetimes \cup {None} \subseteq Nat
      BY ManagerAssumption DEF None
    <2>3. expire \in Nat
      BY <2>2
    <2> QED
      BY <2>1, <2>3, IncrWrites
  <1>2. Seen[k] = Live(entries[k]) /\ (k \in P!Live <=> Live(entries[k]) # Absent)
    BY SeenOfAKey
  <1>3. k \in P!Live => Seen[k] = entries[k]
    BY <1>2, WhatIsLive
  <1>4. v = (IF k \in P!Live THEN P!Value(k) ELSE 0) + 1
    BY <1>2, <1>3 DEF Counted, P!Value
  <1>5. deadline = IF expire = P!Never /\ k \in P!Live THEN P!Deadline(k) ELSE P!DeadlineOf(expire)
    BY <1>2, <1>3 DEF Until, P!Deadline, P!DeadlineOf, P!Never, None
  <1> HIDE DEF v, deadline
  <1>6. Seen' = [d \in PlainKeys |-> IF d = k THEN <<v, deadline>> ELSE Seen[d]]
    BY <1>1, WriteShows
  <1>7. \E dropped \in P!MayDrop(k) : P!Wrote(k, P!Entry(v, deadline), dropped)
    BY <1>6, WriteIsAllowed
  <1>8. reply' = <<"value", v>>
    BY DEF v
  <1> QED
    BY <1>4, <1>5, <1>7, <1>8 DEF P!Incr

\* A hit is on a counter, which no plain key shows.
LEMMA HitShowsNothing ==
  ASSUME Shape, NEW i \in Instances, NEW c, Effect(i, c), c.op = "hit", now' = now
  PROVE  UNCHANGED <<now, Seen, reply>>
  <1>1. c.key \in Buckets /\ reply' = reply
    BY DEF Effect
  <1>2. \A d \in PlainKeys : d \in Keys /\ d # c.key
    BY <1>1, SortsOfKeys
  <1>3. \A d \in PlainKeys : entries'[d] = entries[d] \/ entries'[d] = Live(entries[d])
    BY <1>2, OthersStay
  <1>4. \A d \in PlainKeys : Live(entries'[d]) = Live(entries[d])
    BY <1>3, WhatIsLive
  <1>5. Seen' = [d \in PlainKeys |-> Live(entries'[d])]
    BY DEF Seen, PlainKeys, Live
  <1>6. Seen' = Seen
    BY <1>4, <1>5 DEF Seen, PlainKeys
  <1> QED
    BY <1>1, <1>6

LEMMA CommandIsAllowed ==
  ASSUME Shape, NEW i \in Instances, NEW c \in Commands, Perform(i, c), now' = now
  PROVE  P!Next \/ UNCHANGED P!promiseVars
  <1>1. Effect(i, c)
    BY WhatIsPerformed
  <1>2. CASE c.op = "hit"
    BY <1>1, <1>2, HitShowsNothing DEF P!promiseVars
  <1>3. CASE c.op = "get" /\ c.key \in PlainKeys
    <2>1. Get(c.key)
      BY <1>3 DEF Perform
    <2>2. P!Get(c.key) /\ c.key \in {"name"} \X Names
      BY <1>3, <2>1, GetIsAllowed DEF PlainKeys
    <2> QED
      BY <2>2 DEF P!Next
  <1>4. CASE c.op = "delete" /\ c.key \in PlainKeys
    <2>1. Delete(c.key)
      <3>1. c.op # "get" /\ c.op # "set" /\ c.op # "incr" /\ c.op # "hit"
        BY <1>4
      <3> QED
        BY <1>1, <1>4, <3>1 DEF Effect
    <2>2. P!Delete(c.key) /\ c.key \in {"name"} \X Names
      BY <1>4, <2>1, DeleteIsAllowed DEF PlainKeys
    <2> QED
      BY <2>2 DEF P!Next
  <1>5. CASE c.op = "set" /\ c.key \in PlainKeys /\ c.expire \in Lifetimes \cup {None}
    <2>1. P!Set(c.key, 1, c.expire)
      BY <1>1, <1>5, SetUnfolds, SetIsAllowed
    <2>2. c.key \in {"name"} \X Names /\ c.expire \in Lifetimes \cup {P!Never}
      BY <1>5 DEF PlainKeys, P!Never, None
    <2>3. 1 \in 1 .. MaxValue
      BY ManagerAssumption
    <2> QED
      BY <2>1, <2>2, <2>3 DEF P!Next
  <1>6. CASE c.op = "incr" /\ c.key \in PlainKeys /\ c.expire \in Lifetimes \cup {None}
    <2>1. P!Incr(c.key, c.expire)
      BY <1>1, <1>6, IncrUnfolds, IncrIsAllowed
    <2>2. c.key \in {"name"} \X Names /\ c.expire \in Lifetimes \cup {P!Never}
      BY <1>6 DEF PlainKeys, P!Never, None
    <2> QED
      BY <2>1, <2>2 DEF P!Next
  <1> QED
    BY <1>2, <1>3, <1>4, <1>5, <1>6, SortsOfCommands

LEMMA TickPasses ==
  ASSUME Shape, Tick
  PROVE  P!Pass
  <1>1. now' = now + 1 /\ UNCHANGED <<entries, reply>>
    BY DEF Tick
  <1>2. now \in Nat /\ now' \in Nat /\ now' > now
    BY <1>1, ManagerAssumption DEF Shape
  <1>3. ASSUME NEW k \in PlainKeys
        PROVE  Seen'[k] = IF k \in P!Live /\ Seen[k][2] # None /\ Seen[k][2] <= now' THEN Absent
                          ELSE Seen[k]
    <2>1. Seen[k] = Live(entries[k]) /\ (k \in P!Live <=> Live(entries[k]) # Absent)
      BY SeenOfAKey
    <2>2. Seen'[k] = IF entries[k] # Absent /\ entries[k][2] # None /\ entries[k][2] <= now'
                     THEN Absent ELSE entries[k]
      BY <1>1 DEF Seen, Live, PlainKeys
    <2>3. CASE entries[k] = Absent
      BY <2>1, <2>2, <2>3, WhatIsLive
    <2>4. CASE entries[k] # Absent
      <3>1. k \in Keys
        BY SortsOfKeys
      <3>2. PICK u \in Nat : u = entries[k][2]
        BY <2>4, <3>1, EntryType
      <3>3. CASE u # None /\ u <= now
        <4>1. Live(entries[k]) = Absent
          BY <2>4, <3>2, <3>3 DEF Live
        <4>2. Seen'[k] = Absent
          BY <1>2, <2>2, <2>4, <3>2, <3>3
        <4> QED
          BY <2>1, <4>1, <4>2
      <3>4. CASE u = None \/ ~(u <= now)
        <4>1. Live(entries[k]) = entries[k]
          BY <2>4, <3>2, <3>4, WhatIsLive
        <4> QED
          BY <2>1, <2>2, <2>4, <3>2, <4>1
      <3> QED
        BY <3>3, <3>4
    <2> QED
      BY <2>3, <2>4
  <1>4. Seen' = [k \in PlainKeys |-> Seen'[k]]
    BY DEF Seen, PlainKeys
  <1>5. Seen' = [k \in PlainKeys |-> IF k \in P!Live /\ Seen[k][2] # None /\ Seen[k][2] <= now'
                                     THEN Absent ELSE Seen[k]]
    BY <1>3, <1>4
  <1> QED
    BY <1>1, <1>2, <1>5 DEF P!Pass, P!Deadline, P!Never, P!Absent, None, Absent, PlainKeys

\* The plain keys keep KeyPromise, whoever's sweep or lazy expiry removes what,
\* and though operations of cancelled callers take effect late (manager.py).
THEOREM ManagerKeepsPromise == Spec => KeepsPromise
  <1>1. Init => P!Init
    <2> SUFFICES ASSUME Init
                 PROVE  P!Init
      OBVIOUS
    <2>1. \A k \in Keys : entries[k] = Absent
      BY DEF Init
    <2>2. Seen = [k \in PlainKeys |-> Absent]
      BY <2>1, WhatIsLive, SortsOfKeys DEF Seen, PlainKeys
    <2> QED
      BY <2>2 DEF Init, P!Init, P!Absent, Absent, PlainKeys
  <1>2. ManagerInv /\ [Next]_vars => [P!Next]_(P!promiseVars)
    <2> SUFFICES ASSUME ManagerInv, [Next]_vars
                 PROVE  [P!Next]_(P!promiseVars)
      OBVIOUS
    <2>1. Shape
      BY DEF ManagerInv
    <2>2. CASE Tick
      BY <2>1, <2>2, TickPasses DEF P!Next
    <2>3. ASSUME UNCHANGED <<now, entries, reply>>
          PROVE  UNCHANGED P!promiseVars
      BY <2>3 DEF Seen, Live, P!promiseVars
    <2>4. ASSUME NEW i \in Instances, NEW c, Call(i, c)
          PROVE  UNCHANGED P!promiseVars
      BY <2>3, <2>4 DEF Call
    <2>5. ASSUME NEW i \in Instances, RecordHit(i)
          PROVE  UNCHANGED P!promiseVars
      BY <2>4, <2>5 DEF RecordHit
    <2>6. ASSUME NEW i \in Instances, Cancel(i)
          PROVE  UNCHANGED P!promiseVars
      BY <2>3, <2>6 DEF Cancel
    <2>7. ASSUME NEW i \in Instances, Run(i)
          PROVE  P!Next \/ UNCHANGED P!promiseVars
      <3>1. call[i] \in Commands /\ Perform(i, call[i]) /\ now' = now
        BY <2>1, <2>7, RunHasEffect DEF Run
      <3> QED
        BY <2>1, <3>1, CommandIsAllowed
    <2>8. ASSUME NEW d \in detached, RunDetached(d)
          PROVE  P!Next \/ UNCHANGED P!promiseVars
      <3>1. d.instance \in Instances /\ d.operation \in Commands /\ now' = now
            /\ Perform(d.instance, d.operation)
        BY <2>1, <2>8, RunDetachedHasEffect DEF RunDetached
      <3> QED
        BY <2>1, <3>1, CommandIsAllowed
    <2>9. CASE CleanupCounters
      <3>1. now' = now /\ reply' = reply
        BY <2>9 DEF CleanupCounters
      <3>2. \A k \in PlainKeys : entries'[k] = entries[k]
        BY <2>9, SortsOfKeys DEF CleanupCounters
      <3>3. Seen' = Seen
        BY <3>1, <3>2 DEF Seen, Live, PlainKeys
      <3> QED
        BY <3>1, <3>3 DEF P!promiseVars
    <2>10. CASE UNCHANGED vars
      BY <2>3, <2>10 DEF vars
    <2> QED
      BY <2>2, <2>4, <2>5, <2>6, <2>7, <2>8, <2>9, <2>10 DEF Next
  <1> QED
    BY <1>1, <1>2, ManagerInvariant, PTL DEF Spec, KeepsPromise, P!Spec
=============================================================================
