-------------------------- MODULE MemoryKeys_proofs --------------------------
(***************************************************************************)
(* Theorems about the key/value side of the in-memory storage, for every   *)
(* set of addresses and keys, every capacity and every lifetime.           *)
(***************************************************************************)
EXTENDS MemoryKeys, FiniteSetTheorems, TLAPS

Times == 0 .. MaxTime

\* The store's dictionaries describe finitely many keys, and what the store
\* holds of a key's last access is when a caller last found or wrote it: no
\* operation finds a key without touching it, or touches one it does not find.
KeysInv ==
  /\ TypeOK
  /\ IsFiniteSet(DOMAIN values)
  /\ \A k \in DOMAIN values : last_access[k] = used[k]
-----------------------------------------------------------------------------
\* Every step passes time or is an operation on one key.

LEMMA SortsOfKeys ==
  /\ \A ip \in IPs : Block(ip) \in Keys /\ Allow(ip) \in Keys
  /\ Others \subseteq Keys /\ Controls \subseteq Keys
  /\ \A k \in Keys : k \in Others <=> k \notin Controls
  BY DEF Block, Allow, Keys, Controls, Others

Operation ==
  \E k \in Keys :
    \/ get(k)
    \/ \E v \in 1 .. MaxValue, expire \in Lifetimes \cup {None} : set(k, v, expire)
    \/ \E expire \in Lifetimes \cup {None} : incr(k, expire)
    \/ delete(k)

LEMMA StepIsAnOperation ==
  ASSUME Next
  PROVE  Tick \/ Operation
  <1>1. 1 \in 1 .. MaxValue /\ None \in Lifetimes \cup {None}
    BY KeysAssumption
  <1>2. ASSUME NEW ip \in IPs,
               \/ \E duration \in Lifetimes \cup {None} : block_ip(ip, duration)
               \/ unblock_ip(ip)
               \/ is_blocked(ip)
               \/ allow_ip(ip)
               \/ remove_allow(ip)
               \/ is_allowed(ip)
        PROVE  Operation
    BY <1>1, <1>2, SortsOfKeys
       DEF block_ip, unblock_ip, is_blocked, allow_ip, remove_allow, is_allowed, Operation
  <1>3. ASSUME NEW k \in Others,
               \/ get(k)
               \/ \E v \in 1 .. MaxValue, expire \in Lifetimes \cup {None} : set(k, v, expire)
               \/ \E expire \in Lifetimes \cup {None} : incr(k, expire)
               \/ delete(k)
        PROVE  Operation
    BY <1>3, SortsOfKeys DEF Operation
  <1> QED
    BY <1>2, <1>3 DEF Next

LEMMA DeadlineType ==
  ASSUME TypeOK, NEW expire \in Lifetimes \cup {None}
  PROVE  /\ Deadline(expire) \in Nat
         /\ expire = None => Deadline(expire) = None
         /\ expire # None => Deadline(expire) = now + expire /\ Deadline(expire) > now
  BY KeysAssumption DEF TypeOK, Deadline, None
-----------------------------------------------------------------------------
\* Making room.

LEMMA TargetIsBelowMax ==
  TargetSize \in Int /\ TargetSize < MaxKeys
  <1>1. MaxKeys \div EvictShare \in Int
    BY KeysAssumption
  <1>2. TrimBy \in Int /\ TrimBy >= 1
    BY <1>1 DEF TrimBy
  <1> QED
    BY <1>2, KeysAssumption DEF TargetSize

\* What a write may leave: everything, if there is room; everything but the
\* expired, if there are any; or else all but the evictable keys accessed
\* longest ago, of which there is one at least.
MakesRoom(k, gone, kept) ==
  LET present == DOMAIN values \ gone
  IN  \/ kept = present /\ (k \in present \/ Cardinality(present) < MaxKeys)
      \/ kept = present \ Expired /\ present \cap Expired # {}
      \/ /\ k \notin present /\ Cardinality(present) = MaxKeys
         /\ present = DOMAIN values /\ present \cap Expired = {}
         /\ \E cut \in SUBSET (present \cap Others) :
              /\ cut # {} /\ kept = present \ cut
              /\ \A c \in cut, d \in (present \cap Others) \ cut :
                   last_access[c] <= last_access[d]

LEMMA WaysToMakeRoom ==
  ASSUME KeysInv, NEW k, NEW gone \in SUBSET {k}, NEW kept \in KeptForWrite(k, gone)
  PROVE  MakesRoom(k, gone, kept)
  <1> DEFINE present == DOMAIN values \ gone
             evictable == present \cap Others
             n == Cardinality(present) - TargetSize
  <1>1. /\ IsFiniteSet(present) /\ IsFiniteSet(evictable)
        /\ Cardinality(present) \in Nat /\ Cardinality(DOMAIN values) \in Nat
        /\ Cardinality(present) <= Cardinality(DOMAIN values)
        /\ Cardinality(present) = Cardinality(DOMAIN values) => present = DOMAIN values
        /\ Cardinality(DOMAIN values) <= MaxKeys
    BY FS_Subset, FS_CardinalityType DEF KeysInv, TypeOK
  <1>2. CASE k \in present \/ Cardinality(present) < MaxKeys
    BY <1>2 DEF KeptForWrite, MakesRoom
  <1>3. CASE ~(k \in present \/ Cardinality(present) < MaxKeys) /\ present \cap Expired # {}
    BY <1>3 DEF KeptForWrite, MakesRoom
  <1>4. CASE ~(k \in present \/ Cardinality(present) < MaxKeys) /\ present \cap Expired = {}
    <2>1. kept \in {present \ cut : cut \in OldestOf(evictable, n)} /\ evictable # {}
      BY <1>4 DEF KeptForWrite
    <2>2. PICK cut \in OldestOf(evictable, n) : kept = present \ cut
      BY <2>1
    <2>3. Cardinality(present) = MaxKeys /\ present = DOMAIN values
      BY <1>1, <1>4, KeysAssumption
    <2>4. n \in Int /\ n >= 1
      BY <2>3, TargetIsBelowMax, KeysAssumption
    <2>5. Cardinality(evictable) \in Nat /\ Cardinality(evictable) # 0
      BY <1>1, <2>1, FS_EmptySet, FS_CardinalityType
    <2> HIDE DEF n
    <2>6. cut # {}
      <3>1. Cardinality(cut) = IF Cardinality(evictable) < n THEN Cardinality(evictable) ELSE n
        BY <2>2 DEF OldestOf
      <3>2. Cardinality(cut) # 0
        BY <2>4, <2>5, <3>1
      <3> QED
        BY <3>2, FS_EmptySet
    <2>7. cut \in SUBSET evictable
          /\ \A c \in cut, d \in evictable \ cut : last_access[c] <= last_access[d]
      BY <2>2 DEF OldestOf
    <2> QED
      BY <1>4, <2>2, <2>3, <2>6, <2>7 DEF MakesRoom
  <1> QED
    BY <1>2, <1>3, <1>4

LEMMA KeptMakesRoom ==
  ASSUME KeysInv, NEW k, NEW gone \in SUBSET {k}, NEW kept \in KeptForWrite(k, gone)
  PROVE  /\ kept \subseteq DOMAIN values \ gone
         /\ IsFiniteSet(kept \cup {k})
         /\ Cardinality(kept \cup {k}) <= MaxKeys
  <1> DEFINE present == DOMAIN values \ gone
  <1>0. MakesRoom(k, gone, kept)
    BY WaysToMakeRoom
  <1>1. /\ IsFiniteSet(DOMAIN values) /\ IsFiniteSet(present)
        /\ Cardinality(present) \in Nat /\ Cardinality(DOMAIN values) \in Nat
        /\ Cardinality(present) <= MaxKeys
    <2>1. IsFiniteSet(DOMAIN values) /\ Cardinality(DOMAIN values) <= MaxKeys
      BY DEF KeysInv, TypeOK
    <2>2. /\ IsFiniteSet(present) /\ Cardinality(present) <= Cardinality(DOMAIN values)
          /\ Cardinality(present) \in Nat /\ Cardinality(DOMAIN values) \in Nat
      BY <2>1, FS_Subset, FS_CardinalityType
    <2> QED
      BY <2>1, <2>2, KeysAssumption
  <1>2. kept \subseteq present
    BY <1>0 DEF MakesRoom
  <1>3. IsFiniteSet(kept) /\ Cardinality(kept) \in Nat
    BY <1>1, <1>2, FS_Subset, FS_CardinalityType
  <1>4. /\ IsFiniteSet(kept \cup {k})
        /\ Cardinality(kept \cup {k}) = IF k \in kept THEN Cardinality(kept) ELSE Cardinality(kept) + 1
    BY <1>3, FS_AddElement
  <1>5. Cardinality(kept) <= Cardinality(present)
    BY <1>1, <1>2, FS_Subset
  <1>6. kept # present => Cardinality(kept) < Cardinality(present)
    BY <1>1, <1>2, <1>3, <1>5, FS_Subset
  <1>7. kept # present \/ k \in kept \/ Cardinality(present) < MaxKeys
    BY <1>0 DEF MakesRoom
  <1> HIDE DEF present
  <1>8. Cardinality(kept \cup {k}) <= MaxKeys
    BY <1>1, <1>3, <1>4, <1>5, <1>6, <1>7, KeysAssumption
  <1> QED
    BY <1>2, <1>4, <1>8 DEF present
-----------------------------------------------------------------------------
\* What writing and deleting do to the dictionaries.

LEMMA AfterWrite ==
  ASSUME KeysInv, NEW k \in Keys, NEW v \in Nat, NEW deadline \in Nat,
         NEW kept \in SUBSET DOMAIN values, Write(k, v, deadline, kept)
  PROVE  /\ DOMAIN values' = kept \cup {k} /\ DOMAIN last_access' = kept \cup {k}
         /\ values' = [d \in kept \cup {k} |-> IF d = k THEN v ELSE values[d]]
         /\ last_access' = [d \in kept \cup {k} |-> IF d = k THEN now ELSE last_access[d]]
         /\ DOMAIN expires' = (DOMAIN expires \cap (kept \ {k})) \cup
                                IF deadline = None THEN {} ELSE {k}
         /\ expires' = [d \in DOMAIN expires' |-> IF d = k THEN deadline ELSE expires[d]]
         /\ used' = [used EXCEPT ![k] = now]
  <1>1. DOMAIN values \cap kept = kept /\ DOMAIN last_access = DOMAIN values
    BY DEF KeysInv, TypeOK
  <1>2. values' = [d \in kept \cup {k} |-> IF d = k THEN v ELSE values[d]]
    BY <1>1 DEF Write, With, Keeping, Restrict
  <1>3. last_access' = [d \in kept \cup {k} |-> IF d = k THEN now ELSE last_access[d]]
    BY <1>1 DEF Write, With, Keeping, Restrict
  <1>4. CASE deadline = None
    <2>1. expires' = [d \in DOMAIN expires \cap (kept \ {k}) |-> expires[d]]
      BY <1>4 DEF Write, Keeping, Restrict
    <2> QED
      BY <1>2, <1>3, <1>4, <2>1 DEF Write, Used
  <1>5. CASE deadline # None
    <2>1. expires' = [d \in (DOMAIN expires \cap kept) \cup {k} |->
                        IF d = k THEN deadline ELSE expires[d]]
      BY <1>5 DEF Write, With, Keeping, Restrict
    <2> QED
      BY <1>2, <1>3, <1>5, <2>1 DEF Write, Used
  <1> QED
    BY <1>4, <1>5

LEMMA AfterDelete ==
  ASSUME KeysInv, NEW k, DeleteKeys({k})
  PROVE  /\ values' = [d \in DOMAIN values \ {k} |-> values[d]]
         /\ expires' = [d \in DOMAIN expires \ {k} |-> expires[d]]
         /\ last_access' = [d \in DOMAIN values \ {k} |-> last_access[d]]
  <1>1. /\ DOMAIN values \cap (Keys \ {k}) = DOMAIN values \ {k}
        /\ DOMAIN expires \cap (Keys \ {k}) = DOMAIN expires \ {k}
        /\ DOMAIN last_access \cap (Keys \ {k}) = DOMAIN values \ {k}
    BY DEF KeysInv, TypeOK
  <1> QED
    BY <1>1 DEF DeleteKeys, Keeping, Restrict

LEMMA WriteKeepsInv ==
  ASSUME KeysInv, NEW k \in Keys, NEW v \in Nat, NEW deadline \in Nat,
         NEW gone \in SUBSET {k}, NEW kept \in KeptForWrite(k, gone),
         Write(k, v, deadline, kept), now' = now
  PROVE  KeysInv'
  <1>1. kept \in SUBSET DOMAIN values
    BY KeptMakesRoom
  <1>2. /\ DOMAIN values' = kept \cup {k} /\ DOMAIN last_access' = kept \cup {k}
        /\ values' = [d \in kept \cup {k} |-> IF d = k THEN v ELSE values[d]]
        /\ last_access' = [d \in kept \cup {k} |-> IF d = k THEN now ELSE last_access[d]]
        /\ DOMAIN expires' = (DOMAIN expires \cap (kept \ {k})) \cup
                               IF deadline = None THEN {} ELSE {k}
        /\ expires' = [d \in DOMAIN expires' |-> IF d = k THEN deadline ELSE expires[d]]
        /\ used' = [used EXCEPT ![k] = now]
    BY <1>1, AfterWrite
  <1>3. /\ now \in Times /\ DOMAIN values \subseteq Keys
        /\ values \in [DOMAIN values -> Nat] /\ expires \in [DOMAIN expires -> Nat \ {0}]
        /\ last_access \in [DOMAIN values -> Times] /\ used \in [Keys -> Times]
        /\ \A d \in DOMAIN values : last_access[d] = used[d]
    BY DEF KeysInv, TypeOK, Times
  <1>4. DOMAIN values' \subseteq Keys /\ Cardinality(DOMAIN values') <= MaxKeys
        /\ IsFiniteSet(DOMAIN values')
    BY <1>1, <1>2, <1>3, KeptMakesRoom
  <1>5. DOMAIN expires' \subseteq DOMAIN values'
    BY <1>2
  <1>6. values' \in [DOMAIN values' -> Nat]
    BY <1>1, <1>2, <1>3
  <1>7. expires' \in [DOMAIN expires' -> Nat \ {0}]
    BY <1>2, <1>3 DEF None
  <1>8. last_access' \in [DOMAIN values' -> Times]
    BY <1>1, <1>2, <1>3
  <1>9. used' \in [Keys -> Times]
    BY <1>2, <1>3
  <1>10. \A d \in DOMAIN values' : last_access'[d] = used'[d]
    BY <1>1, <1>2, <1>3
  <1> QED
    BY <1>2, <1>3, <1>4, <1>5, <1>6, <1>7, <1>8, <1>9, <1>10 DEF KeysInv, TypeOK, Times

LEMMA DeleteKeepsInv ==
  ASSUME KeysInv, NEW k, DeleteKeys({k}), UNCHANGED <<now, used>>
  PROVE  KeysInv'
  <1>1. /\ values' = [d \in DOMAIN values \ {k} |-> values[d]]
        /\ expires' = [d \in DOMAIN expires \ {k} |-> expires[d]]
        /\ last_access' = [d \in DOMAIN values \ {k} |-> last_access[d]]
    BY AfterDelete
  <1>2. /\ now \in Times /\ DOMAIN values \subseteq Keys /\ DOMAIN expires \subseteq DOMAIN values
        /\ values \in [DOMAIN values -> Nat] /\ expires \in [DOMAIN expires -> Nat \ {0}]
        /\ last_access \in [DOMAIN values -> Times] /\ used \in [Keys -> Times]
        /\ IsFiniteSet(DOMAIN values) /\ Cardinality(DOMAIN values) <= MaxKeys
        /\ \A d \in DOMAIN values : last_access[d] = used[d]
    BY DEF KeysInv, TypeOK, Times
  <1>3. DOMAIN values' = DOMAIN values \ {k} /\ DOMAIN last_access' = DOMAIN values \ {k}
        /\ DOMAIN expires' = DOMAIN expires \ {k}
    BY <1>1
  <1>4. IsFiniteSet(DOMAIN values') /\ Cardinality(DOMAIN values') <= MaxKeys
    <2>1. IsFiniteSet(DOMAIN values') /\ Cardinality(DOMAIN values') <= Cardinality(DOMAIN values)
      BY <1>2, <1>3, FS_Subset
    <2>2. Cardinality(DOMAIN values') \in Nat /\ Cardinality(DOMAIN values) \in Nat
      BY <1>2, <2>1, FS_CardinalityType
    <2> QED
      BY <1>2, <2>1, <2>2, KeysAssumption
  <1>5. values' \in [DOMAIN values' -> Nat] /\ expires' \in [DOMAIN expires' -> Nat \ {0}]
        /\ last_access' \in [DOMAIN values' -> Times]
    BY <1>1, <1>2
  <1>6. \A d \in DOMAIN values' : last_access'[d] = used'[d]
    BY <1>1, <1>2, <1>3
  <1> QED
    BY <1>2, <1>3, <1>4, <1>5, <1>6 DEF KeysInv, TypeOK, Times

\* What a key is counted to, and until when it is then kept.
Counted(k) == (IF k \in DOMAIN values \ Expired THEN values[k] ELSE 0) + 1
CountedUntil(k, expire) ==
  IF expire # None THEN now + expire
  ELSE IF k \in DOMAIN expires \ Expired THEN expires[k] ELSE None

LEMMA IncrUnfolds ==
  ASSUME KeysInv, NEW k \in Keys, NEW expire \in Lifetimes \cup {None}, incr(k, expire)
  PROVE  /\ \/ \E kept \in KeptForWrite(k, {k} \cap Expired) :
                 /\ Counted(k) <= MaxValue
                 /\ Write(k, Counted(k), CountedUntil(k, expire), kept)
                 /\ answer' = <<"value", Counted(k)>>
                 /\ now' = now
            \/ KeptForWrite(k, {k} \cap Expired) = {} /\ Unavailable
         /\ Counted(k) \in Nat /\ CountedUntil(k, expire) \in Nat
  <1>1. /\ k \in DOMAIN values \ ({k} \cap Expired) <=> k \in DOMAIN values \ Expired
        /\ k \in DOMAIN expires \ ({k} \cap Expired) <=> k \in DOMAIN expires \ Expired
    OBVIOUS
  <1>2. Counted(k) = (IF k \in DOMAIN values \ ({k} \cap Expired) THEN values[k] ELSE 0) + 1
    BY <1>1 DEF Counted
  <1>3. CountedUntil(k, expire) =
          IF expire # None THEN now + expire
          ELSE IF k \in DOMAIN expires \ ({k} \cap Expired) THEN expires[k] ELSE None
    BY <1>1 DEF CountedUntil
  <1>4. Counted(k) \in Nat
    <2>1. k \in DOMAIN values => values[k] \in Nat
      BY DEF KeysInv, TypeOK
    <2> QED
      BY <2>1 DEF Counted
  <1>5. CountedUntil(k, expire) \in Nat
    <2>1. k \in DOMAIN expires => expires[k] \in Nat
      BY DEF KeysInv, TypeOK
    <2>2. now \in Nat /\ expire \in Nat
      BY KeysAssumption DEF KeysInv, TypeOK, None
    <2> QED
      BY <2>1, <2>2 DEF CountedUntil, None
  <1>6. \/ \E kept \in KeptForWrite(k, {k} \cap Expired) :
             /\ Counted(k) <= MaxValue
             /\ Write(k, Counted(k), CountedUntil(k, expire), kept)
             /\ answer' = <<"value", Counted(k)>>
             /\ now' = now
        \/ KeptForWrite(k, {k} \cap Expired) = {} /\ Unavailable
    BY <1>2, <1>3 DEF incr
  <1> QED
    BY <1>4, <1>5, <1>6

LEMMA KeysInvariant == Spec => []KeysInv
  <1>1. Init => KeysInv
    BY FS_EmptySet, KeysAssumption DEF Init, KeysInv, TypeOK, Empty
  <1>2. KeysInv /\ [Next]_vars => KeysInv'
    <2> SUFFICES ASSUME KeysInv, [Next]_vars
                 PROVE  KeysInv'
      OBVIOUS
    <2>1. CASE UNCHANGED <<store, used>> /\ now' \in 0 .. MaxTime
      BY <2>1 DEF store, KeysInv, TypeOK
    <2>2. now \in 0 .. MaxTime
      BY DEF KeysInv, TypeOK
    <2>3. CASE Tick
      <3>1. now' \in 0 .. MaxTime /\ UNCHANGED <<store, used>>
        BY <2>2, <2>3, KeysAssumption DEF Tick
      <3> QED
        BY <2>1, <3>1
    <2>4. CASE Unavailable
      BY <2>1, <2>2, <2>4 DEF Unavailable
    <2>5. ASSUME NEW k \in Keys, get(k)
          PROVE  KeysInv'
      <3>1. CASE k \in Expired
        <4>1. DeleteKeys({k}) /\ UNCHANGED <<now, used>>
          BY <2>5, <3>1 DEF get
        <4> QED
          BY <4>1, DeleteKeepsInv
      <3>2. CASE k \notin Expired /\ k \in DOMAIN values
        <4>1. /\ last_access' = [last_access EXCEPT ![k] = now]
              /\ used' = [used EXCEPT ![k] = now]
              /\ UNCHANGED <<now, values, expires>>
          BY <2>5, <3>2 DEF get, Used
        <4> QED
          BY <3>2, <4>1 DEF KeysInv, TypeOK
      <3>3. CASE k \notin Expired /\ k \notin DOMAIN values
        <4>1. UNCHANGED <<store, used>> /\ now' = now
          BY <2>5, <3>3 DEF get, store
        <4> QED
          BY <2>1, <2>2, <4>1
      <3> QED
        BY <3>1, <3>2, <3>3
    <2>6. ASSUME NEW k \in Keys, NEW v \in 1 .. MaxValue, NEW expire \in Lifetimes \cup {None},
                 set(k, v, expire)
          PROVE  KeysInv'
      <3>1. CASE \E kept \in KeptForWrite(k, {}) :
                   Write(k, v, Deadline(expire), kept) /\ now' = now
        <4>1. PICK kept \in KeptForWrite(k, {}) :
                Write(k, v, Deadline(expire), kept) /\ now' = now
          BY <3>1
        <4>2. v \in Nat /\ Deadline(expire) \in Nat /\ {} \in SUBSET {k}
          BY DeadlineType DEF KeysInv
        <4> QED
          BY <4>1, <4>2, WriteKeepsInv
      <3> QED
        BY <2>4, <2>6, <3>1 DEF set
    <2>7. ASSUME NEW k \in Keys, NEW expire \in Lifetimes \cup {None}, incr(k, expire)
          PROVE  KeysInv'
      <3>1. ASSUME NEW kept \in KeptForWrite(k, {k} \cap Expired),
                   Write(k, Counted(k), CountedUntil(k, expire), kept), now' = now
            PROVE  KeysInv'
        <4>1. Counted(k) \in Nat /\ CountedUntil(k, expire) \in Nat
              /\ {k} \cap Expired \in SUBSET {k}
          BY <2>7, IncrUnfolds
        <4> QED
          BY <3>1, <4>1, WriteKeepsInv
      <3> QED
        BY <2>4, <2>7, <3>1, IncrUnfolds
    <2>8. ASSUME NEW k \in Keys, delete(k)
          PROVE  KeysInv'
      BY <2>8, DeleteKeepsInv DEF delete
    <2>9. CASE Operation
      BY <2>5, <2>6, <2>7, <2>8, <2>9 DEF Operation
    <2>10. CASE UNCHANGED vars
      <3>1. UNCHANGED <<store, used>> /\ now' = now
        BY <2>10 DEF vars
      <3> QED
        BY <2>1, <2>2, <3>1
    <2> QED
      BY <2>3, <2>9, <2>10, StepIsAnOperation
  <1> QED
    BY <1>1, <1>2, PTL DEF Spec

\* The three dictionaries describe the same keys, and never more than max_keys
\* of them (memory.py _delete_key, _touch_key, _evict_keys_if_needed).
THEOREM KeysTypeCorrect == Spec => []TypeOK
  <1>1. KeysInv => TypeOK
    BY DEF KeysInv
  <1> QED
    BY <1>1, KeysInvariant, PTL
-----------------------------------------------------------------------------
\* What making room costs.

DropsOldest ==
  DOMAIN values' \ DOMAIN values # {} =>
    \A d \in (DOMAIN values \ DOMAIN values') \ Expired :
      \A k \in DOMAIN values' \cap DOMAIN values \cap Others : used[d] <= used[k]

LEMMA WriteDropsOldest ==
  ASSUME KeysInv, NEW k \in Keys, NEW v \in Nat, NEW deadline \in Nat,
         NEW gone \in SUBSET {k}, NEW kept \in KeptForWrite(k, gone),
         Write(k, v, deadline, kept)
  PROVE  DropsOldest
  <1>1. kept \in SUBSET DOMAIN values
    BY KeptMakesRoom
  <1>2. DOMAIN values' = kept \cup {k}
    <2>1. DOMAIN values \cap kept = kept
      BY <1>1
    <2> QED
      BY <2>1 DEF Write, With, Keeping, Restrict
  <1>3. SUFFICES ASSUME k \notin DOMAIN values,
                        NEW d \in (DOMAIN values \ kept) \ Expired,
                        NEW e \in kept \cap Others
                 PROVE  used[d] <= used[e]
    BY <1>1, <1>2 DEF DropsOldest
  <1>4. DOMAIN values \ gone = DOMAIN values
    BY <1>3
  <1>5. MakesRoom(k, gone, kept)
    BY WaysToMakeRoom
  <1>6. PICK cut \in SUBSET (DOMAIN values \cap Others) :
          /\ kept = DOMAIN values \ cut
          /\ \A c \in cut, f \in (DOMAIN values \cap Others) \ cut :
               last_access[c] <= last_access[f]
    BY <1>3, <1>4, <1>5 DEF MakesRoom
  <1>7. last_access[d] <= last_access[e]
    BY <1>1, <1>3, <1>6
  <1> QED
    BY <1>1, <1>3, <1>7 DEF KeysInv

\* A write that makes room drops no live key of the application while it keeps
\* one that was read or written less recently (memory.py _evict_keys_if_needed).
THEOREM OldestKeysGoFirst == Spec => DropsLeastRecentlyUsed
  <1>1. KeysInv /\ [Next]_vars => [DropsOldest]_vars
    <2> SUFFICES ASSUME KeysInv, Next
                 PROVE  DropsOldest
      OBVIOUS
    <2>1. DOMAIN values' \subseteq DOMAIN values => DropsOldest
      BY DEF DropsOldest
    <2>2. CASE Tick \/ Unavailable
      <3>1. UNCHANGED values
        BY <2>2 DEF Tick, Unavailable, store
      <3> QED
        BY <2>1, <3>1
    <2>3. ASSUME NEW k \in Keys, get(k) \/ delete(k)
          PROVE  DropsOldest
      <3>1. CASE DeleteKeys({k})
        <4>1. DOMAIN values' = DOMAIN values \ {k}
          BY <3>1, AfterDelete
        <4> QED
          BY <2>1, <4>1
      <3>2. CASE UNCHANGED values
        BY <2>1, <3>2
      <3> QED
        BY <2>3, <3>1, <3>2 DEF get, delete
    <2>4. ASSUME NEW k \in Keys, NEW v \in 1 .. MaxValue, NEW expire \in Lifetimes \cup {None},
                 set(k, v, expire)
          PROVE  DropsOldest
      <3>1. v \in Nat /\ Deadline(expire) \in Nat /\ {} \in SUBSET {k}
        BY DeadlineType DEF KeysInv
      <3> QED
        BY <2>2, <2>4, <3>1, WriteDropsOldest DEF set
    <2>5. ASSUME NEW k \in Keys, NEW expire \in Lifetimes \cup {None}, incr(k, expire)
          PROVE  DropsOldest
      <3>1. {k} \cap Expired \in SUBSET {k}
        OBVIOUS
      <3> QED
        BY <2>2, <2>5, <3>1, IncrUnfolds, WriteDropsOldest
    <2>6. CASE Operation
      BY <2>3, <2>4, <2>5, <2>6 DEF Operation
    <2> QED
      BY <2>2, <2>6, StepIsAnOperation
  <1> QED
    BY <1>1, KeysInvariant, PTL DEF Spec, DropsLeastRecentlyUsed, DropsOldest
-----------------------------------------------------------------------------
\* Room is always found among the keys that may be evicted.

LEMMA LeastNatural ==
  ASSUME NEW T \in SUBSET Nat, T # {}
  PROVE  \E n \in T : \A m \in T : n <= m
  <1>1. PICK n \in T : \A m \in T : <<m, n>> \notin OpToRel(<, Nat)
    BY NatLessThanWellFounded, WFMin
  <1>2. ASSUME NEW m \in T
        PROVE  n <= m
    <2>1. ~(m < n)
      BY <1>1 DEF OpToRel
    <2> QED
      BY <2>1
  <1> QED
    BY <1>2

\* Of a finite set of keys some are the n accessed longest ago.
LEMMA OldestExist ==
  ASSUME TypeOK, NEW K \in SUBSET DOMAIN values, IsFiniteSet(K), NEW n \in Nat
  PROVE  OldestOf(K, n) # {}
  <1> DEFINE Cuts(m) == {cut \in SUBSET K :
                           /\ Cardinality(cut) = m
                           /\ \A c \in cut, d \in K \ cut : last_access[c] <= last_access[d]}
             Missing == {m \in 0 .. Cardinality(K) : Cuts(m) = {}}
  <1>1. Cardinality(K) \in Nat
    BY FS_CardinalityType
  <1>2. \A d \in K : last_access[d] \in Nat
    BY DEF TypeOK
  <1>3. Missing = {}
    <2>1. SUFFICES ASSUME Missing # {}
                   PROVE  FALSE
      OBVIOUS
    <2>2. Missing \in SUBSET Nat
      BY <1>1
    <2>3. PICK m \in Missing : \A l \in Missing : m <= l
      <3> HIDE DEF Missing
      <3> QED
        BY <2>1, <2>2, LeastNatural
    <2>4. m \in Nat /\ m <= Cardinality(K) /\ Cuts(m) = {}
      BY <1>1
    <2>5. m # 0
      <3>1. {} \in Cuts(0)
        BY FS_EmptySet
      <3> QED
        BY <2>4, <3>1
    <2>6. m - 1 \in 0 .. Cardinality(K) /\ m - 1 \notin Missing
      <3>1. m - 1 \in 0 .. Cardinality(K) /\ ~(m <= m - 1)
        BY <1>1, <2>4, <2>5
      <3> QED
        BY <2>3, <3>1
    <2>7. PICK cut \in SUBSET K :
            /\ Cardinality(cut) = m - 1
            /\ \A c \in cut, d \in K \ cut : last_access[c] <= last_access[d]
      BY <2>6
    <2>8. K \ cut # {}
      <3>1. cut # K
        BY <1>1, <2>4, <2>7
      <3> QED
        BY <3>1
    <2>9. PICK e \in K \ cut : \A d \in K \ cut : last_access[e] <= last_access[d]
      <3> DEFINE Accesses == {last_access[d] : d \in K \ cut}
      <3>1. Accesses \in SUBSET Nat /\ Accesses # {}
        BY <1>2, <2>8
      <3>2. PICK t \in Accesses : \A u \in Accesses : t <= u
        <4> HIDE DEF Accesses
        <4> QED
          BY <3>1, LeastNatural
      <3> QED
        BY <3>2
    <2>10. Cardinality(cut \cup {e}) = m
      <3>1. IsFiniteSet(cut) /\ e \notin cut
        BY FS_Subset
      <3>2. Cardinality(cut \cup {e}) = (m - 1) + 1
        BY <2>7, <3>1, FS_AddElement
      <3> QED
        BY <2>4, <3>2
    <2>11. cut \cup {e} \in Cuts(m)
      BY <2>7, <2>9, <2>10
    <2> QED
      BY <2>4, <2>11
  <1>4. \A m \in 0 .. Cardinality(K) : Cuts(m) # {}
    BY <1>3
  <1> DEFINE size == IF Cardinality(K) < n THEN Cardinality(K) ELSE n
  <1>5. size \in 0 .. Cardinality(K)
    BY <1>1
  <1>6. OldestOf(K, n) = Cuts(size)
    BY DEF OldestOf
  <1> QED
    BY <1>4, <1>5, <1>6
-----------------------------------------------------------------------------
\* The store implements KeyPromise.

Alive == DOMAIN values \ Expired

LEMMA SameCardinality ==
  ASSUME NEW S
  PROVE  P!Cardinality(S) = Cardinality(S)
  BY DEF P!Cardinality, Cardinality

LEMMA AliveIsLive ==
  ASSUME KeysInv
  PROVE  /\ P!Live = Alive
         /\ IsFiniteSet(Alive) /\ Cardinality(Alive) \in Nat /\ Cardinality(Alive) <= MaxKeys
         /\ Alive # DOMAIN values => Cardinality(Alive) # MaxKeys
  <1>1. \A a, b : <<a, b>> # <<>>
    OBVIOUS
  <1>2. \A k \in Keys : Seen[k] # <<>> <=> k \in Alive
    BY <1>1 DEF Seen, Alive
  <1>3. P!Live = {k \in Keys : Seen[k] # <<>>}
    BY DEF P!Live, P!Absent
  <1>4. Alive \subseteq Keys
    BY DEF Alive, KeysInv, TypeOK
  <1>5. /\ IsFiniteSet(Alive) /\ Cardinality(Alive) \in Nat
        /\ Cardinality(DOMAIN values) \in Nat /\ Cardinality(DOMAIN values) <= MaxKeys
        /\ Cardinality(Alive) <= Cardinality(DOMAIN values)
        /\ Cardinality(Alive) = Cardinality(DOMAIN values) => Alive = DOMAIN values
    BY FS_Subset, FS_CardinalityType DEF Alive, KeysInv, TypeOK
  <1> QED
    BY <1>2, <1>3, <1>4, <1>5, KeysAssumption

\* A write may cost only what the promise allows it to.
LEMMA WhatAWriteDrops ==
  ASSUME KeysInv, NEW k \in Keys, NEW gone \in SUBSET {k}, gone \subseteq Expired,
         NEW kept \in KeptForWrite(k, gone)
  PROVE  Alive \ (kept \cup {k}) \in P!MayDrop(k)
  <1> DEFINE present == DOMAIN values \ gone
  <1>1. MakesRoom(k, gone, kept)
    BY WaysToMakeRoom
  <1>2. /\ P!Live = Alive
        /\ IsFiniteSet(Alive) /\ Cardinality(Alive) \in Nat /\ Cardinality(Alive) <= MaxKeys
        /\ Alive # DOMAIN values => Cardinality(Alive) # MaxKeys
    BY AliveIsLive
  <1>3. P!MayDrop(k) =
          IF k \notin Alive /\ Cardinality(Alive) = MaxKeys
          THEN (SUBSET (Alive \ Controls)) \ {{}} ELSE {{}}
    BY <1>2, SameCardinality DEF P!MayDrop
  <1>4. Alive \subseteq present /\ Alive \subseteq DOMAIN values
    BY DEF Alive
  <1>5. CASE kept = present /\ k \in present
    BY <1>2, <1>3, <1>4, <1>5 DEF Alive
  <1>6. CASE kept = present /\ Cardinality(present) < MaxKeys
    <2>1. IsFiniteSet(present)
      BY FS_Subset DEF KeysInv
    <2>2. Cardinality(Alive) <= Cardinality(present) /\ Cardinality(present) \in Nat
      BY <1>4, <2>1, FS_Subset, FS_CardinalityType
    <2> HIDE DEF present
    <2>3. Cardinality(Alive) # MaxKeys
      BY <1>2, <1>6, <2>2, KeysAssumption
    <2> QED
      BY <1>3, <1>4, <1>6, <2>3
  <1>7. CASE kept = present \ Expired /\ present \cap Expired # {}
    <2>1. Alive # DOMAIN values /\ Alive \subseteq kept
      BY <1>4, <1>7 DEF Alive
    <2> QED
      BY <1>2, <1>3, <2>1
  <1>8. CASE /\ k \notin present /\ Cardinality(present) = MaxKeys
             /\ present = DOMAIN values /\ present \cap Expired = {}
             /\ \E cut \in SUBSET (present \cap Others) : cut # {} /\ kept = present \ cut
    <2>1. Alive = present
      BY <1>8 DEF Alive
    <2>2. PICK cut \in SUBSET (present \cap Others) : cut # {} /\ kept = present \ cut
      BY <1>8
    <2>3. Alive \ (kept \cup {k}) = cut
      BY <1>8, <2>1, <2>2
    <2>4. cut \in SUBSET (Alive \ Controls)
      BY <2>1, <2>2, SortsOfKeys
    <2> QED
      BY <1>3, <1>8, <2>1, <2>2, <2>3, <2>4
  <1> QED
    BY <1>1, <1>5, <1>6, <1>7, <1>8 DEF MakesRoom


\* A write is refused only where the promise allows it.
LEMMA WhatIsRefused ==
  ASSUME KeysInv, NEW k \in Keys, NEW gone \in SUBSET {k}, gone \subseteq Expired,
         KeptForWrite(k, gone) = {}
  PROVE  k \notin Alive /\ Alive \subseteq Controls /\ Cardinality(Alive) = MaxKeys
  <1> DEFINE present == DOMAIN values \ gone
             evictable == present \cap Others
             n == Cardinality(present) - TargetSize
  <1>1. /\ IsFiniteSet(present) /\ IsFiniteSet(evictable)
        /\ Cardinality(present) \in Nat /\ Cardinality(DOMAIN values) \in Nat
        /\ Cardinality(present) <= Cardinality(DOMAIN values)
        /\ Cardinality(present) = Cardinality(DOMAIN values) => present = DOMAIN values
        /\ Cardinality(DOMAIN values) <= MaxKeys
    BY FS_Subset, FS_CardinalityType DEF KeysInv, TypeOK
  <1>2. /\ k \notin present /\ ~(Cardinality(present) < MaxKeys) /\ present \cap Expired = {}
        /\ evictable = {} \/ {present \ cut : cut \in OldestOf(evictable, n)} = {}
    BY DEF KeptForWrite
  <1>3. Cardinality(present) = MaxKeys /\ present = DOMAIN values
    BY <1>1, <1>2, KeysAssumption
  <1>4. evictable = {}
    <2>1. n \in Nat
      BY <1>3, TargetIsBelowMax, KeysAssumption
    <2> HIDE DEF n
    <2>2. TypeOK /\ evictable \in SUBSET DOMAIN values
      BY DEF KeysInv
    <2> HIDE DEF evictable
    <2>3. OldestOf(evictable, n) # {}
      BY <1>1, <2>1, <2>2, OldestExist
    <2>4. {present \ cut : cut \in OldestOf(evictable, n)} # {}
      BY <2>3
    <2> QED
      BY <1>2, <2>4
  <1>5. Alive = present
    BY <1>2, <1>3 DEF Alive
  <1>6. present \subseteq Keys
    BY DEF KeysInv, TypeOK
  <1> QED
    BY <1>2, <1>3, <1>4, <1>5, <1>6, SortsOfKeys

\* A write shows what was written, and hides what it dropped and nothing else.
LEMMA SeenAfterWrite ==
  ASSUME KeysInv, NEW k \in Keys, NEW v \in Nat, NEW deadline \in Nat,
         deadline = None \/ deadline > now,
         NEW gone \in SUBSET {k}, NEW kept \in KeptForWrite(k, gone),
         Write(k, v, deadline, kept), now' = now
  PROVE  Seen' = [d \in Keys |->
                   IF d = k THEN <<v, deadline>>
                   ELSE IF d \in Alive \ (kept \cup {k}) THEN <<>> ELSE Seen[d]]
  <1>1. kept \in SUBSET DOMAIN values
    BY KeptMakesRoom
  <1>2. /\ DOMAIN values' = kept \cup {k} /\ DOMAIN last_access' = kept \cup {k}
        /\ values' = [d \in kept \cup {k} |-> IF d = k THEN v ELSE values[d]]
        /\ last_access' = [d \in kept \cup {k} |-> IF d = k THEN now ELSE last_access[d]]
        /\ DOMAIN expires' = (DOMAIN expires \cap (kept \ {k})) \cup
                               IF deadline = None THEN {} ELSE {k}
        /\ expires' = [d \in DOMAIN expires' |-> IF d = k THEN deadline ELSE expires[d]]
        /\ used' = [used EXCEPT ![k] = now]
    BY <1>1, AfterWrite
  <1>3. Expired' = {d \in DOMAIN expires' : expires'[d] <= now}
    BY DEF Expired
  <1>4. k \in DOMAIN values' \ Expired'
        /\ <<values'[k], IF k \in DOMAIN expires' THEN expires'[k] ELSE None>> = <<v, deadline>>
    <2>1. now \in Nat
      BY KeysAssumption DEF KeysInv, TypeOK
    <2>2. values'[k] = v /\ k \in DOMAIN values'
      BY <1>2
    <2>3. CASE deadline = None
      <3>1. k \notin DOMAIN expires'
        BY <1>2, <2>3
      <3> QED
        BY <1>3, <2>2, <2>3, <3>1
    <2>4. CASE deadline # None
      <3>1. k \in DOMAIN expires' /\ expires'[k] = deadline
        BY <1>2, <2>4
      <3>2. ~(deadline <= now)
        BY <2>1, <2>4
      <3> QED
        BY <1>3, <2>2, <3>1, <3>2
    <2> QED
      BY <2>3, <2>4
  <1>5. ASSUME NEW d \in kept, d # k
        PROVE  /\ d \in DOMAIN values' \ Expired' <=> d \in DOMAIN values \ Expired
               /\ d \in DOMAIN expires' <=> d \in DOMAIN expires
               /\ values'[d] = values[d]
               /\ d \in DOMAIN expires => expires'[d] = expires[d]
    <2>1. d \in DOMAIN values' /\ d \in DOMAIN values /\ values'[d] = values[d]
      BY <1>1, <1>2, <1>5
    <2>2. d \in DOMAIN expires' <=> d \in DOMAIN expires
      BY <1>2, <1>5
    <2>3. d \in DOMAIN expires => expires'[d] = expires[d]
      BY <1>2, <1>5, <2>2
    <2> QED
      BY <1>3, <2>1, <2>2, <2>3 DEF Expired
  <1>6. ASSUME NEW d \in Keys, d # k, d \notin kept
        PROVE  d \notin DOMAIN values'
    BY <1>2, <1>6
  <1>7. ASSUME NEW d \in Keys
        PROVE  Seen'[d] = IF d = k THEN <<v, deadline>>
                          ELSE IF d \in Alive \ (kept \cup {k}) THEN <<>> ELSE Seen[d]
    <2>1. CASE d = k
      BY <1>4, <2>1 DEF Seen
    <2>2. CASE d # k /\ d \in kept
      BY <1>5, <2>2 DEF Seen, Alive
    <2>3. CASE d # k /\ d \notin kept
      BY <1>6, <2>3 DEF Seen, Alive
    <2> QED
      BY <2>1, <2>2, <2>3
  <1>8. Seen' = [d \in Keys |-> Seen'[d]]
    BY DEF Seen
  <1> QED
    BY <1>7, <1>8

\* Deleting a key hides it and nothing else.
LEMMA SeenAfterDelete ==
  ASSUME KeysInv, NEW k \in Keys, DeleteKeys({k}), now' = now
  PROVE  Seen' = [Seen EXCEPT ![k] = <<>>]
  <1>1. /\ values' = [d \in DOMAIN values \ {k} |-> values[d]]
        /\ expires' = [d \in DOMAIN expires \ {k} |-> expires[d]]
    BY AfterDelete
  <1>2. Expired' = {d \in DOMAIN expires' : expires'[d] <= now}
    BY DEF Expired
  <1>3. ASSUME NEW d \in Keys
        PROVE  Seen'[d] = IF d = k THEN <<>> ELSE Seen[d]
    <2>1. CASE d = k
      BY <1>1, <2>1 DEF Seen
    <2>2. CASE d # k
      <3>1. /\ d \in DOMAIN values' <=> d \in DOMAIN values
            /\ d \in DOMAIN expires' <=> d \in DOMAIN expires
            /\ d \in DOMAIN values => values'[d] = values[d]
            /\ d \in DOMAIN expires => expires'[d] = expires[d]
        BY <1>1, <2>2
      <3>2. d \in Expired' <=> d \in Expired
        BY <1>2, <3>1 DEF Expired
      <3> QED
        BY <2>2, <3>1, <3>2 DEF Seen
    <2> QED
      BY <2>1, <2>2
  <1>4. Seen' = [d \in Keys |-> Seen'[d]] /\ Seen \in [Keys -> {Seen[d] : d \in Keys}]
    BY DEF Seen
  <1> QED
    BY <1>3, <1>4

\* Time hides what reaches its deadline.
LEMMA TickPasses ==
  ASSUME KeysInv, Tick
  PROVE  P!Pass
  <1>1. /\ now \in Nat /\ now' = now + 1
        /\ UNCHANGED <<values, expires, answer>>
    BY KeysAssumption DEF Tick, store, KeysInv, TypeOK
  <1>2. P!Live = Alive
    BY AliveIsLive
  <1>3. Expired' = {d \in DOMAIN expires : expires[d] <= now'}
    BY <1>1 DEF Expired
  <1>4. ASSUME NEW k \in Keys
        PROVE  Seen'[k] = IF k \in Alive /\ Seen[k][2] # None /\ Seen[k][2] <= now'
                          THEN <<>> ELSE Seen[k]
    <2>1. CASE k \notin DOMAIN values
      BY <1>1, <2>1 DEF Seen, Alive
    <2>2. CASE k \in DOMAIN values /\ k \notin DOMAIN expires
      <3>1. k \in Alive /\ Seen[k] = <<values[k], None>>
        BY <2>2 DEF Seen, Alive, Expired
      <3>2. Seen'[k] = <<values[k], None>>
        BY <1>1, <1>3, <2>2 DEF Seen
      <3> QED
        BY <3>1, <3>2
    <2>3. CASE k \in DOMAIN values /\ k \in DOMAIN expires
      <3>1. expires[k] \in Nat /\ expires[k] # None
        BY <2>3 DEF KeysInv, TypeOK, None
      <3>2. CASE expires[k] <= now
        <4>1. k \in Expired /\ k \in Expired'
          BY <1>1, <1>3, <2>3, <3>1, <3>2 DEF Expired
        <4> QED
          BY <4>1 DEF Seen, Alive
      <3>3. CASE ~(expires[k] <= now)
        <4>1. k \in Alive /\ Seen[k] = <<values[k], expires[k]>>
          BY <2>3, <3>3 DEF Seen, Alive, Expired
        <4>2. Seen'[k] = IF expires[k] <= now' THEN <<>> ELSE <<values[k], expires[k]>>
          BY <1>1, <1>3, <2>3 DEF Seen
        <4> QED
          BY <3>1, <4>1, <4>2
      <3> QED
        BY <3>2, <3>3
    <2> QED
      BY <2>1, <2>2, <2>3
  <1>5. Seen' = [k \in Keys |-> Seen'[k]]
    BY DEF Seen
  <1>6. Seen' = [k \in Keys |-> IF k \in Alive /\ Seen[k][2] # None /\ Seen[k][2] <= now'
                                THEN <<>> ELSE Seen[k]]
    BY <1>4, <1>5
  <1>7. now' > now
    BY <1>1
  <1> QED
    BY <1>1, <1>2, <1>6, <1>7 DEF P!Pass, P!Deadline, P!Never, P!Absent, None

LEMMA GetIsAllowed ==
  ASSUME KeysInv, NEW k \in Keys, get(k)
  PROVE  P!Get(k)
  <1>1. P!Live = Alive
    BY AliveIsLive
  <1>2. now' = now
    BY DEF get
  <1>3. answer' = IF k \in Alive THEN <<"value", Seen[k][1]>> ELSE <<"nothing">>
    <2>1. k \in Alive => Seen[k][1] = values[k]
      BY DEF Alive, Seen
    <2> QED
      BY <2>1 DEF get, Alive
  <1>4. Seen' = Seen
    <2>1. CASE k \in Expired
      <3>1. Seen' = [Seen EXCEPT ![k] = <<>>]
        BY <1>2, <2>1, SeenAfterDelete DEF get
      <3>2. Seen[k] = <<>>
        BY <2>1 DEF Seen
      <3> QED
        BY <3>1, <3>2 DEF Seen
    <2>2. CASE k \notin Expired
      <3>1. UNCHANGED <<values, expires>>
        BY <2>2 DEF get
      <3>2. Expired' = Expired
        BY <1>2, <3>1 DEF Expired
      <3> QED
        BY <3>1, <3>2 DEF Seen
    <2> QED
      BY <2>1, <2>2
  <1> QED
    BY <1>1, <1>2, <1>3, <1>4 DEF P!Get, P!Value

LEMMA DeleteIsAllowed ==
  ASSUME KeysInv, NEW k \in Keys, delete(k)
  PROVE  P!Delete(k)
  BY SeenAfterDelete DEF delete, P!Delete, P!Absent

LEMMA UnavailableIsAllowed ==
  ASSUME KeysInv, NEW k \in Keys, NEW gone \in SUBSET {k}, gone \subseteq Expired,
         KeptForWrite(k, gone) = {}, Unavailable
  PROVE  P!Refuse(k)
  <1>1. UNCHANGED <<now, values, expires>> /\ answer' = <<"unavailable">>
    BY DEF Unavailable, store
  <1>2. Seen' = Seen
    <2>1. Expired' = Expired
      BY <1>1 DEF Expired
    <2> QED
      BY <1>1, <2>1 DEF Seen
  <1>3. k \notin Alive /\ Alive \subseteq Controls /\ Cardinality(Alive) = MaxKeys
    BY WhatIsRefused
  <1> QED
    BY <1>1, <1>2, <1>3, AliveIsLive, SameCardinality DEF P!Refuse

LEMMA SetIsAllowed ==
  ASSUME KeysInv, NEW k \in Keys, NEW v \in 1 .. MaxValue, NEW expire \in Lifetimes \cup {None},
         set(k, v, expire)
  PROVE  P!Set(k, v, expire) \/ P!Refuse(k)
  <1>1. CASE \E kept \in KeptForWrite(k, {}) :
               Write(k, v, Deadline(expire), kept) /\ answer' = <<"done">> /\ now' = now
    <2>1. PICK kept \in KeptForWrite(k, {}) :
            Write(k, v, Deadline(expire), kept) /\ answer' = <<"done">> /\ now' = now
      BY <1>1
    <2>2. /\ v \in Nat /\ Deadline(expire) \in Nat
          /\ Deadline(expire) = None \/ Deadline(expire) > now
      BY DeadlineType DEF KeysInv
    <2>3. {} \in SUBSET {k} /\ {} \subseteq Expired
      OBVIOUS
    <2> DEFINE dropped == Alive \ (kept \cup {k})
    <2>4. dropped \in P!MayDrop(k)
      BY <2>3, WhatAWriteDrops
    <2>5. Seen' = [d \in Keys |-> IF d = k THEN <<v, Deadline(expire)>>
                                  ELSE IF d \in dropped THEN <<>> ELSE Seen[d]]
      BY <2>1, <2>2, <2>3, SeenAfterWrite
    <2>6. Deadline(expire) = P!DeadlineOf(expire)
      BY DEF Deadline, P!DeadlineOf, P!Never, None
    <2> HIDE DEF dropped
    <2>7. P!Wrote(k, P!Entry(v, P!DeadlineOf(expire)), dropped)
      BY <2>5, <2>6 DEF P!Wrote, P!Entry, P!Absent
    <2> QED
      BY <2>1, <2>4, <2>7 DEF P!Set
  <1>2. CASE KeptForWrite(k, {}) = {} /\ Unavailable
    <2>1. {} \in SUBSET {k} /\ {} \subseteq Expired
      OBVIOUS
    <2> QED
      BY <1>2, <2>1, UnavailableIsAllowed
  <1> QED
    BY <1>1, <1>2 DEF set

LEMMA IncrIsAllowed ==
  ASSUME KeysInv, NEW k \in Keys, NEW expire \in Lifetimes \cup {None}, incr(k, expire)
  PROVE  P!Incr(k, expire) \/ P!Refuse(k)
  <1>1. {k} \cap Expired \in SUBSET {k} /\ {k} \cap Expired \subseteq Expired
    OBVIOUS
  <1>2. Counted(k) \in Nat /\ CountedUntil(k, expire) \in Nat
    BY IncrUnfolds
  <1>3. CASE \E kept \in KeptForWrite(k, {k} \cap Expired) :
               /\ Write(k, Counted(k), CountedUntil(k, expire), kept)
               /\ answer' = <<"value", Counted(k)>>
               /\ now' = now
    <2>1. PICK kept \in KeptForWrite(k, {k} \cap Expired) :
            /\ Write(k, Counted(k), CountedUntil(k, expire), kept)
            /\ answer' = <<"value", Counted(k)>>
            /\ now' = now
      BY <1>3
    <2> DEFINE dropped == Alive \ (kept \cup {k})
    <2>2. dropped \in P!MayDrop(k)
      BY <1>1, WhatAWriteDrops
    <2>3. CountedUntil(k, expire) = None \/ CountedUntil(k, expire) > now
      <3>1. now \in Nat /\ (k \in DOMAIN expires => expires[k] \in Nat)
        BY KeysAssumption DEF KeysInv, TypeOK
      <3>2. k \in DOMAIN expires \ Expired => expires[k] > now
        BY <3>1 DEF Expired
      <3>3. expire # None => now + expire > now
        BY <3>1, KeysAssumption DEF None
      <3> QED
        BY <3>2, <3>3 DEF CountedUntil
    <2>4. Seen' = [d \in Keys |-> IF d = k THEN <<Counted(k), CountedUntil(k, expire)>>
                                  ELSE IF d \in dropped THEN <<>> ELSE Seen[d]]
      BY <1>1, <1>2, <2>1, <2>3, SeenAfterWrite
    <2>5. k \in Alive => /\ Seen[k][1] = values[k]
                         /\ Seen[k][2] = IF k \in DOMAIN expires THEN expires[k] ELSE None
      BY DEF Seen, Alive
    <2>6. P!Live = Alive
      BY AliveIsLive
    <2>7. Counted(k) = (IF k \in P!Live THEN P!Value(k) ELSE 0) + 1
      BY <2>5, <2>6 DEF Counted, Alive, P!Value
    <2>8. CountedUntil(k, expire) =
            IF expire = P!Never /\ k \in P!Live THEN P!Deadline(k) ELSE P!DeadlineOf(expire)
      <3>1. k \in Alive /\ k \in DOMAIN expires <=> k \in DOMAIN expires \ Expired
        BY DEF Alive, KeysInv, TypeOK
      <3>2. CASE expire # None
        BY <3>2 DEF CountedUntil, P!DeadlineOf, P!Never, None
      <3>3. CASE expire = None /\ k \in Alive
        BY <2>5, <2>6, <3>1, <3>3 DEF CountedUntil, P!Deadline, P!Never, None
      <3>4. CASE expire = None /\ k \notin Alive
        BY <2>6, <3>1, <3>4 DEF CountedUntil, P!DeadlineOf, P!Never, None
      <3> QED
        BY <3>2, <3>3, <3>4
    <2> HIDE DEF dropped
    <2> DEFINE v == Counted(k)
               deadline == CountedUntil(k, expire)
    <2>9. P!Wrote(k, P!Entry(v, deadline), dropped)
      BY <2>4 DEF P!Wrote, P!Entry, P!Absent
    <2>10. /\ v = (IF k \in P!Live THEN P!Value(k) ELSE 0) + 1
           /\ deadline = IF expire = P!Never /\ k \in P!Live THEN P!Deadline(k)
                         ELSE P!DeadlineOf(expire)
           /\ answer' = <<"value", v>>
      BY <2>1, <2>7, <2>8
    <2> HIDE DEF v, deadline
    <2> QED
      BY <2>1, <2>2, <2>9, <2>10 DEF P!Incr
  <1>4. CASE KeptForWrite(k, {k} \cap Expired) = {} /\ Unavailable
    BY <1>1, <1>4, UnavailableIsAllowed
  <1> QED
    BY <1>3, <1>4, IncrUnfolds

\* The storage implements KeyPromise: a value can be read from the write to its
\* deadline unless a full store gave it up, the IP lists are never given up, and
\* a write is refused only when they fill the store (memory.py, ip.py).
THEOREM StoreKeepsPromise == Spec => KeepsPromise
  <1>1. Init => P!Init
    <2> SUFFICES ASSUME Init
                 PROVE  P!Init
      OBVIOUS
    <2>1. DOMAIN values = {}
      BY DEF Init, Empty
    <2>2. Seen = [k \in Keys |-> <<>>]
      BY <2>1 DEF Seen
    <2> QED
      BY <2>2 DEF Init, P!Init, P!Absent
  <1>2. KeysInv /\ [Next]_vars => [P!Next]_(P!promiseVars)
    <2> SUFFICES ASSUME KeysInv, [Next]_vars
                 PROVE  [P!Next]_(P!promiseVars)
      OBVIOUS
    <2>1. CASE Tick
      BY <2>1, TickPasses DEF P!Next
    <2>2. ASSUME NEW k \in Keys, get(k) \/ delete(k)
          PROVE  P!Next
      BY <2>2, GetIsAllowed, DeleteIsAllowed DEF P!Next
    <2>3. ASSUME NEW k \in Keys, NEW v \in 1 .. MaxValue, NEW expire \in Lifetimes \cup {None},
                 set(k, v, expire)
          PROVE  P!Next
      BY <2>3, SetIsAllowed DEF P!Next, P!Never, None
    <2>4. ASSUME NEW k \in Keys, NEW expire \in Lifetimes \cup {None}, incr(k, expire)
          PROVE  P!Next
      BY <2>4, IncrIsAllowed DEF P!Next, P!Never, None
    <2>5. CASE Operation
      BY <2>2, <2>3, <2>4, <2>5 DEF Operation
    <2>6. CASE UNCHANGED vars
      <3>1. UNCHANGED <<now, values, expires, answer>>
        BY <2>6 DEF vars, store
      <3>2. Expired' = Expired
        BY <3>1 DEF Expired
      <3>3. Seen' = Seen
        BY <3>1, <3>2 DEF Seen
      <3> QED
        BY <3>1, <3>3 DEF P!promiseVars
    <2> QED
      BY <2>1, <2>5, <2>6, StepIsAnOperation
  <1> QED
    BY <1>1, <1>2, KeysInvariant, PTL DEF Spec, KeepsPromise, P!Spec
=============================================================================
