----------------------------- MODULE MemoryKeys ------------------------------
(***************************************************************************)
(* The key/value side of InMemoryStorage, and the IP lists that IPManager  *)
(* keeps in it.  Every operation holds the storage's RLock throughout, so  *)
(* each is one action.                                                     *)
(*                                                                         *)
(* Three dictionaries describe a key: its value, its deadline if it has    *)
(* one, and its last access.  An expired key stays until an operation      *)
(* meets it, and the store makes room by dropping the keys not accessed    *)
(* for longest, except those of the IP lists.                              *)
(***************************************************************************)
EXTENDS Integers, FiniteSets, Functions

CONSTANTS
  IPs,         \* addresses, normalised
  OtherKeys,   \* the application's own keys
  MaxKeys,     \* max_keys
  EvictShare,  \* a full store drops one key in EvictShare (10 in the code)
  Lifetimes,   \* the values of expire, without None
  MaxValue,    \* bound on the values
  MaxTime      \* bound on the clock

ASSUME KeysAssumption ==
  /\ MaxKeys \in Nat \ {0} /\ EvictShare \in Nat \ {0}
  /\ Lifetimes \subseteq Nat \ {0}
  /\ MaxValue \in Nat \ {0} /\ MaxTime \in Nat

VARIABLES
  now,
  values, expires, last_access,  \* partial functions on the keys
  answer,                        \* what the last call returned
  used                           \* history: when a caller last found or wrote a key

store == <<values, expires, last_access>>
vars == <<now, store, answer, used>>

\* f"ip:block:{ip}" and f"ip:allow:{ip}"
Block(ip) == <<"block", ip>>
Allow(ip) == <<"allow", ip>>
Controls == {"block", "allow"} \X IPs
Others == {"other"} \X OtherKeys
Keys == Controls \cup Others

None == 0

Empty == [k \in {} |-> 0]

Init ==
  /\ now = 0
  /\ values = Empty /\ expires = Empty /\ last_access = Empty
  /\ answer = <<>>
  /\ used = [k \in Keys |-> 0]

Expired == {k \in DOMAIN expires : expires[k] <= now}

Keeping(f, K) == Restrict(f, DOMAIN f \cap K)
With(f, k, v) == [d \in DOMAIN f \cup {k} |-> IF d = k THEN v ELSE f[d]]
Used(k) == used' = [used EXCEPT ![k] = now]
-----------------------------------------------------------------------------
TrimBy == LET share == MaxKeys \div EvictShare IN IF share < 1 THEN 1 ELSE share
TargetSize == MaxKeys - TrimBy

\* The n keys of K accessed longest ago, or all of them.
OldestOf(K, n) ==
  {cut \in SUBSET K :
     /\ Cardinality(cut) = IF Cardinality(K) < n THEN Cardinality(K) ELSE n
     /\ \A c \in cut, d \in K \ cut : last_access[c] <= last_access[d]}

\* KeptForWrite with the IP lists up for eviction.
KeptForWriteAnyKey(k, gone) ==
  LET present == DOMAIN values \ gone
  IN  IF k \in present \/ Cardinality(present) < MaxKeys THEN {present}
      ELSE IF present \cap Expired # {} THEN {present \ Expired}
      ELSE {present \ cut : cut \in OldestOf(present, Cardinality(present) - TargetSize)}

\* The keys that remain when k is to be written and keys in gone are already
\* deleted; none of the outcomes when the store cannot make room.
\* Ties are broken by insertion order in the code and left open here.
KeptForWrite(k, gone) ==
  LET present == DOMAIN values \ gone
      evictable == present \cap Others
  IN  IF k \in present \/ Cardinality(present) < MaxKeys THEN {present}
      ELSE IF present \cap Expired # {} THEN {present \ Expired}
      ELSE IF evictable = {} THEN {}
      ELSE {present \ cut : cut \in OldestOf(evictable, Cardinality(present) - TargetSize)}

\* The store after kept survived and k was written; a deadline of None clears.
Write(k, v, deadline, kept) ==
  /\ values' = With(Keeping(values, kept), k, v)
  /\ last_access' = With(Keeping(last_access, kept), k, now)
  /\ expires' = IF deadline = None THEN Keeping(expires, kept \ {k})
                ELSE With(Keeping(expires, kept), k, deadline)
  /\ Used(k)

Unavailable ==
  /\ answer' = <<"unavailable">>
  /\ UNCHANGED <<now, store, used>>

\* A deletion that leaves the deadline behind.
DeleteKeysNotDeadlines(K) ==
  /\ values' = Keeping(values, Keys \ K)
  /\ last_access' = Keeping(last_access, Keys \ K)
  /\ UNCHANGED expires

DeleteKeys(K) ==
  /\ values' = Keeping(values, Keys \ K)
  /\ expires' = Keeping(expires, Keys \ K)
  /\ last_access' = Keeping(last_access, Keys \ K)
-----------------------------------------------------------------------------
Tick == now < MaxTime /\ now' = now + 1 /\ UNCHANGED <<store, answer, used>>

\* A get that forgets to touch what it finds.
GetUntouched(k) ==
  /\ IF k \in Expired THEN DeleteKeys({k}) ELSE UNCHANGED store
  /\ IF k \in DOMAIN values \ Expired THEN Used(k) ELSE UNCHANGED used
  /\ answer' = IF k \in DOMAIN values \ Expired THEN <<"value", values[k]>> ELSE <<"nothing">>
  /\ UNCHANGED now

get(k) ==
  LET found == k \in DOMAIN values \ Expired
  IN  /\ IF k \in Expired THEN DeleteKeys({k})
         ELSE /\ last_access' = IF found THEN [last_access EXCEPT ![k] = now] ELSE last_access
              /\ UNCHANGED <<values, expires>>
      /\ IF found THEN Used(k) ELSE UNCHANGED used
      /\ answer' = IF found THEN <<"value", values[k]>> ELSE <<"nothing">>
      /\ UNCHANGED now

Deadline(expire) == IF expire = None THEN None ELSE now + expire

set(k, v, expire) ==
  \/ \E kept \in KeptForWrite(k, {}) :
       /\ Write(k, v, Deadline(expire), kept)
       /\ answer' = <<"done">>
       /\ UNCHANGED now
  \/ KeptForWrite(k, {}) = {} /\ Unavailable

\* An expired key is gone before it is counted; a live one keeps its deadline
\* when no lifetime is given.
incr(k, expire) ==
  LET gone == {k} \cap Expired
      counted == (IF k \in DOMAIN values \ gone THEN values[k] ELSE 0) + 1
      deadline == IF expire # None THEN now + expire
                  ELSE IF k \in DOMAIN expires \ gone THEN expires[k] ELSE None
  IN  \/ \E kept \in KeptForWrite(k, gone) :
           /\ counted <= MaxValue
           /\ Write(k, counted, deadline, kept)
           /\ answer' = <<"value", counted>>
           /\ UNCHANGED now
      \/ KeptForWrite(k, gone) = {} /\ Unavailable

delete(k) ==
  /\ DeleteKeys({k})
  /\ answer' = <<"done">>
  /\ UNCHANGED <<now, used>>
-----------------------------------------------------------------------------
\* IPManager: the value of a control is of no account, only its presence is.
block_ip(ip, duration) == set(Block(ip), 1, duration)
unblock_ip(ip) == delete(Block(ip))
is_blocked(ip) == get(Block(ip))
allow_ip(ip) == set(Allow(ip), 1, None)
remove_allow(ip) == delete(Allow(ip))
is_allowed(ip) == get(Allow(ip))

Next ==
  \/ Tick
  \/ \E ip \in IPs :
       \/ \E duration \in Lifetimes \cup {None} : block_ip(ip, duration)
       \/ unblock_ip(ip)
       \/ is_blocked(ip)
       \/ allow_ip(ip)
       \/ remove_allow(ip)
       \/ is_allowed(ip)
  \/ \E k \in Others :
       \/ get(k)
       \/ \E v \in 1 .. MaxValue, expire \in Lifetimes \cup {None} : set(k, v, expire)
       \/ \E expire \in Lifetimes \cup {None} : incr(k, expire)
       \/ delete(k)

Spec == Init /\ [][Next]_vars
-----------------------------------------------------------------------------
\* The three dictionaries describe the same keys, of which there are never more
\* than max_keys (memory.py _delete_key, _touch_key, _evict_keys_if_needed).
TypeOK ==
  /\ now \in 0 .. MaxTime
  /\ DOMAIN values \subseteq Keys
  /\ Cardinality(DOMAIN values) <= MaxKeys
  /\ DOMAIN last_access = DOMAIN values
  /\ DOMAIN expires \subseteq DOMAIN values
  /\ values \in [DOMAIN values -> Nat]
  /\ expires \in [DOMAIN expires -> Nat \ {0}]
  /\ last_access \in [DOMAIN values -> 0 .. MaxTime]
  /\ used \in [Keys -> 0 .. MaxTime]

\* Making room costs the application the keys it has not read or written for
\* longest: no live key is dropped for another while one used less recently
\* stays (memory.py _evict_keys_if_needed, _touch_key).
DropsLeastRecentlyUsed ==
  [][DOMAIN values' \ DOMAIN values # {} =>
       \A d \in (DOMAIN values \ DOMAIN values') \ Expired :
         \A k \in DOMAIN values' \cap DOMAIN values \cap Others : used[d] <= used[k]]_vars

\* What a caller can find, and until when.
Seen ==
  [k \in Keys |->
    IF k \notin DOMAIN values \ Expired THEN <<>>
    ELSE <<values[k], IF k \in DOMAIN expires THEN expires[k] ELSE None>>]

\* The store keeps KeyPromise: a block lasts exactly as long as it was set for,
\* however full the store and whatever else is written, expired keys are never
\* seen, and a write fails only when live IP entries fill the store.
P == INSTANCE KeyPromise WITH
  Protected <- Controls,
  Capacity <- MaxKeys,
  Values <- 1 .. MaxValue,
  clock <- now,
  reply <- answer,
  entries <- Seen

KeepsPromise == P!Spec
=============================================================================
