----------------------------- MODULE KeyPromise -----------------------------
(***************************************************************************)
(* What a bounded store of expiring values promises its callers: a value   *)
(* is there from the write to its deadline, no longer and no less, and     *)
(* only a write to a full store may cost an unprotected key its value.     *)
(* Protected keys (the IP lists) are never given up; when they fill the    *)
(* store, a write of another key is refused.                               *)
(***************************************************************************)
EXTENDS Integers, FiniteSets

CONSTANTS
  Keys,
  Protected,  \* the keys that are never given up
  Capacity,
  Values,     \* what is written
  Lifetimes   \* and for how long, if not for ever

VARIABLES
  clock,
  entries,  \* per key, Absent or a value and its deadline
  reply     \* what the last call returned

promiseVars == <<clock, entries, reply>>

Absent == <<>>
Never == 0
Entry(v, deadline) == <<v, deadline>>
Value(k) == entries[k][1]
Deadline(k) == entries[k][2]

\* When a value written now with a lifetime expires.
DeadlineOf(ttl) == IF ttl = Never THEN Never ELSE clock + ttl

Live == {k \in Keys : entries[k] # Absent}

\* The keys that a write of k may cost their values.
MayDrop(k) ==
  IF k \notin Live /\ Cardinality(Live) = Capacity THEN (SUBSET (Live \ Protected)) \ {{}}
  ELSE {{}}

Wrote(k, entry, dropped) ==
  entries' = [d \in Keys |-> IF d = k THEN entry
                             ELSE IF d \in dropped THEN Absent ELSE entries[d]]

Init ==
  /\ clock = 0
  /\ entries = [k \in Keys |-> Absent]
  /\ reply = <<>>

Pass ==
  /\ clock' > clock
  /\ entries' = [k \in Keys |->
       IF k \in Live /\ Deadline(k) # Never /\ Deadline(k) <= clock' THEN Absent ELSE entries[k]]
  /\ UNCHANGED reply

Get(k) ==
  /\ reply' = IF k \in Live THEN <<"value", Value(k)>> ELSE <<"nothing">>
  /\ UNCHANGED <<clock, entries>>

Set(k, v, ttl) ==
  /\ \E dropped \in MayDrop(k) : Wrote(k, Entry(v, DeadlineOf(ttl)), dropped)
  /\ reply' = <<"done">>
  /\ UNCHANGED clock

\* Counting keeps the deadline of a live value unless a lifetime is given.
Incr(k, ttl) ==
  LET v == (IF k \in Live THEN Value(k) ELSE 0) + 1
      deadline == IF ttl = Never /\ k \in Live THEN Deadline(k) ELSE DeadlineOf(ttl)
  IN  /\ \E dropped \in MayDrop(k) : Wrote(k, Entry(v, deadline), dropped)
      /\ reply' = <<"value", v>>
      /\ UNCHANGED clock

Delete(k) ==
  /\ entries' = [entries EXCEPT ![k] = Absent]
  /\ reply' = <<"done">>
  /\ UNCHANGED clock

Refuse(k) ==
  /\ k \notin Live
  /\ Live \subseteq Protected
  /\ Cardinality(Live) = Capacity
  /\ reply' = <<"unavailable">>
  /\ UNCHANGED <<clock, entries>>

Next ==
  \/ Pass
  \/ \E k \in Keys : Get(k) \/ Delete(k) \/ Refuse(k)
  \/ \E k \in Keys, v \in Values, ttl \in Lifetimes \cup {Never} : Set(k, v, ttl)
  \/ \E k \in Keys, ttl \in Lifetimes \cup {Never} : Incr(k, ttl)

Spec == Init /\ [][Next]_promiseVars
=============================================================================
