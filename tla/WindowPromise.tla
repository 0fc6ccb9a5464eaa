--------------------------- MODULE WindowPromise ----------------------------
(***************************************************************************)
(* What a rate limiter promises to the clients of one counter each, with   *)
(* no mention of how the hits are stored.                                  *)
(*                                                                         *)
(* A client is granted a request only if the last Limit grants do not all  *)
(* fall in the window, and refused only if the last Limit arrivals, grants *)
(* and refusals alike, all do.  Between the two the limiter may choose.    *)
(* What it knows of a client may be lost, and only then is the promise     *)
(* void.                                                                   *)
(***************************************************************************)
EXTENDS Integers, Sequences

CONSTANTS
  Clients,
  Limit,   \* [Clients -> Nat \ {0}]
  Window   \* [Clients -> Nat \ {0}], in clock ticks

VARIABLES
  clock,
  granted, \* per client, the instants of its last Limit grants
  arrived  \* per client, the instants of its last Limit arrivals

promiseVars == <<clock, granted, arrived>>

\* The last n elements of s, or all of them.
Recent(s, n) == IF Len(s) <= n THEN s ELSE SubSeq(s, Len(s) - n + 1, Len(s))

\* Limit instants remembered, all of them younger than the window.
Full(log, c) == Len(log[c]) = Limit[c] /\ log[c][1] > clock - Window[c]

\* log after client c is noted down and the clients in lost are forgotten.
Noted(log, c, lost) ==
  [d \in Clients |-> IF d \in lost THEN <<>>
                     ELSE IF d = c THEN Recent(Append(log[d], clock), Limit[d])
                     ELSE log[d]]

Without(log, lost) == [d \in Clients |-> IF d \in lost THEN <<>> ELSE log[d]]

Init ==
  /\ clock = 0
  /\ granted = [c \in Clients |-> <<>>]
  /\ arrived = [c \in Clients |-> <<>>]

Pass == clock' > clock /\ UNCHANGED <<granted, arrived>>

Grant(c, lost) ==
  /\ arrived' = Noted(arrived, c, lost)
  /\ granted' = Noted(granted, c, lost)
  /\ ~Full(granted, c)
  /\ UNCHANGED clock

Refuse(c, lost) ==
  /\ arrived' = Noted(arrived, c, lost)
  /\ granted' = Without(granted, lost)
  /\ Full(arrived, c)
  /\ UNCHANGED clock

Forget(lost) ==
  /\ arrived' = Without(arrived, lost)
  /\ granted' = Without(granted, lost)
  /\ UNCHANGED clock

Next ==
  \/ Pass
  \/ \E c \in Clients : \E lost \in SUBSET (Clients \ {c}) : Grant(c, lost)
  \/ \E c \in Clients : \E lost \in SUBSET (Clients \ {c}) : Refuse(c, lost)
  \/ \E lost \in SUBSET Clients : Forget(lost)

Spec == Init /\ [][Next]_promiseVars
=============================================================================
