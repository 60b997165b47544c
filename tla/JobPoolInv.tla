----------------------------- MODULE JobPoolInv -----------------------------
(***************************************************************************)
(* The inductive invariant of JobPool.                                     *)
(***************************************************************************)
EXTENDS JobPool

Panicked == \E w \in Worker : error[w] = "panicked"

\* Only the call that uses the pool has workers, and all have ended with it.
WorkersOfScope ==
  /\ caller # "scope" => \A w \in Worker : pc[w] = "ended"
  /\ caller \in {"start", "check", "work", "panicking"} =>
       failure = None /\ \A w \in Worker : error[w] = None
  /\ caller = "start" => next = 0
  /\ caller \in {"check", "work"} =>
       /\ \A i \in Item : i < next => i \in done
       /\ caller = "work" => next < Items
  /\ caller = "scope" => Items > 0 /\ Threads > 0

\* The counter is past every item done or at work, and past the end once a worker
\* has found no more.
Behind ==
  /\ \A i \in done : i < next
  /\ \A w \in Worker : pc[w] = "work" => item[w] \in Item /\ item[w] < next

PastEnd ==
  caller = "scope" =>
    \A w \in Spawned : pc[w] \in {"last", "ended"} /\ error[w] = None => next >= Items

\* Every item the counter has passed is done, at work, or given up by the worker
\* that failed on it.
Accounted ==
  caller = "scope" =>
    \A i \in Item : i < next =>
      i \in done \/ \E w \in Worker : item[w] = i /\ (pc[w] = "work" \/ error[w] # None)

\* A worker that unwound reports it, and a panic stays reported.
Reported ==
  /\ \A w \in Worker :
       /\ pc[w] \in {"check", "take", "work", "last"} => error[w] = None
       /\ pc[w] \in {"caught", "record"} => error[w] # None
       /\ pc[w] = "ended" /\ error[w] # None => failure # None
       /\ pc[w] = "ended" /\ error[w] = "panicked" => failure = "panicked"
  /\ failure = "panicked" => Panicked
  /\ caller \in Ended => caller = "panicked" \/ (failure # "panicked" /\ ~Panicked)

\* Cancellation starts with a panic or from outside, and comes before any record.
Caused ==
  /\ cancelled => stopped \/ Panicked
  /\ failure = "cancelled" => stopped \/ Panicked
  /\ failure # None => cancelled
  /\ \A w \in Worker : pc[w] = "record" => cancelled
  /\ \A w \in Worker : error[w] = "cancelled" => stopped \/ Panicked

\* Whoever has begun an item since the cancellation will not begin another.
Late == \A w \in Worker : late[w] = 0 \/ (late[w] = 1 /\ cancelled /\ pc[w] # "take")

PoolInv ==
  /\ TypeOK /\ BegunOnce /\ WorkersOfScope /\ Behind /\ PastEnd /\ Accounted
  /\ Reported /\ Caused /\ Late /\ ReturnsComplete /\ CancelledFromOutside
=============================================================================
