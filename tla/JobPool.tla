------------------------------- MODULE JobPool -------------------------------
(***************************************************************************)
(* Execution::for_each (src/execution.rs): independent jobs on a pool of   *)
(* threads that share a counter of the next item, a cancellation token and *)
(* the slot for the failure the caller resumes.  Jobs are the solving of   *)
(* declaration groups on clones of one query database, so a job may also   *)
(* be unwound because it waited for a query that panicked elsewhere.       *)
(***************************************************************************)
EXTENDS Integers

CONSTANTS
  Items,     \* number of items
  Threads    \* threads of the pool

ASSUME ItemsIsNat == Items \in Nat
ASSUME ThreadsIsNat == Threads \in Nat

VARIABLES
  caller,     \* where the calling thread is, in the end how the call ended
  watched,    \* the caller runs under a token of its own
  cancelled,  \* the token: the caller's, else one of the call
  next,       \* the index given to whoever asks next
  pc, item,   \* the state of each worker
  error,      \* what a worker's job unwound with
  failure,    \* what the call will fail with
  done,       \* items whose job has run to its end
  \* What no code records.
  stopped,    \* somebody outside cancelled the token
  late        \* items each worker has begun since the call should stop

vars == <<caller, watched, cancelled, next, pc, item, error, failure, done, stopped, late>>

Item == 0..(Items - 1)
Worker == 1..Threads
Spawned == {w \in Worker : w <= Items}
None == "none"
Ended == {"ok", "cancelled", "panicked"}

Init ==
  /\ caller = "start"
  /\ watched \in BOOLEAN
  /\ cancelled = FALSE
  /\ next = 0
  /\ pc = [w \in Worker |-> "ended"]
  /\ item = [w \in Worker |-> 0]
  /\ error = [w \in Worker |-> None]
  /\ failure = None
  /\ done = {}
  /\ stopped = FALSE
  /\ late = [w \in Worker |-> 0]

\* The items go to the pool, or stay with the calling thread: there is only one,
\* or the backend is the sequential one.
Begin ==
  /\ caller = "start"
  /\ \/ /\ Items > 1 /\ Threads > 0
        /\ caller' = "scope"
        /\ pc' = [w \in Worker |-> IF w \in Spawned THEN "check" ELSE "ended"]
     \/ caller' = "check" /\ UNCHANGED pc
  /\ UNCHANGED <<watched, cancelled, next, item, error, failure, done, stopped, late>>

\* A new revision or the client cancels the token the caller runs under.
CancelOutside ==
  /\ watched /\ caller \notin Ended
  /\ cancelled' = TRUE
  /\ stopped' = TRUE
  /\ UNCHANGED <<caller, watched, next, pc, item, error, failure, done, late>>

-----------------------------------------------------------------------------
(* A worker *)

\* The token is cancelled or a failure is recorded.
Stopping == cancelled \/ failure # None

GoTo(w, step) == pc' = [pc EXCEPT ![w] = step]

\* The worker's job unwinds, and catch_unwind has what it unwound with.
Unwind(w, with) ==
  /\ error' = [error EXCEPT ![w] = with]
  /\ GoTo(w, "caught")
  /\ UNCHANGED <<caller, watched, cancelled, next, item, failure, done, stopped, late>>

\* Mutant: the token is looked at only when a worker starts.
CheckAtStart(w) ==
  /\ pc[w] = "check"
  /\ IF cancelled /\ item[w] = 0
     THEN Unwind(w, "cancelled")
     ELSE /\ GoTo(w, "take")
          /\ UNCHANGED <<caller, watched, cancelled, next, item, error, failure, done,
                         stopped, late>>

\* The checkpoint before each item.
Check(w) ==
  /\ pc[w] = "check"
  /\ IF cancelled
     THEN Unwind(w, "cancelled")
     ELSE /\ GoTo(w, "take")
          /\ UNCHANGED <<caller, watched, cancelled, next, item, error, failure, done,
                         stopped, late>>

\* Every worker that finds no item has moved the counter past the end.
Take(w) ==
  /\ pc[w] = "take"
  /\ next' = next + 1
  /\ IF next < Items
     THEN /\ item' = [item EXCEPT ![w] = next]
          /\ late' = [late EXCEPT ![w] = @ + IF Stopping THEN 1 ELSE 0]
          /\ GoTo(w, "work")
     ELSE GoTo(w, "last") /\ UNCHANGED <<item, late>>
  /\ UNCHANGED <<caller, watched, cancelled, error, failure, done, stopped>>

Complete(w) ==
  /\ pc[w] = "work"
  /\ done' = done \cup {item[w]}
  /\ GoTo(w, "check")
  /\ UNCHANGED <<caller, watched, cancelled, next, item, error, failure, stopped, late>>

\* The job panics, meets a checkpoint of its own, or waited for a query that
\* another worker was computing when it panicked.
Panic(w) == pc[w] = "work" /\ Unwind(w, "panicked")
Interrupted(w) == pc[w] = "work" /\ cancelled /\ Unwind(w, "cancelled")
Propagated(w) ==
  /\ pc[w] = "work"
  /\ \E v \in Worker : error[v] = "panicked"
  /\ Unwind(w, "cancelled")

\* The checkpoint at the end of Cancellation::run.
Last(w) ==
  /\ pc[w] = "last"
  /\ IF cancelled
     THEN Unwind(w, "cancelled")
     ELSE /\ GoTo(w, "ended")
          /\ UNCHANGED <<caller, watched, cancelled, next, item, error, failure, done,
                         stopped, late>>

StopSiblings(w) ==
  /\ pc[w] = "caught"
  /\ cancelled' = TRUE
  /\ GoTo(w, "record")
  /\ UNCHANGED <<caller, watched, next, item, error, failure, done, stopped, late>>

\* Mutant: the first failure recorded is the one that counts.
RecordFirst(w) ==
  /\ pc[w] = "record"
  /\ failure' = IF failure = None THEN error[w] ELSE failure
  /\ GoTo(w, "ended")
  /\ UNCHANGED <<caller, watched, cancelled, next, item, error, done, stopped, late>>

Record(w) ==
  /\ pc[w] = "record"
  /\ failure' = IF failure \in {None, "cancelled"} THEN error[w] ELSE failure
  /\ GoTo(w, "ended")
  /\ UNCHANGED <<caller, watched, cancelled, next, item, error, done, stopped, late>>

\* Mutant: a failure is resumed without waiting for the siblings.
JoinOnFailure ==
  /\ caller = "scope"
  /\ failure # None \/ \A w \in Worker : pc[w] = "ended"
  /\ caller' = IF failure = None THEN "ok" ELSE failure
  /\ UNCHANGED <<watched, cancelled, next, pc, item, error, failure, done, stopped, late>>

\* The end of the scope: all workers have ended, and the failure is resumed.
Join ==
  /\ caller = "scope"
  /\ \A w \in Worker : pc[w] = "ended"
  /\ caller' = IF failure = None THEN "ok" ELSE failure
  /\ UNCHANGED <<watched, cancelled, next, pc, item, error, failure, done, stopped, late>>

-----------------------------------------------------------------------------
(* The sequential path *)

\* A checkpoint before every item and one after the last.
CheckAlone ==
  /\ caller = "check"
  /\ caller' = IF cancelled THEN "cancelled" ELSE IF next < Items THEN "work" ELSE "ok"
  /\ UNCHANGED <<watched, cancelled, next, pc, item, error, failure, done, stopped, late>>

CompleteAlone ==
  /\ caller = "work"
  /\ done' = done \cup {next}
  /\ next' = next + 1
  /\ caller' = "check"
  /\ UNCHANGED <<watched, cancelled, pc, item, error, failure, stopped, late>>

InterruptedAlone ==
  /\ caller = "work" /\ cancelled
  /\ caller' = "cancelled"
  /\ UNCHANGED <<watched, cancelled, next, pc, item, error, failure, done, stopped, late>>

PanicAlone ==
  /\ \/ caller = "work" /\ caller' = "panicking"
     \/ caller = "panicking" /\ caller' = "panicked"
  /\ UNCHANGED <<watched, cancelled, next, pc, item, error, failure, done, stopped, late>>

Alone == CheckAlone \/ CompleteAlone \/ InterruptedAlone \/ PanicAlone

Work(w) ==
  \/ Check(w) \/ Take(w) \/ Complete(w) \/ Panic(w) \/ Interrupted(w) \/ Propagated(w)
  \/ Last(w) \/ StopSiblings(w) \/ Record(w)

Next ==
  \/ Begin \/ CancelOutside \/ Join \/ Alone
  \/ \E w \in Worker : Work(w)

Spec == Init /\ [][Next]_vars

-----------------------------------------------------------------------------
(* Properties *)

TypeOK ==
  /\ caller \in Ended \cup {"start", "scope", "check", "work", "panicking"}
  /\ watched \in BOOLEAN /\ cancelled \in BOOLEAN /\ stopped \in BOOLEAN
  /\ next \in Nat
  /\ pc \in [Worker -> {"check", "take", "work", "last", "caught", "record", "ended"}]
  /\ item \in [Worker -> Nat]
  /\ error \in [Worker -> {None, "cancelled", "panicked"}]
  /\ failure \in {None, "cancelled", "panicked"}
  /\ done \subseteq Item
  /\ late \in [Worker -> Nat]

\* A call that returns normally has done every item, even if a worker found the
\* token cancelled after the last job: no result is silently missing from what the
\* caller reads next.
ReturnsComplete == caller = "ok" => done = Item

\* No item is begun twice: those at work are different and none of them is done.
BegunOnce ==
  \A w \in Worker : pc[w] = "work" =>
    /\ item[w] \notin done
    /\ \A v \in Worker : pc[v] = "work" /\ item[v] = item[w] => v = w

\* Once a failure is recorded or the client has cancelled, a worker begins at most
\* the one item it was about to take.
StopsDispatch == \A w \in Worker : late[w] <= 1

\* A panic is what the caller sees if any job panicked, although the siblings it
\* stopped may have recorded their cancellation before it.
PanicsPrevail ==
  caller \in Ended /\ (\E w \in Worker : error[w] = "panicked") => caller = "panicked"

\* The caller is told of a cancellation only if it was cancelled from outside.
CancelledFromOutside == caller = "cancelled" => stopped

Promise == INSTANCE ForEach WITH
  completed <- done,
  panicked <- caller \in {"panicking", "panicked"} \/ \E w \in Worker : error[w] = "panicked",
  cancelled <- stopped,
  outcome <- IF caller \in Ended THEN caller ELSE "running"

\* Both paths keep the promise of for_each, and nothing runs after the call.
ImplementsForEach == Promise!Spec
=============================================================================
