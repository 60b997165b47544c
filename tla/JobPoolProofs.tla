--------------------------- MODULE JobPoolProofs ---------------------------
(***************************************************************************)
(* Theorems about JobPool, for any number of items and threads.  PoolInv   *)
(* is inductive; the properties follow from it, and with it every step is  *)
(* a step of ForEach or leaves what ForEach speaks of as it is.            *)
(***************************************************************************)
EXTENDS JobPoolInv, TLAPS

\* The invariant holds before the call.
LEMMA Initially == Init => PoolInv
<1> SUFFICES ASSUME Init PROVE PoolInv OBVIOUS
<1>1. TypeOK
  BY ItemsIsNat, ThreadsIsNat DEF Init, TypeOK, TypeOK, Panicked, Item, Worker, Spawned, None, Ended
<1>2. BegunOnce
  BY ItemsIsNat, ThreadsIsNat DEF Init, TypeOK, BegunOnce, Panicked, Item, Worker, Spawned, None, Ended
<1>3. WorkersOfScope
  BY ItemsIsNat, ThreadsIsNat DEF Init, TypeOK, WorkersOfScope, Panicked, Item, Worker, Spawned, None, Ended
<1>4. Behind
  BY ItemsIsNat, ThreadsIsNat DEF Init, TypeOK, Behind, Panicked, Item, Worker, Spawned, None, Ended
<1>5. PastEnd
  BY ItemsIsNat, ThreadsIsNat DEF Init, TypeOK, PastEnd, Panicked, Item, Worker, Spawned, None, Ended
<1>6. Accounted
  BY ItemsIsNat, ThreadsIsNat DEF Init, TypeOK, Accounted, Panicked, Item, Worker, Spawned, None, Ended
<1>7. Reported
  BY ItemsIsNat, ThreadsIsNat DEF Init, TypeOK, Reported, Panicked, Item, Worker, Spawned, None, Ended
<1>8. Caused
  BY ItemsIsNat, ThreadsIsNat DEF Init, TypeOK, Caused, Panicked, Item, Worker, Spawned, None, Ended
<1>9. Late
  BY ItemsIsNat, ThreadsIsNat DEF Init, TypeOK, Late, Panicked, Item, Worker, Spawned, None, Ended
<1>10. ReturnsComplete
  BY ItemsIsNat, ThreadsIsNat DEF Init, TypeOK, ReturnsComplete, Panicked, Item, Worker, Spawned, None, Ended
<1>11. CancelledFromOutside
  BY ItemsIsNat, ThreadsIsNat DEF Init, TypeOK, CancelledFromOutside, Panicked, Item, Worker, Spawned, None, Ended
<1> QED BY <1>1, <1>2, <1>3, <1>4, <1>5, <1>6, <1>7, <1>8, <1>9, <1>10, <1>11 DEF PoolInv

\* Each action keeps it: first the caller's, then a worker's.
LEMMA KeepsBegin ==
  ASSUME PoolInv, Begin
  PROVE  PoolInv'
<1>1. TypeOK'
  BY ItemsIsNat, ThreadsIsNat
     DEF PoolInv, Begin, TypeOK, WorkersOfScope, Behind, Item, Worker, Spawned, None, Ended
<1>2. BegunOnce'
  BY ItemsIsNat, ThreadsIsNat
     DEF PoolInv, Begin, TypeOK, BegunOnce, Behind, WorkersOfScope, Item, Worker, Spawned, None, Ended
<1>3. WorkersOfScope'
  BY ItemsIsNat, ThreadsIsNat
     DEF PoolInv, Begin, TypeOK, WorkersOfScope, Behind, Item, Worker, Spawned, None, Ended
<1>4. Behind'
  BY ItemsIsNat, ThreadsIsNat
     DEF PoolInv, Begin, TypeOK, WorkersOfScope, Behind, Item, Worker, Spawned, None, Ended
<1>5. PastEnd'
  BY ItemsIsNat, ThreadsIsNat
     DEF PoolInv, Begin, TypeOK, WorkersOfScope, PastEnd, Reported, Item, Worker, Spawned, None, Ended
<1>6. Accounted'
  BY ItemsIsNat, ThreadsIsNat
     DEF PoolInv, Begin, TypeOK, WorkersOfScope, Accounted, Reported, Behind, Item, Worker, Spawned, None, Ended
<1>7. Reported'
  BY ItemsIsNat, ThreadsIsNat
     DEF PoolInv, Begin, TypeOK, WorkersOfScope, Reported, Panicked, Item, Worker, Spawned, None, Ended
<1>8. Caused'
  BY ItemsIsNat, ThreadsIsNat
     DEF PoolInv, Begin, TypeOK, WorkersOfScope, Caused, Reported, Panicked, Item, Worker, Spawned, None, Ended
<1>9. Late'
  BY ItemsIsNat, ThreadsIsNat
     DEF PoolInv, Begin, TypeOK, WorkersOfScope, Late, Caused, Stopping, Item, Worker, Spawned, None, Ended
<1>10. ReturnsComplete'
  BY ItemsIsNat, ThreadsIsNat
     DEF PoolInv, Begin, TypeOK, WorkersOfScope, Accounted, PastEnd, Reported, ReturnsComplete, Behind, Item, Worker, Spawned, None, Ended
<1>11. CancelledFromOutside'
  BY ItemsIsNat, ThreadsIsNat
     DEF PoolInv, Begin, TypeOK, WorkersOfScope, Caused, Reported, CancelledFromOutside, Panicked, Item, Worker, Spawned, None, Ended
<1> QED BY <1>1, <1>2, <1>3, <1>4, <1>5, <1>6, <1>7, <1>8, <1>9, <1>10, <1>11 DEF PoolInv

LEMMA KeepsCancelOutside ==
  ASSUME PoolInv, CancelOutside
  PROVE  PoolInv'
<1>1. TypeOK'
  BY ItemsIsNat, ThreadsIsNat
     DEF PoolInv, CancelOutside, TypeOK, WorkersOfScope, Behind, Item, Worker, Spawned, None, Ended
<1>2. BegunOnce'
  BY ItemsIsNat, ThreadsIsNat
     DEF PoolInv, CancelOutside, TypeOK, BegunOnce, Behind, WorkersOfScope, Item, Worker, Spawned, None, Ended
<1>3. WorkersOfScope'
  BY ItemsIsNat, ThreadsIsNat
     DEF PoolInv, CancelOutside, TypeOK, WorkersOfScope, Behind, Item, Worker, Spawned, None, Ended
<1>4. Behind'
  BY ItemsIsNat, ThreadsIsNat
     DEF PoolInv, CancelOutside, TypeOK, WorkersOfScope, Behind, Item, Worker, Spawned, None, Ended
<1>5. PastEnd'
  BY ItemsIsNat, ThreadsIsNat
     DEF PoolInv, CancelOutside, TypeOK, WorkersOfScope, PastEnd, Reported, Item, Worker, Spawned, None, Ended
<1>6. Accounted'
  BY ItemsIsNat, ThreadsIsNat
     DEF PoolInv, CancelOutside, TypeOK, WorkersOfScope, Accounted, Reported, Behind, Item, Worker, Spawned, None, Ended
<1>7. Reported'
  BY ItemsIsNat, ThreadsIsNat
     DEF PoolInv, CancelOutside, TypeOK, WorkersOfScope, Reported, Panicked, Item, Worker, Spawned, None, Ended
<1>8. Caused'
  BY ItemsIsNat, ThreadsIsNat
     DEF PoolInv, CancelOutside, TypeOK, WorkersOfScope, Caused, Reported, Panicked, Item, Worker, Spawned, None, Ended
<1>9. Late'
  BY ItemsIsNat, ThreadsIsNat
     DEF PoolInv, CancelOutside, TypeOK, WorkersOfScope, Late, Caused, Stopping, Item, Worker, Spawned, None, Ended
<1>10. ReturnsComplete'
  BY ItemsIsNat, ThreadsIsNat
     DEF PoolInv, CancelOutside, TypeOK, WorkersOfScope, Accounted, PastEnd, Reported, ReturnsComplete, Behind, Item, Worker, Spawned, None, Ended
<1>11. CancelledFromOutside'
  BY ItemsIsNat, ThreadsIsNat
     DEF PoolInv, CancelOutside, TypeOK, WorkersOfScope, Caused, Reported, CancelledFromOutside, Panicked, Item, Worker, Spawned, None, Ended
<1> QED BY <1>1, <1>2, <1>3, <1>4, <1>5, <1>6, <1>7, <1>8, <1>9, <1>10, <1>11 DEF PoolInv

LEMMA KeepsJoin ==
  ASSUME PoolInv, Join
  PROVE  PoolInv'
<1>1. TypeOK'
  BY ItemsIsNat, ThreadsIsNat
     DEF PoolInv, Join, TypeOK, WorkersOfScope, Behind, Item, Worker, Spawned, None, Ended
<1>2. BegunOnce'
  BY ItemsIsNat, ThreadsIsNat
     DEF PoolInv, Join, TypeOK, BegunOnce, Behind, WorkersOfScope, Item, Worker, Spawned, None, Ended
<1>3. WorkersOfScope'
  BY ItemsIsNat, ThreadsIsNat
     DEF PoolInv, Join, TypeOK, WorkersOfScope, Behind, Item, Worker, Spawned, None, Ended
<1>4. Behind'
  BY ItemsIsNat, ThreadsIsNat
     DEF PoolInv, Join, TypeOK, WorkersOfScope, Behind, Item, Worker, Spawned, None, Ended
<1>5. PastEnd'
  BY ItemsIsNat, ThreadsIsNat
     DEF PoolInv, Join, TypeOK, WorkersOfScope, PastEnd, Reported, Item, Worker, Spawned, None, Ended
<1>6. Accounted'
  BY ItemsIsNat, ThreadsIsNat
     DEF PoolInv, Join, TypeOK, WorkersOfScope, Accounted, Reported, Behind, Item, Worker, Spawned, None, Ended
<1>7. Reported'
  BY ItemsIsNat, ThreadsIsNat
     DEF PoolInv, Join, TypeOK, WorkersOfScope, Reported, Panicked, Item, Worker, Spawned, None, Ended
<1>8. Caused'
  BY ItemsIsNat, ThreadsIsNat
     DEF PoolInv, Join, TypeOK, WorkersOfScope, Caused, Reported, Panicked, Item, Worker, Spawned, None, Ended
<1>9. Late'
  BY ItemsIsNat, ThreadsIsNat
     DEF PoolInv, Join, TypeOK, WorkersOfScope, Late, Caused, Stopping, Item, Worker, Spawned, None, Ended
<1>10. ReturnsComplete'
  <2> SUFFICES ASSUME caller' = "ok" PROVE done = Item
    BY DEF Join, ReturnsComplete
  <2>1. failure = None /\ \A w \in Worker : pc[w] = "ended" /\ error[w] = None
    BY DEF Join, PoolInv, Reported, TypeOK, None
  <2>2. 1 \in Spawned /\ Spawned \subseteq Worker
    BY ItemsIsNat, ThreadsIsNat DEF Join, PoolInv, WorkersOfScope, Spawned, Worker
  <2>3. next >= Items
    BY <2>1, <2>2 DEF Join, PoolInv, PastEnd
  <2>4. \A i \in Item : i < next
    BY <2>3, ItemsIsNat DEF Item, PoolInv, TypeOK
  <2>5. Item \subseteq done
    BY <2>1, <2>4 DEF Join, PoolInv, Accounted
  <2> QED BY <2>5 DEF PoolInv, TypeOK
<1>11. CancelledFromOutside'
  BY ItemsIsNat, ThreadsIsNat
     DEF PoolInv, Join, TypeOK, WorkersOfScope, Caused, Reported, CancelledFromOutside, Panicked, Item, Worker, Spawned, None, Ended
<1> QED BY <1>1, <1>2, <1>3, <1>4, <1>5, <1>6, <1>7, <1>8, <1>9, <1>10, <1>11 DEF PoolInv

LEMMA KeepsCheckAlone ==
  ASSUME PoolInv, CheckAlone
  PROVE  PoolInv'
<1>1. TypeOK'
  BY ItemsIsNat, ThreadsIsNat
     DEF PoolInv, CheckAlone, TypeOK, WorkersOfScope, Behind, Item, Worker, Spawned, None, Ended
<1>2. BegunOnce'
  BY ItemsIsNat, ThreadsIsNat
     DEF PoolInv, CheckAlone, TypeOK, BegunOnce, Behind, WorkersOfScope, Item, Worker, Spawned, None, Ended
<1>3. WorkersOfScope'
  BY ItemsIsNat, ThreadsIsNat
     DEF PoolInv, CheckAlone, TypeOK, WorkersOfScope, Behind, Item, Worker, Spawned, None, Ended
<1>4. Behind'
  BY ItemsIsNat, ThreadsIsNat
     DEF PoolInv, CheckAlone, TypeOK, WorkersOfScope, Behind, Item, Worker, Spawned, None, Ended
<1>5. PastEnd'
  BY ItemsIsNat, ThreadsIsNat
     DEF PoolInv, CheckAlone, TypeOK, WorkersOfScope, PastEnd, Reported, Item, Worker, Spawned, None, Ended
<1>6. Accounted'
  BY ItemsIsNat, ThreadsIsNat
     DEF PoolInv, CheckAlone, TypeOK, WorkersOfScope, Accounted, Reported, Behind, Item, Worker, Spawned, None, Ended
<1>7. Reported'
  BY ItemsIsNat, ThreadsIsNat
     DEF PoolInv, CheckAlone, TypeOK, WorkersOfScope, Reported, Panicked, Item, Worker, Spawned, None, Ended
<1>8. Caused'
  BY ItemsIsNat, ThreadsIsNat
     DEF PoolInv, CheckAlone, TypeOK, WorkersOfScope, Caused, Reported, Panicked, Item, Worker, Spawned, None, Ended
<1>9. Late'
  BY ItemsIsNat, ThreadsIsNat
     DEF PoolInv, CheckAlone, TypeOK, WorkersOfScope, Late, Caused, Stopping, Item, Worker, Spawned, None, Ended
<1>10. ReturnsComplete'
  <2> SUFFICES ASSUME caller' = "ok" PROVE done = Item
    BY DEF CheckAlone, ReturnsComplete
  <2>1. next >= Items
    BY ItemsIsNat DEF CheckAlone, PoolInv, TypeOK
  <2>2. \A i \in Item : i < next
    BY <2>1, ItemsIsNat DEF Item, PoolInv, TypeOK
  <2>3. Item \subseteq done
    BY <2>2 DEF CheckAlone, PoolInv, WorkersOfScope
  <2> QED BY <2>3 DEF PoolInv, TypeOK
<1>11. CancelledFromOutside'
  BY ItemsIsNat, ThreadsIsNat
     DEF PoolInv, CheckAlone, TypeOK, WorkersOfScope, Caused, Reported, CancelledFromOutside, Panicked, Item, Worker, Spawned, None, Ended
<1> QED BY <1>1, <1>2, <1>3, <1>4, <1>5, <1>6, <1>7, <1>8, <1>9, <1>10, <1>11 DEF PoolInv

LEMMA KeepsCompleteAlone ==
  ASSUME PoolInv, CompleteAlone
  PROVE  PoolInv'
<1>1. TypeOK'
  BY ItemsIsNat, ThreadsIsNat
     DEF PoolInv, CompleteAlone, TypeOK, WorkersOfScope, Behind, Item, Worker, Spawned, None, Ended
<1>2. BegunOnce'
  BY ItemsIsNat, ThreadsIsNat
     DEF PoolInv, CompleteAlone, TypeOK, BegunOnce, Behind, WorkersOfScope, Item, Worker, Spawned, None, Ended
<1>3. WorkersOfScope'
  BY ItemsIsNat, ThreadsIsNat
     DEF PoolInv, CompleteAlone, TypeOK, WorkersOfScope, Behind, Item, Worker, Spawned, None, Ended
<1>4. Behind'
  BY ItemsIsNat, ThreadsIsNat
     DEF PoolInv, CompleteAlone, TypeOK, WorkersOfScope, Behind, Item, Worker, Spawned, None, Ended
<1>5. PastEnd'
  BY ItemsIsNat, ThreadsIsNat
     DEF PoolInv, CompleteAlone, TypeOK, WorkersOfScope, PastEnd, Reported, Item, Worker, Spawned, None, Ended
<1>6. Accounted'
  BY ItemsIsNat, ThreadsIsNat
     DEF PoolInv, CompleteAlone, TypeOK, WorkersOfScope, Accounted, Reported, Behind, Item, Worker, Spawned, None, Ended
<1>7. Reported'
  BY ItemsIsNat, ThreadsIsNat
     DEF PoolInv, CompleteAlone, TypeOK, WorkersOfScope, Reported, Panicked, Item, Worker, Spawned, None, Ended
<1>8. Caused'
  BY ItemsIsNat, ThreadsIsNat
     DEF PoolInv, CompleteAlone, TypeOK, WorkersOfScope, Caused, Reported, Panicked, Item, Worker, Spawned, None, Ended
<1>9. Late'
  BY ItemsIsNat, ThreadsIsNat
     DEF PoolInv, CompleteAlone, TypeOK, WorkersOfScope, Late, Caused, Stopping, Item, Worker, Spawned, None, Ended
<1>10. ReturnsComplete'
  BY ItemsIsNat, ThreadsIsNat
     DEF PoolInv, CompleteAlone, TypeOK, WorkersOfScope, Accounted, PastEnd, Reported, ReturnsComplete, Behind, Item, Worker, Spawned, None, Ended
<1>11. CancelledFromOutside'
  BY ItemsIsNat, ThreadsIsNat
     DEF PoolInv, CompleteAlone, TypeOK, WorkersOfScope, Caused, Reported, CancelledFromOutside, Panicked, Item, Worker, Spawned, None, Ended
<1> QED BY <1>1, <1>2, <1>3, <1>4, <1>5, <1>6, <1>7, <1>8, <1>9, <1>10, <1>11 DEF PoolInv

LEMMA KeepsInterruptedAlone ==
  ASSUME PoolInv, InterruptedAlone
  PROVE  PoolInv'
<1>1. TypeOK'
  BY ItemsIsNat, ThreadsIsNat
     DEF PoolInv, InterruptedAlone, TypeOK, WorkersOfScope, Behind, Item, Worker, Spawned, None, Ended
<1>2. BegunOnce'
  BY ItemsIsNat, ThreadsIsNat
     DEF PoolInv, InterruptedAlone, TypeOK, BegunOnce, Behind, WorkersOfScope, Item, Worker, Spawned, None, Ended
<1>3. WorkersOfScope'
  BY ItemsIsNat, ThreadsIsNat
     DEF PoolInv, InterruptedAlone, TypeOK, WorkersOfScope, Behind, Item, Worker, Spawned, None, Ended
<1>4. Behind'
  BY ItemsIsNat, ThreadsIsNat
     DEF PoolInv, InterruptedAlone, TypeOK, WorkersOfScope, Behind, Item, Worker, Spawned, None, Ended
<1>5. PastEnd'
  BY ItemsIsNat, ThreadsIsNat
     DEF PoolInv, InterruptedAlone, TypeOK, WorkersOfScope, PastEnd, Reported, Item, Worker, Spawned, None, Ended
<1>6. Accounted'
  BY ItemsIsNat, ThreadsIsNat
     DEF PoolInv, InterruptedAlone, TypeOK, WorkersOfScope, Accounted, Reported, Behind, Item, Worker, Spawned, None, Ended
<1>7. Reported'
  BY ItemsIsNat, ThreadsIsNat
     DEF PoolInv, InterruptedAlone, TypeOK, WorkersOfScope, Reported, Panicked, Item, Worker, Spawned, None, Ended
<1>8. Caused'
  BY ItemsIsNat, ThreadsIsNat
     DEF PoolInv, InterruptedAlone, TypeOK, WorkersOfScope, Caused, Reported, Panicked, Item, Worker, Spawned, None, Ended
<1>9. Late'
  BY ItemsIsNat, ThreadsIsNat
     DEF PoolInv, InterruptedAlone, TypeOK, WorkersOfScope, Late, Caused, Stopping, Item, Worker, Spawned, None, Ended
<1>10. ReturnsComplete'
  BY ItemsIsNat, ThreadsIsNat
     DEF PoolInv, InterruptedAlone, TypeOK, WorkersOfScope, Accounted, PastEnd, Reported, ReturnsComplete, Behind, Item, Worker, Spawned, None, Ended
<1>11. CancelledFromOutside'
  BY ItemsIsNat, ThreadsIsNat
     DEF PoolInv, InterruptedAlone, TypeOK, WorkersOfScope, Caused, Reported, CancelledFromOutside, Panicked, Item, Worker, Spawned, None, Ended
<1> QED BY <1>1, <1>2, <1>3, <1>4, <1>5, <1>6, <1>7, <1>8, <1>9, <1>10, <1>11 DEF PoolInv

LEMMA KeepsPanicAlone ==
  ASSUME PoolInv, PanicAlone
  PROVE  PoolInv'
<1>1. TypeOK'
  BY ItemsIsNat, ThreadsIsNat
     DEF PoolInv, PanicAlone, TypeOK, WorkersOfScope, Behind, Item, Worker, Spawned, None, Ended
<1>2. BegunOnce'
  BY ItemsIsNat, ThreadsIsNat
     DEF PoolInv, PanicAlone, TypeOK, BegunOnce, Behind, WorkersOfScope, Item, Worker, Spawned, None, Ended
<1>3. WorkersOfScope'
  BY ItemsIsNat, ThreadsIsNat
     DEF PoolInv, PanicAlone, TypeOK, WorkersOfScope, Behind, Item, Worker, Spawned, None, Ended
<1>4. Behind'
  BY ItemsIsNat, ThreadsIsNat
     DEF PoolInv, PanicAlone, TypeOK, WorkersOfScope, Behind, Item, Worker, Spawned, None, Ended
<1>5. PastEnd'
  BY ItemsIsNat, ThreadsIsNat
     DEF PoolInv, PanicAlone, TypeOK, WorkersOfScope, PastEnd, Reported, Item, Worker, Spawned, None, Ended
<1>6. Accounted'
  BY ItemsIsNat, ThreadsIsNat
     DEF PoolInv, PanicAlone, TypeOK, WorkersOfScope, Accounted, Reported, Behind, Item, Worker, Spawned, None, Ended
<1>7. Reported'
  BY ItemsIsNat, ThreadsIsNat
     DEF PoolInv, PanicAlone, TypeOK, WorkersOfScope, Reported, Panicked, Item, Worker, Spawned, None, Ended
<1>8. Caused'
  BY ItemsIsNat, ThreadsIsNat
     DEF PoolInv, PanicAlone, TypeOK, WorkersOfScope, Caused, Reported, Panicked, Item, Worker, Spawned, None, Ended
<1>9. Late'
  BY ItemsIsNat, ThreadsIsNat
     DEF PoolInv, PanicAlone, TypeOK, WorkersOfScope, Late, Caused, Stopping, Item, Worker, Spawned, None, Ended
<1>10. ReturnsComplete'
  BY ItemsIsNat, ThreadsIsNat
     DEF PoolInv, PanicAlone, TypeOK, WorkersOfScope, Accounted, PastEnd, Reported, ReturnsComplete, Behind, Item, Worker, Spawned, None, Ended
<1>11. CancelledFromOutside'
  BY ItemsIsNat, ThreadsIsNat
     DEF PoolInv, PanicAlone, TypeOK, WorkersOfScope, Caused, Reported, CancelledFromOutside, Panicked, Item, Worker, Spawned, None, Ended
<1> QED BY <1>1, <1>2, <1>3, <1>4, <1>5, <1>6, <1>7, <1>8, <1>9, <1>10, <1>11 DEF PoolInv

LEMMA KeepsCheck ==
  ASSUME PoolInv, NEW w \in Worker, Check(w)
  PROVE  PoolInv'
<1>1. TypeOK'
  <2>1. CASE cancelled
    BY <2>1, ItemsIsNat, ThreadsIsNat
       DEF PoolInv, Check, Unwind, GoTo, TypeOK, WorkersOfScope, Behind, Item, Worker, Spawned, None, Ended
  <2>2. CASE ~cancelled
    BY <2>2, ItemsIsNat, ThreadsIsNat
       DEF PoolInv, Check, Unwind, GoTo, TypeOK, WorkersOfScope, Behind, Item, Worker, Spawned, None, Ended
  <2> QED BY <2>1, <2>2
<1>2. BegunOnce'
  <2>1. \A v \in Worker : pc'[v] = "work" => pc[v] = "work"
    BY DEF Check, Unwind, GoTo, PoolInv, TypeOK
  <2>2. UNCHANGED <<item, done>>
    BY DEF Check, Unwind
  <2> QED BY <2>1, <2>2 DEF PoolInv, BegunOnce
<1>3. WorkersOfScope'
  <2>1. CASE cancelled
    BY <2>1, ItemsIsNat, ThreadsIsNat
       DEF PoolInv, Check, Unwind, GoTo, TypeOK, WorkersOfScope, Behind, Item, Worker, Spawned, None, Ended
  <2>2. CASE ~cancelled
    BY <2>2, ItemsIsNat, ThreadsIsNat
       DEF PoolInv, Check, Unwind, GoTo, TypeOK, WorkersOfScope, Behind, Item, Worker, Spawned, None, Ended
  <2> QED BY <2>1, <2>2
<1>4. Behind'
  <2>1. CASE cancelled
    BY <2>1, ItemsIsNat, ThreadsIsNat
       DEF PoolInv, Check, Unwind, GoTo, TypeOK, WorkersOfScope, Behind, Item, Worker, Spawned, None, Ended
  <2>2. CASE ~cancelled
    BY <2>2, ItemsIsNat, ThreadsIsNat
       DEF PoolInv, Check, Unwind, GoTo, TypeOK, WorkersOfScope, Behind, Item, Worker, Spawned, None, Ended
  <2> QED BY <2>1, <2>2
<1>5. PastEnd'
  <2>1. CASE cancelled
    BY <2>1, ItemsIsNat, ThreadsIsNat
       DEF PoolInv, Check, Unwind, GoTo, TypeOK, WorkersOfScope, PastEnd, Reported, Item, Worker, Spawned, None, Ended
  <2>2. CASE ~cancelled
    BY <2>2, ItemsIsNat, ThreadsIsNat
       DEF PoolInv, Check, Unwind, GoTo, TypeOK, WorkersOfScope, PastEnd, Reported, Item, Worker, Spawned, None, Ended
  <2> QED BY <2>1, <2>2
<1>6. Accounted'
  <2>1. \A v \in Worker :
          (pc[v] = "work" => pc'[v] = "work") /\ (error[v] # None => error'[v] # None)
    BY DEF Check, Unwind, GoTo, PoolInv, TypeOK, None
  <2>2. UNCHANGED <<item, done, next, caller>>
    BY DEF Check, Unwind
  <2>3. SUFFICES ASSUME caller = "scope", NEW i \in Item, i < next, i \notin done
                 PROVE  \E v \in Worker : item[v] = i /\ (pc'[v] = "work" \/ error'[v] # None)
    BY <2>2 DEF Accounted
  <2>4. PICK v \in Worker : item[v] = i /\ (pc[v] = "work" \/ error[v] # None)
    BY <2>3 DEF PoolInv, Accounted
  <2> QED BY <2>1, <2>4
<1>7. Reported'
  <2>1. CASE cancelled
    BY <2>1, ItemsIsNat, ThreadsIsNat
       DEF PoolInv, Check, Unwind, GoTo, TypeOK, WorkersOfScope, Reported, Panicked, Item, Worker, Spawned, None, Ended
  <2>2. CASE ~cancelled
    BY <2>2, ItemsIsNat, ThreadsIsNat
       DEF PoolInv, Check, Unwind, GoTo, TypeOK, WorkersOfScope, Reported, Panicked, Item, Worker, Spawned, None, Ended
  <2> QED BY <2>1, <2>2
<1>8. Caused'
  <2>1. CASE cancelled
    BY <2>1, ItemsIsNat, ThreadsIsNat
       DEF PoolInv, Check, Unwind, GoTo, TypeOK, WorkersOfScope, Caused, Reported, Panicked, Item, Worker, Spawned, None, Ended
  <2>2. CASE ~cancelled
    BY <2>2, ItemsIsNat, ThreadsIsNat
       DEF PoolInv, Check, Unwind, GoTo, TypeOK, WorkersOfScope, Caused, Reported, Panicked, Item, Worker, Spawned, None, Ended
  <2> QED BY <2>1, <2>2
<1>9. Late'
  <2>1. CASE cancelled
    BY <2>1, ItemsIsNat, ThreadsIsNat
       DEF PoolInv, Check, Unwind, GoTo, TypeOK, WorkersOfScope, Late, Caused, Stopping, Item, Worker, Spawned, None, Ended
  <2>2. CASE ~cancelled
    BY <2>2, ItemsIsNat, ThreadsIsNat
       DEF PoolInv, Check, Unwind, GoTo, TypeOK, WorkersOfScope, Late, Caused, Stopping, Item, Worker, Spawned, None, Ended
  <2> QED BY <2>1, <2>2
<1>10. ReturnsComplete'
  <2>1. CASE cancelled
    BY <2>1, ItemsIsNat, ThreadsIsNat
       DEF PoolInv, Check, Unwind, GoTo, TypeOK, WorkersOfScope, Accounted, PastEnd, Reported, ReturnsComplete, Behind, Item, Worker, Spawned, None, Ended
  <2>2. CASE ~cancelled
    BY <2>2, ItemsIsNat, ThreadsIsNat
       DEF PoolInv, Check, Unwind, GoTo, TypeOK, WorkersOfScope, Accounted, PastEnd, Reported, ReturnsComplete, Behind, Item, Worker, Spawned, None, Ended
  <2> QED BY <2>1, <2>2
<1>11. CancelledFromOutside'
  <2>1. CASE cancelled
    BY <2>1, ItemsIsNat, ThreadsIsNat
       DEF PoolInv, Check, Unwind, GoTo, TypeOK, WorkersOfScope, Caused, Reported, CancelledFromOutside, Panicked, Item, Worker, Spawned, None, Ended
  <2>2. CASE ~cancelled
    BY <2>2, ItemsIsNat, ThreadsIsNat
       DEF PoolInv, Check, Unwind, GoTo, TypeOK, WorkersOfScope, Caused, Reported, CancelledFromOutside, Panicked, Item, Worker, Spawned, None, Ended
  <2> QED BY <2>1, <2>2
<1> QED BY <1>1, <1>2, <1>3, <1>4, <1>5, <1>6, <1>7, <1>8, <1>9, <1>10, <1>11 DEF PoolInv

LEMMA KeepsTake ==
  ASSUME PoolInv, NEW w \in Worker, Take(w)
  PROVE  PoolInv'
<1>1. TypeOK'
  <2>1. next' \in Nat /\ item' \in [Worker -> Nat] /\ late' \in [Worker -> Nat]
    BY DEF Take, Stopping, PoolInv, TypeOK
  <2>2. pc' \in [Worker -> {"check", "take", "work", "last", "caught", "record", "ended"}]
    BY DEF Take, GoTo, PoolInv, TypeOK
  <2> QED BY <2>1, <2>2 DEF Take, PoolInv, TypeOK
<1>2. BegunOnce'
  <2>1. \A v \in Worker \ {w} : pc'[v] = pc[v] /\ item'[v] = item[v]
    BY DEF Take, GoTo, PoolInv, TypeOK
  <2>2. pc'[w] = "work" => item'[w] = next
    BY DEF Take, GoTo, PoolInv, TypeOK
  <2>3. \A v \in Worker : pc[v] = "work" => item[v] # next
    BY DEF PoolInv, Behind, TypeOK
  <2>4. next \notin done
    BY DEF PoolInv, Behind, TypeOK
  <2> QED BY <2>1, <2>2, <2>3, <2>4 DEF Take, PoolInv, BegunOnce
<1>3. WorkersOfScope'
  <2>1. CASE next < Items
    BY <2>1, ItemsIsNat, ThreadsIsNat
       DEF PoolInv, Take, Unwind, GoTo, TypeOK, WorkersOfScope, Behind, Item, Worker, Spawned, None, Ended
  <2>2. CASE ~(next < Items)
    BY <2>2, ItemsIsNat, ThreadsIsNat
       DEF PoolInv, Take, Unwind, GoTo, TypeOK, WorkersOfScope, Behind, Item, Worker, Spawned, None, Ended
  <2> QED BY <2>1, <2>2
<1>4. Behind'
  <2>1. \A v \in Worker \ {w} : pc'[v] = pc[v] /\ item'[v] = item[v]
    BY DEF Take, GoTo, PoolInv, TypeOK
  <2>2. pc'[w] = "work" => item'[w] = next /\ next < Items
    BY DEF Take, GoTo, PoolInv, TypeOK
  <2>3. next \in Nat /\ next' = next + 1 /\ done' = done /\ done \subseteq Item
    BY DEF Take, PoolInv, TypeOK
  <2>4. pc'[w] = "work" => item'[w] \in Item /\ item'[w] < next'
    BY <2>2, <2>3, ItemsIsNat DEF Item
  <2>5. \A v \in Worker \ {w} : pc'[v] = "work" => item'[v] \in Item /\ item'[v] < next'
    BY <2>1, <2>3, ItemsIsNat DEF PoolInv, Behind, Item
  <2>6. \A i \in done : i < next'
    BY <2>3, ItemsIsNat DEF PoolInv, Behind, Item
  <2> QED BY <2>3, <2>4, <2>5, <2>6 DEF Behind
<1>5. PastEnd'
  <2>1. CASE next < Items
    BY <2>1, ItemsIsNat, ThreadsIsNat
       DEF PoolInv, Take, Unwind, GoTo, TypeOK, WorkersOfScope, PastEnd, Reported, Item, Worker, Spawned, None, Ended
  <2>2. CASE ~(next < Items)
    BY <2>2, ItemsIsNat, ThreadsIsNat
       DEF PoolInv, Take, Unwind, GoTo, TypeOK, WorkersOfScope, PastEnd, Reported, Item, Worker, Spawned, None, Ended
  <2> QED BY <2>1, <2>2
<1>6. Accounted'
  <2> SUFFICES ASSUME caller = "scope", NEW i \in Item, i < next'
               PROVE  \/ i \in done
                      \/ \E v \in Worker : item'[v] = i /\ (pc'[v] = "work" \/ error[v] # None)
    BY DEF Take, Accounted
  <2>1. CASE i < next
    <3>1. \A v \in Worker : v # w => item'[v] = item[v] /\ pc'[v] = pc[v]
      BY DEF Take, GoTo, PoolInv, TypeOK
    <3>2. pc[w] # "work" /\ error[w] = None
      BY DEF Take, PoolInv, Reported
    <3> QED BY <2>1, <3>1, <3>2 DEF PoolInv, Accounted
  <2>2. CASE ~(i < next)
    <3>1. i = next /\ next < Items
      BY <2>2, ItemsIsNat DEF Take, PoolInv, TypeOK, Item
    <3>2. item'[w] = i /\ pc'[w] = "work"
      BY <3>1 DEF Take, GoTo, PoolInv, TypeOK
    <3> QED BY <3>2
  <2> QED BY <2>1, <2>2
<1>7. Reported'
  <2>1. CASE next < Items
    BY <2>1, ItemsIsNat, ThreadsIsNat
       DEF PoolInv, Take, Unwind, GoTo, TypeOK, WorkersOfScope, Reported, Panicked, Item, Worker, Spawned, None, Ended
  <2>2. CASE ~(next < Items)
    BY <2>2, ItemsIsNat, ThreadsIsNat
       DEF PoolInv, Take, Unwind, GoTo, TypeOK, WorkersOfScope, Reported, Panicked, Item, Worker, Spawned, None, Ended
  <2> QED BY <2>1, <2>2
<1>8. Caused'
  <2>1. CASE next < Items
    BY <2>1, ItemsIsNat, ThreadsIsNat
       DEF PoolInv, Take, Unwind, GoTo, TypeOK, WorkersOfScope, Caused, Reported, Panicked, Item, Worker, Spawned, None, Ended
  <2>2. CASE ~(next < Items)
    BY <2>2, ItemsIsNat, ThreadsIsNat
       DEF PoolInv, Take, Unwind, GoTo, TypeOK, WorkersOfScope, Caused, Reported, Panicked, Item, Worker, Spawned, None, Ended
  <2> QED BY <2>1, <2>2
<1>9. Late'
  <2>1. CASE next < Items
    BY <2>1, ItemsIsNat, ThreadsIsNat
       DEF PoolInv, Take, Unwind, GoTo, TypeOK, WorkersOfScope, Late, Caused, Stopping, Item, Worker, Spawned, None, Ended
  <2>2. CASE ~(next < Items)
    BY <2>2, ItemsIsNat, ThreadsIsNat
       DEF PoolInv, Take, Unwind, GoTo, TypeOK, WorkersOfScope, Late, Caused, Stopping, Item, Worker, Spawned, None, Ended
  <2> QED BY <2>1, <2>2
<1>10. ReturnsComplete'
  <2>1. CASE next < Items
    BY <2>1, ItemsIsNat, ThreadsIsNat
       DEF PoolInv, Take, Unwind, GoTo, TypeOK, WorkersOfScope, Accounted, PastEnd, Reported, ReturnsComplete, Behind, Item, Worker, Spawned, None, Ended
  <2>2. CASE ~(next < Items)
    BY <2>2, ItemsIsNat, ThreadsIsNat
       DEF PoolInv, Take, Unwind, GoTo, TypeOK, WorkersOfScope, Accounted, PastEnd, Reported, ReturnsComplete, Behind, Item, Worker, Spawned, None, Ended
  <2> QED BY <2>1, <2>2
<1>11. CancelledFromOutside'
  <2>1. CASE next < Items
    BY <2>1, ItemsIsNat, ThreadsIsNat
       DEF PoolInv, Take, Unwind, GoTo, TypeOK, WorkersOfScope, Caused, Reported, CancelledFromOutside, Panicked, Item, Worker, Spawned, None, Ended
  <2>2. CASE ~(next < Items)
    BY <2>2, ItemsIsNat, ThreadsIsNat
       DEF PoolInv, Take, Unwind, GoTo, TypeOK, WorkersOfScope, Caused, Reported, CancelledFromOutside, Panicked, Item, Worker, Spawned, None, Ended
  <2> QED BY <2>1, <2>2
<1> QED BY <1>1, <1>2, <1>3, <1>4, <1>5, <1>6, <1>7, <1>8, <1>9, <1>10, <1>11 DEF PoolInv

LEMMA KeepsComplete ==
  ASSUME PoolInv, NEW w \in Worker, Complete(w)
  PROVE  PoolInv'
<1>1. TypeOK'
  BY ItemsIsNat, ThreadsIsNat
     DEF PoolInv, Complete, Unwind, GoTo, TypeOK, WorkersOfScope, Behind, Item, Worker, Spawned, None, Ended
<1>2. BegunOnce'
  BY ItemsIsNat, ThreadsIsNat
     DEF PoolInv, Complete, Unwind, GoTo, TypeOK, BegunOnce, Behind, WorkersOfScope, Item, Worker, Spawned, None, Ended
<1>3. WorkersOfScope'
  BY ItemsIsNat, ThreadsIsNat
     DEF PoolInv, Complete, Unwind, GoTo, TypeOK, WorkersOfScope, Behind, Item, Worker, Spawned, None, Ended
<1>4. Behind'
  BY ItemsIsNat, ThreadsIsNat
     DEF PoolInv, Complete, Unwind, GoTo, TypeOK, WorkersOfScope, Behind, Item, Worker, Spawned, None, Ended
<1>5. PastEnd'
  BY ItemsIsNat, ThreadsIsNat
     DEF PoolInv, Complete, Unwind, GoTo, TypeOK, WorkersOfScope, PastEnd, Reported, Item, Worker, Spawned, None, Ended
<1>6. Accounted'
  BY ItemsIsNat, ThreadsIsNat
     DEF PoolInv, Complete, Unwind, GoTo, TypeOK, WorkersOfScope, Accounted, Reported, Behind, Item, Worker, Spawned, None, Ended
<1>7. Reported'
  BY ItemsIsNat, ThreadsIsNat
     DEF PoolInv, Complete, Unwind, GoTo, TypeOK, WorkersOfScope, Reported, Panicked, Item, Worker, Spawned, None, Ended
<1>8. Caused'
  BY ItemsIsNat, ThreadsIsNat
     DEF PoolInv, Complete, Unwind, GoTo, TypeOK, WorkersOfScope, Caused, Reported, Panicked, Item, Worker, Spawned, None, Ended
<1>9. Late'
  BY ItemsIsNat, ThreadsIsNat
     DEF PoolInv, Complete, Unwind, GoTo, TypeOK, WorkersOfScope, Late, Caused, Stopping, Item, Worker, Spawned, None, Ended
<1>10. ReturnsComplete'
  BY ItemsIsNat, ThreadsIsNat
     DEF PoolInv, Complete, Unwind, GoTo, TypeOK, WorkersOfScope, Accounted, PastEnd, Reported, ReturnsComplete, Behind, Item, Worker, Spawned, None, Ended
<1>11. CancelledFromOutside'
  BY ItemsIsNat, ThreadsIsNat
     DEF PoolInv, Complete, Unwind, GoTo, TypeOK, WorkersOfScope, Caused, Reported, CancelledFromOutside, Panicked, Item, Worker, Spawned, None, Ended
<1> QED BY <1>1, <1>2, <1>3, <1>4, <1>5, <1>6, <1>7, <1>8, <1>9, <1>10, <1>11 DEF PoolInv

LEMMA KeepsPanic ==
  ASSUME PoolInv, NEW w \in Worker, Panic(w)
  PROVE  PoolInv'
<1>1. TypeOK'
  BY ItemsIsNat, ThreadsIsNat
     DEF PoolInv, Panic, Unwind, GoTo, TypeOK, WorkersOfScope, Behind, Item, Worker, Spawned, None, Ended
<1>2. BegunOnce'
  BY ItemsIsNat, ThreadsIsNat
     DEF PoolInv, Panic, Unwind, GoTo, TypeOK, BegunOnce, Behind, WorkersOfScope, Item, Worker, Spawned, None, Ended
<1>3. WorkersOfScope'
  BY ItemsIsNat, ThreadsIsNat
     DEF PoolInv, Panic, Unwind, GoTo, TypeOK, WorkersOfScope, Behind, Item, Worker, Spawned, None, Ended
<1>4. Behind'
  BY ItemsIsNat, ThreadsIsNat
     DEF PoolInv, Panic, Unwind, GoTo, TypeOK, WorkersOfScope, Behind, Item, Worker, Spawned, None, Ended
<1>5. PastEnd'
  BY ItemsIsNat, ThreadsIsNat
     DEF PoolInv, Panic, Unwind, GoTo, TypeOK, WorkersOfScope, PastEnd, Reported, Item, Worker, Spawned, None, Ended
<1>6. Accounted'
  BY ItemsIsNat, ThreadsIsNat
     DEF PoolInv, Panic, Unwind, GoTo, TypeOK, WorkersOfScope, Accounted, Reported, Behind, Item, Worker, Spawned, None, Ended
<1>7. Reported'
  BY ItemsIsNat, ThreadsIsNat
     DEF PoolInv, Panic, Unwind, GoTo, TypeOK, WorkersOfScope, Reported, Panicked, Item, Worker, Spawned, None, Ended
<1>8. Caused'
  BY ItemsIsNat, ThreadsIsNat
     DEF PoolInv, Panic, Unwind, GoTo, TypeOK, WorkersOfScope, Caused, Reported, Panicked, Item, Worker, Spawned, None, Ended
<1>9. Late'
  BY ItemsIsNat, ThreadsIsNat
     DEF PoolInv, Panic, Unwind, GoTo, TypeOK, WorkersOfScope, Late, Caused, Stopping, Item, Worker, Spawned, None, Ended
<1>10. ReturnsComplete'
  BY ItemsIsNat, ThreadsIsNat
     DEF PoolInv, Panic, Unwind, GoTo, TypeOK, WorkersOfScope, Accounted, PastEnd, Reported, ReturnsComplete, Behind, Item, Worker, Spawned, None, Ended
<1>11. CancelledFromOutside'
  BY ItemsIsNat, ThreadsIsNat
     DEF PoolInv, Panic, Unwind, GoTo, TypeOK, WorkersOfScope, Caused, Reported, CancelledFromOutside, Panicked, Item, Worker, Spawned, None, Ended
<1> QED BY <1>1, <1>2, <1>3, <1>4, <1>5, <1>6, <1>7, <1>8, <1>9, <1>10, <1>11 DEF PoolInv

LEMMA KeepsInterrupted ==
  ASSUME PoolInv, NEW w \in Worker, Interrupted(w)
  PROVE  PoolInv'
<1>1. TypeOK'
  BY ItemsIsNat, ThreadsIsNat
     DEF PoolInv, Interrupted, Unwind, GoTo, TypeOK, WorkersOfScope, Behind, Item, Worker, Spawned, None, Ended
<1>2. BegunOnce'
  BY ItemsIsNat, ThreadsIsNat
     DEF PoolInv, Interrupted, Unwind, GoTo, TypeOK, BegunOnce, Behind, WorkersOfScope, Item, Worker, Spawned, None, Ended
<1>3. WorkersOfScope'
  BY ItemsIsNat, ThreadsIsNat
     DEF PoolInv, Interrupted, Unwind, GoTo, TypeOK, WorkersOfScope, Behind, Item, Worker, Spawned, None, Ended
<1>4. Behind'
  BY ItemsIsNat, ThreadsIsNat
     DEF PoolInv, Interrupted, Unwind, GoTo, TypeOK, WorkersOfScope, Behind, Item, Worker, Spawned, None, Ended
<1>5. PastEnd'
  BY ItemsIsNat, ThreadsIsNat
     DEF PoolInv, Interrupted, Unwind, GoTo, TypeOK, WorkersOfScope, PastEnd, Reported, Item, Worker, Spawned, None, Ended
<1>6. Accounted'
  BY ItemsIsNat, ThreadsIsNat
     DEF PoolInv, Interrupted, Unwind, GoTo, TypeOK, WorkersOfScope, Accounted, Reported, Behind, Item, Worker, Spawned, None, Ended
<1>7. Reported'
  BY ItemsIsNat, ThreadsIsNat
     DEF PoolInv, Interrupted, Unwind, GoTo, TypeOK, WorkersOfScope, Reported, Panicked, Item, Worker, Spawned, None, Ended
<1>8. Caused'
  BY ItemsIsNat, ThreadsIsNat
     DEF PoolInv, Interrupted, Unwind, GoTo, TypeOK, WorkersOfScope, Caused, Reported, Panicked, Item, Worker, Spawned, None, Ended
<1>9. Late'
  BY ItemsIsNat, ThreadsIsNat
     DEF PoolInv, Interrupted, Unwind, GoTo, TypeOK, WorkersOfScope, Late, Caused, Stopping, Item, Worker, Spawned, None, Ended
<1>10. ReturnsComplete'
  BY ItemsIsNat, ThreadsIsNat
     DEF PoolInv, Interrupted, Unwind, GoTo, TypeOK, WorkersOfScope, Accounted, PastEnd, Reported, ReturnsComplete, Behind, Item, Worker, Spawned, None, Ended
<1>11. CancelledFromOutside'
  BY ItemsIsNat, ThreadsIsNat
     DEF PoolInv, Interrupted, Unwind, GoTo, TypeOK, WorkersOfScope, Caused, Reported, CancelledFromOutside, Panicked, Item, Worker, Spawned, None, Ended
<1> QED BY <1>1, <1>2, <1>3, <1>4, <1>5, <1>6, <1>7, <1>8, <1>9, <1>10, <1>11 DEF PoolInv

LEMMA KeepsPropagated ==
  ASSUME PoolInv, NEW w \in Worker, Propagated(w)
  PROVE  PoolInv'
<1>1. TypeOK'
  BY ItemsIsNat, ThreadsIsNat
     DEF PoolInv, Propagated, Unwind, GoTo, TypeOK, WorkersOfScope, Behind, Item, Worker, Spawned, None, Ended
<1>2. BegunOnce'
  BY ItemsIsNat, ThreadsIsNat
     DEF PoolInv, Propagated, Unwind, GoTo, TypeOK, BegunOnce, Behind, WorkersOfScope, Item, Worker, Spawned, None, Ended
<1>3. WorkersOfScope'
  BY ItemsIsNat, ThreadsIsNat
     DEF PoolInv, Propagated, Unwind, GoTo, TypeOK, WorkersOfScope, Behind, Item, Worker, Spawned, None, Ended
<1>4. Behind'
  BY ItemsIsNat, ThreadsIsNat
     DEF PoolInv, Propagated, Unwind, GoTo, TypeOK, WorkersOfScope, Behind, Item, Worker, Spawned, None, Ended
<1>5. PastEnd'
  BY ItemsIsNat, ThreadsIsNat
     DEF PoolInv, Propagated, Unwind, GoTo, TypeOK, WorkersOfScope, PastEnd, Reported, Item, Worker, Spawned, None, Ended
<1>6. Accounted'
  BY ItemsIsNat, ThreadsIsNat
     DEF PoolInv, Propagated, Unwind, GoTo, TypeOK, WorkersOfScope, Accounted, Reported, Behind, Item, Worker, Spawned, None, Ended
<1>7. Reported'
  BY ItemsIsNat, ThreadsIsNat
     DEF PoolInv, Propagated, Unwind, GoTo, TypeOK, WorkersOfScope, Reported, Panicked, Item, Worker, Spawned, None, Ended
<1>8. Caused'
  BY ItemsIsNat, ThreadsIsNat
     DEF PoolInv, Propagated, Unwind, GoTo, TypeOK, WorkersOfScope, Caused, Reported, Panicked, Item, Worker, Spawned, None, Ended
<1>9. Late'
  BY ItemsIsNat, ThreadsIsNat
     DEF PoolInv, Propagated, Unwind, GoTo, TypeOK, WorkersOfScope, Late, Caused, Stopping, Item, Worker, Spawned, None, Ended
<1>10. ReturnsComplete'
  BY ItemsIsNat, ThreadsIsNat
     DEF PoolInv, Propagated, Unwind, GoTo, TypeOK, WorkersOfScope, Accounted, PastEnd, Reported, ReturnsComplete, Behind, Item, Worker, Spawned, None, Ended
<1>11. CancelledFromOutside'
  BY ItemsIsNat, ThreadsIsNat
     DEF PoolInv, Propagated, Unwind, GoTo, TypeOK, WorkersOfScope, Caused, Reported, CancelledFromOutside, Panicked, Item, Worker, Spawned, None, Ended
<1> QED BY <1>1, <1>2, <1>3, <1>4, <1>5, <1>6, <1>7, <1>8, <1>9, <1>10, <1>11 DEF PoolInv

LEMMA KeepsLast ==
  ASSUME PoolInv, NEW w \in Worker, Last(w)
  PROVE  PoolInv'
<1>1. TypeOK'
  <2>1. CASE cancelled
    BY <2>1, ItemsIsNat, ThreadsIsNat
       DEF PoolInv, Last, Unwind, GoTo, TypeOK, WorkersOfScope, Behind, Item, Worker, Spawned, None, Ended
  <2>2. CASE ~cancelled
    BY <2>2, ItemsIsNat, ThreadsIsNat
       DEF PoolInv, Last, Unwind, GoTo, TypeOK, WorkersOfScope, Behind, Item, Worker, Spawned, None, Ended
  <2> QED BY <2>1, <2>2
<1>2. BegunOnce'
  <2>1. \A v \in Worker : pc'[v] = "work" => pc[v] = "work"
    BY DEF Last, Unwind, GoTo, PoolInv, TypeOK
  <2>2. UNCHANGED <<item, done>>
    BY DEF Last, Unwind
  <2> QED BY <2>1, <2>2 DEF PoolInv, BegunOnce
<1>3. WorkersOfScope'
  <2>1. CASE cancelled
    BY <2>1, ItemsIsNat, ThreadsIsNat
       DEF PoolInv, Last, Unwind, GoTo, TypeOK, WorkersOfScope, Behind, Item, Worker, Spawned, None, Ended
  <2>2. CASE ~cancelled
    BY <2>2, ItemsIsNat, ThreadsIsNat
       DEF PoolInv, Last, Unwind, GoTo, TypeOK, WorkersOfScope, Behind, Item, Worker, Spawned, None, Ended
  <2> QED BY <2>1, <2>2
<1>4. Behind'
  <2>1. CASE cancelled
    BY <2>1, ItemsIsNat, ThreadsIsNat
       DEF PoolInv, Last, Unwind, GoTo, TypeOK, WorkersOfScope, Behind, Item, Worker, Spawned, None, Ended
  <2>2. CASE ~cancelled
    BY <2>2, ItemsIsNat, ThreadsIsNat
       DEF PoolInv, Last, Unwind, GoTo, TypeOK, WorkersOfScope, Behind, Item, Worker, Spawned, None, Ended
  <2> QED BY <2>1, <2>2
<1>5. PastEnd'
  <2>1. CASE cancelled
    BY <2>1, ItemsIsNat, ThreadsIsNat
       DEF PoolInv, Last, Unwind, GoTo, TypeOK, WorkersOfScope, PastEnd, Reported, Item, Worker, Spawned, None, Ended
  <2>2. CASE ~cancelled
    BY <2>2, ItemsIsNat, ThreadsIsNat
       DEF PoolInv, Last, Unwind, GoTo, TypeOK, WorkersOfScope, PastEnd, Reported, Item, Worker, Spawned, None, Ended
  <2> QED BY <2>1, <2>2
<1>6. Accounted'
  <2>1. \A v \in Worker :
          (pc[v] = "work" => pc'[v] = "work") /\ (error[v] # None => error'[v] # None)
    BY DEF Last, Unwind, GoTo, PoolInv, TypeOK, None
  <2>2. UNCHANGED <<item, done, next, caller>>
    BY DEF Last, Unwind
  <2>3. SUFFICES ASSUME caller = "scope", NEW i \in Item, i < next, i \notin done
                 PROVE  \E v \in Worker : item[v] = i /\ (pc'[v] = "work" \/ error'[v] # None)
    BY <2>2 DEF Accounted
  <2>4. PICK v \in Worker : item[v] = i /\ (pc[v] = "work" \/ error[v] # None)
    BY <2>3 DEF PoolInv, Accounted
  <2> QED BY <2>1, <2>4
<1>7. Reported'
  <2>1. CASE cancelled
    BY <2>1, ItemsIsNat, ThreadsIsNat
       DEF PoolInv, Last, Unwind, GoTo, TypeOK, WorkersOfScope, Reported, Panicked, Item, Worker, Spawned, None, Ended
  <2>2. CASE ~cancelled
    BY <2>2, ItemsIsNat, ThreadsIsNat
       DEF PoolInv, Last, Unwind, GoTo, TypeOK, WorkersOfScope, Reported, Panicked, Item, Worker, Spawned, None, Ended
  <2> QED BY <2>1, <2>2
<1>8. Caused'
  <2>1. CASE cancelled
    BY <2>1, ItemsIsNat, ThreadsIsNat
       DEF PoolInv, Last, Unwind, GoTo, TypeOK, WorkersOfScope, Caused, Reported, Panicked, Item, Worker, Spawned, None, Ended
  <2>2. CASE ~cancelled
    BY <2>2, ItemsIsNat, ThreadsIsNat
       DEF PoolInv, Last, Unwind, GoTo, TypeOK, WorkersOfScope, Caused, Reported, Panicked, Item, Worker, Spawned, None, Ended
  <2> QED BY <2>1, <2>2
<1>9. Late'
  <2>1. CASE cancelled
    BY <2>1, ItemsIsNat, ThreadsIsNat
       DEF PoolInv, Last, Unwind, GoTo, TypeOK, WorkersOfScope, Late, Caused, Stopping, Item, Worker, Spawned, None, Ended
  <2>2. CASE ~cancelled
    BY <2>2, ItemsIsNat, ThreadsIsNat
       DEF PoolInv, Last, Unwind, GoTo, TypeOK, WorkersOfScope, Late, Caused, Stopping, Item, Worker, Spawned, None, Ended
  <2> QED BY <2>1, <2>2
<1>10. ReturnsComplete'
  <2>1. CASE cancelled
    BY <2>1, ItemsIsNat, ThreadsIsNat
       DEF PoolInv, Last, Unwind, GoTo, TypeOK, WorkersOfScope, Accounted, PastEnd, Reported, ReturnsComplete, Behind, Item, Worker, Spawned, None, Ended
  <2>2. CASE ~cancelled
    BY <2>2, ItemsIsNat, ThreadsIsNat
       DEF PoolInv, Last, Unwind, GoTo, TypeOK, WorkersOfScope, Accounted, PastEnd, Reported, ReturnsComplete, Behind, Item, Worker, Spawned, None, Ended
  <2> QED BY <2>1, <2>2
<1>11. CancelledFromOutside'
  <2>1. CASE cancelled
    BY <2>1, ItemsIsNat, ThreadsIsNat
       DEF PoolInv, Last, Unwind, GoTo, TypeOK, WorkersOfScope, Caused, Reported, CancelledFromOutside, Panicked, Item, Worker, Spawned, None, Ended
  <2>2. CASE ~cancelled
    BY <2>2, ItemsIsNat, ThreadsIsNat
       DEF PoolInv, Last, Unwind, GoTo, TypeOK, WorkersOfScope, Caused, Reported, CancelledFromOutside, Panicked, Item, Worker, Spawned, None, Ended
  <2> QED BY <2>1, <2>2
<1> QED BY <1>1, <1>2, <1>3, <1>4, <1>5, <1>6, <1>7, <1>8, <1>9, <1>10, <1>11 DEF PoolInv

LEMMA KeepsStopSiblings ==
  ASSUME PoolInv, NEW w \in Worker, StopSiblings(w)
  PROVE  PoolInv'
<1>1. TypeOK'
  BY ItemsIsNat, ThreadsIsNat
     DEF PoolInv, StopSiblings, Unwind, GoTo, TypeOK, WorkersOfScope, Behind, Item, Worker, Spawned, None, Ended
<1>2. BegunOnce'
  BY ItemsIsNat, ThreadsIsNat
     DEF PoolInv, StopSiblings, Unwind, GoTo, TypeOK, BegunOnce, Behind, WorkersOfScope, Item, Worker, Spawned, None, Ended
<1>3. WorkersOfScope'
  BY ItemsIsNat, ThreadsIsNat
     DEF PoolInv, StopSiblings, Unwind, GoTo, TypeOK, WorkersOfScope, Behind, Item, Worker, Spawned, None, Ended
<1>4. Behind'
  BY ItemsIsNat, ThreadsIsNat
     DEF PoolInv, StopSiblings, Unwind, GoTo, TypeOK, WorkersOfScope, Behind, Item, Worker, Spawned, None, Ended
<1>5. PastEnd'
  BY ItemsIsNat, ThreadsIsNat
     DEF PoolInv, StopSiblings, Unwind, GoTo, TypeOK, WorkersOfScope, PastEnd, Reported, Item, Worker, Spawned, None, Ended
<1>6. Accounted'
  BY ItemsIsNat, ThreadsIsNat
     DEF PoolInv, StopSiblings, Unwind, GoTo, TypeOK, WorkersOfScope, Accounted, Reported, Behind, Item, Worker, Spawned, None, Ended
<1>7. Reported'
  BY ItemsIsNat, ThreadsIsNat
     DEF PoolInv, StopSiblings, Unwind, GoTo, TypeOK, WorkersOfScope, Reported, Panicked, Item, Worker, Spawned, None, Ended
<1>8. Caused'
  BY ItemsIsNat, ThreadsIsNat
     DEF PoolInv, StopSiblings, Unwind, GoTo, TypeOK, WorkersOfScope, Caused, Reported, Panicked, Item, Worker, Spawned, None, Ended
<1>9. Late'
  BY ItemsIsNat, ThreadsIsNat
     DEF PoolInv, StopSiblings, Unwind, GoTo, TypeOK, WorkersOfScope, Late, Caused, Stopping, Item, Worker, Spawned, None, Ended
<1>10. ReturnsComplete'
  BY ItemsIsNat, ThreadsIsNat
     DEF PoolInv, StopSiblings, Unwind, GoTo, TypeOK, WorkersOfScope, Accounted, PastEnd, Reported, ReturnsComplete, Behind, Item, Worker, Spawned, None, Ended
<1>11. CancelledFromOutside'
  BY ItemsIsNat, ThreadsIsNat
     DEF PoolInv, StopSiblings, Unwind, GoTo, TypeOK, WorkersOfScope, Caused, Reported, CancelledFromOutside, Panicked, Item, Worker, Spawned, None, Ended
<1> QED BY <1>1, <1>2, <1>3, <1>4, <1>5, <1>6, <1>7, <1>8, <1>9, <1>10, <1>11 DEF PoolInv

LEMMA KeepsRecord ==
  ASSUME PoolInv, NEW w \in Worker, Record(w)
  PROVE  PoolInv'
<1>1. TypeOK'
  BY ItemsIsNat, ThreadsIsNat
     DEF PoolInv, Record, Unwind, GoTo, TypeOK, WorkersOfScope, Behind, Item, Worker, Spawned, None, Ended
<1>2. BegunOnce'
  BY ItemsIsNat, ThreadsIsNat
     DEF PoolInv, Record, Unwind, GoTo, TypeOK, BegunOnce, Behind, WorkersOfScope, Item, Worker, Spawned, None, Ended
<1>3. WorkersOfScope'
  BY ItemsIsNat, ThreadsIsNat
     DEF PoolInv, Record, Unwind, GoTo, TypeOK, WorkersOfScope, Behind, Item, Worker, Spawned, None, Ended
<1>4. Behind'
  BY ItemsIsNat, ThreadsIsNat
     DEF PoolInv, Record, Unwind, GoTo, TypeOK, WorkersOfScope, Behind, Item, Worker, Spawned, None, Ended
<1>5. PastEnd'
  BY ItemsIsNat, ThreadsIsNat
     DEF PoolInv, Record, Unwind, GoTo, TypeOK, WorkersOfScope, PastEnd, Reported, Item, Worker, Spawned, None, Ended
<1>6. Accounted'
  BY ItemsIsNat, ThreadsIsNat
     DEF PoolInv, Record, Unwind, GoTo, TypeOK, WorkersOfScope, Accounted, Reported, Behind, Item, Worker, Spawned, None, Ended
<1>7. Reported'
  BY ItemsIsNat, ThreadsIsNat
     DEF PoolInv, Record, Unwind, GoTo, TypeOK, WorkersOfScope, Reported, Panicked, Item, Worker, Spawned, None, Ended
<1>8. Caused'
  BY ItemsIsNat, ThreadsIsNat
     DEF PoolInv, Record, Unwind, GoTo, TypeOK, WorkersOfScope, Caused, Reported, Panicked, Item, Worker, Spawned, None, Ended
<1>9. Late'
  BY ItemsIsNat, ThreadsIsNat
     DEF PoolInv, Record, Unwind, GoTo, TypeOK, WorkersOfScope, Late, Caused, Stopping, Item, Worker, Spawned, None, Ended
<1>10. ReturnsComplete'
  BY ItemsIsNat, ThreadsIsNat
     DEF PoolInv, Record, Unwind, GoTo, TypeOK, WorkersOfScope, Accounted, PastEnd, Reported, ReturnsComplete, Behind, Item, Worker, Spawned, None, Ended
<1>11. CancelledFromOutside'
  BY ItemsIsNat, ThreadsIsNat
     DEF PoolInv, Record, Unwind, GoTo, TypeOK, WorkersOfScope, Caused, Reported, CancelledFromOutside, Panicked, Item, Worker, Spawned, None, Ended
<1> QED BY <1>1, <1>2, <1>3, <1>4, <1>5, <1>6, <1>7, <1>8, <1>9, <1>10, <1>11 DEF PoolInv

LEMMA Keeps ==
  ASSUME PoolInv, [Next]_vars
  PROVE  PoolInv'
<1>1. CASE UNCHANGED vars
  BY <1>1 DEF vars, PoolInv, TypeOK, BegunOnce, WorkersOfScope, Behind, PastEnd, Accounted, Reported, Caused,
              Late, ReturnsComplete, CancelledFromOutside, Panicked
<1>2. CASE Begin BY <1>2, KeepsBegin
<1>3. CASE CancelOutside BY <1>3, KeepsCancelOutside
<1>4. CASE Join BY <1>4, KeepsJoin
<1>5. CASE Alone
  BY <1>5, KeepsCheckAlone, KeepsCompleteAlone, KeepsInterruptedAlone, KeepsPanicAlone DEF Alone
<1>6. CASE \E w \in Worker : Work(w)
  BY <1>6, KeepsCheck, KeepsTake, KeepsComplete, KeepsPanic, KeepsInterrupted, KeepsPropagated,
     KeepsLast, KeepsStopSiblings, KeepsRecord DEF Work
<1> QED BY <1>1, <1>2, <1>3, <1>4, <1>5, <1>6 DEF Next

\* What has been given out, done and reported is always accounted for.
THEOREM Invariant == Spec => []PoolInv
  BY Initially, Keeps, PTL DEF Spec

\* Every variable keeps its type; in particular no worker is given an item past
\* the end (the counter itself runs past it).
THEOREM Typing == Spec => []TypeOK
<1>1. PoolInv => TypeOK BY DEF PoolInv
<1> QED BY <1>1, Invariant, PTL

\* A call that returns normally has done every item (parallel, lines 162-202).
THEOREM ReturnsAll == Spec => []ReturnsComplete
<1>1. PoolInv => ReturnsComplete BY DEF PoolInv
<1> QED BY <1>1, Invariant, PTL

\* The shared counter gives each item to one worker.
THEOREM Once == Spec => []BegunOnce
<1>1. PoolInv => BegunOnce BY DEF PoolInv
<1> QED BY <1>1, Invariant, PTL

\* After a failure or a cancellation a worker begins at most one more item.
THEOREM Stops == Spec => []StopsDispatch
<1>1. PoolInv => StopsDispatch BY DEF PoolInv, Late, StopsDispatch, TypeOK
<1> QED BY <1>1, Invariant, PTL

\* A panic of a job is what the caller sees, in whatever order failures are recorded.
THEOREM Panics == Spec => []PanicsPrevail
<1>1. PoolInv => PanicsPrevail BY DEF PoolInv, Reported, PanicsPrevail, Panicked
<1> QED BY <1>1, Invariant, PTL

\* The caller is told of a cancellation only if it was cancelled from outside.
THEOREM Cancellations == Spec => []CancelledFromOutside
<1>1. PoolInv => CancelledFromOutside BY DEF PoolInv
<1> QED BY <1>1, Invariant, PTL

-----------------------------------------------------------------------------
(* The pool implements ForEach *)

LEMMA StartsAsPromised == Init => Promise!Init
  BY DEF Init, Promise!Init, Worker, None, Ended

LEMMA StepsAsPromised ==
  ASSUME PoolInv, [Next]_vars
  PROVE  [Promise!Next]_(Promise!vars)
<1> DEFINE completed == done
           panicked == caller \in {"panicking", "panicked"} \/ \E w \in Worker : error[w] = "panicked"
           outcome == IF caller \in Ended THEN caller ELSE "running"
<1>1. CASE UNCHANGED vars
  BY <1>1 DEF vars, Promise!vars
<1>2. CASE Begin
  BY <1>2 DEF Begin, Promise!vars, Ended
<1>3. CASE CancelOutside
  BY <1>3 DEF CancelOutside, Promise!vars, Promise!Next, Promise!Cancel, Ended
<1>4. CASE Join
  <2>1. PoolInv' BY <1>4, KeepsJoin
  <2>2. Promise!Return
    BY <1>4, <2>1 DEF Join, Promise!Return, Ended, PoolInv, TypeOK, Reported, Panicked,
       ReturnsComplete, CancelledFromOutside, None
  <2> QED BY <2>2 DEF Promise!Next
<1>5. CASE Alone
  <2>1. CASE CheckAlone
    <3>1. PoolInv' BY <2>1, KeepsCheckAlone
    <3> QED
      BY <2>1, <3>1 DEF CheckAlone, Promise!vars, Promise!Next, Promise!Return, Ended, PoolInv,
         ReturnsComplete, CancelledFromOutside, WorkersOfScope, None
  <2>2. CASE CompleteAlone
    <3>1. next \in Item \ done
      BY <2>2, ItemsIsNat DEF CompleteAlone, PoolInv, WorkersOfScope, Behind, TypeOK, Item
    <3> QED
      BY <2>2, <3>1 DEF CompleteAlone, Promise!vars, Promise!Next, Promise!Complete, Ended
  <2>3. CASE InterruptedAlone
    <3>1. PoolInv' BY <2>3, KeepsInterruptedAlone
    <3> QED
      BY <2>3, <3>1 DEF InterruptedAlone, Promise!Next, Promise!Return, Ended, PoolInv,
         CancelledFromOutside, WorkersOfScope, None
  <2>4. CASE PanicAlone
    BY <2>4 DEF PanicAlone, Promise!vars, Promise!Next, Promise!Panic, Promise!Return, Ended
  <2> QED BY <1>5, <2>1, <2>2, <2>3, <2>4 DEF Alone
<1>6. CASE \E w \in Worker : Work(w)
  <2> PICK w \in Worker : Work(w) BY <1>6
  <2>1. pc[w] # "ended" /\ caller = "scope"
    BY DEF Work, Check, Take, Complete, Panic, Interrupted, Propagated, Last, StopSiblings,
           Record, PoolInv, WorkersOfScope
  <2>2. CASE Complete(w)
    BY <2>1, <2>2 DEF Complete, GoTo, Promise!vars, Promise!Next, Promise!Complete, Ended, PoolInv,
       Behind, BegunOnce
  <2>3. CASE Panic(w)
    BY <2>1, <2>3 DEF Panic, Unwind, GoTo, Promise!vars, Promise!Next, Promise!Panic, Ended,
       PoolInv, TypeOK
  <2>4. CASE Check(w)
    BY <2>1, <2>4 DEF Check, Unwind, GoTo, Promise!vars, Ended, PoolInv, TypeOK, Reported, None
  <2>5. CASE Interrupted(w)
    BY <2>1, <2>5 DEF Interrupted, Unwind, GoTo, Promise!vars, Ended, PoolInv, TypeOK, Reported, None
  <2>6. CASE Propagated(w)
    BY <2>1, <2>6 DEF Propagated, Unwind, GoTo, Promise!vars, Ended, PoolInv, TypeOK, Reported, None
  <2>7. CASE Last(w)
    BY <2>1, <2>7 DEF Last, Unwind, GoTo, Promise!vars, Ended, PoolInv, TypeOK, Reported, None
  <2>8. CASE Take(w) \/ StopSiblings(w) \/ Record(w)
    BY <2>8 DEF Take, StopSiblings, Record, GoTo, Promise!vars
  <2> QED BY <2>2, <2>3, <2>4, <2>5, <2>6, <2>7, <2>8 DEF Work
<1> QED BY <1>1, <1>2, <1>3, <1>4, <1>5, <1>6 DEF Next

\* Whatever the schedule, for_each does what ForEach says: on threads or on the
\* caller, with panics, cancellations and propagated panics in any order.
THEOREM Implements == Spec => ImplementsForEach
  BY Invariant, StartsAsPromised, StepsAsPromised, PTL DEF Spec, ImplementsForEach, Promise!Spec
=============================================================================
