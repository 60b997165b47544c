------------------------------- MODULE ForEach -------------------------------
(***************************************************************************)
(* What Execution::for_each promises its caller, however the jobs are      *)
(* spread over threads: no item is worked on twice, a return says that all *)
(* items are done, a panic of a job is never taken for a cancellation, a   *)
(* cancellation is reported only if somebody asked for one, and nothing    *)
(* happens once the call is over.                                          *)
(***************************************************************************)
CONSTANT Item

VARIABLES completed, panicked, cancelled, outcome

vars == <<completed, panicked, cancelled, outcome>>

Init ==
  /\ completed = {}
  /\ panicked = FALSE
  /\ cancelled = FALSE
  /\ outcome = "running"

Complete ==
  /\ outcome = "running"
  /\ \E i \in Item \ completed : completed' = completed \cup {i}
  /\ UNCHANGED <<panicked, cancelled, outcome>>

Panic ==
  /\ outcome = "running"
  /\ panicked' = TRUE
  /\ UNCHANGED <<completed, cancelled, outcome>>

Cancel ==
  /\ outcome = "running"
  /\ cancelled' = TRUE
  /\ UNCHANGED <<completed, panicked, outcome>>

Return ==
  /\ outcome = "running"
  /\ \/ outcome' = "ok" /\ completed = Item /\ ~panicked
     \/ outcome' = "cancelled" /\ cancelled /\ ~panicked
     \/ outcome' = "panicked" /\ panicked
  /\ UNCHANGED <<completed, panicked, cancelled>>

Next == Complete \/ Panic \/ Cancel \/ Return

Spec == Init /\ [][Next]_vars
=============================================================================
