--------------------------- MODULE LspScheduleInv ---------------------------
(***************************************************************************)
(* The inductive invariant behind the theorems of LspScheduleProofs.  That *)
(* only current results leave the server rests on one fact about the       *)
(* channel: an envelope that opened a revision carries a stamp above those *)
(* of all the envelopes before it, so that a worker whose revision is the  *)
(* schedule's has taken every change there is.                             *)
(***************************************************************************)
EXTENDS LspSchedule

\* Stamps never fall along the channel, and a change raises them.
Ordered ==
    /\ workerRevision <= revision
    /\ \A i \in DOMAIN receive :
          /\ workerRevision <= receive[i].revision
          /\ receive[i].revision <= revision
          /\ receive[i].kind \in Change => workerRevision < receive[i].revision
    /\ \A i, j \in DOMAIN receive : i < j =>
          /\ receive[i].revision <= receive[j].revision
          /\ receive[j].kind \in Change => receive[i].revision < receive[j].revision

\* The worker's text is the latest one, unless the change that made it latest
\* is still in the channel.
Brings(i) == receive[i].kind \in Change /\ receive[i].changed
Texts ==
    /\ applied <= workerRevision /\ latest <= revision
    /\ \A i \in DOMAIN receive : Brings(i) => receive[i].revision <= latest
    /\ \/ shutdown \/ applied = latest
       \/ \E i \in DOMAIN receive : Brings(i) /\ receive[i].revision = latest

\* Work is begun only before a shutdown, and the analysis it goes on from is
\* that of the worker's text wherever a result is made of it.
Fresh ==
    /\ job # "none" \/ pc = "quiet" => ~shutdown
    /\ ~dirty => analysed = applied
    /\ background => checked = analysed
    /\ pc = "rendered" => ~dirty
    /\ pc = "answering" => TextOnly \/ ~dirty
    /\ outcome = "ok" =>
          /\ pc \in {"finish", "end", "respond", "release"} /\ job = "answer"
          /\ TextOnly \/ ~dirty

\* Each registered request is in one place, and those withdrawn are marked.
Registered ==
    /\ RegistrationsAreLive
    /\ \A i, j \in DOMAIN receive :
          receive[i].kind \in Method /\ receive[j].kind \in Method
          /\ receive[i].id = receive[j].id => i = j
    /\ at # Null => at.id \notin Queued
    /\ pending \subseteq asked /\ withdrawn \subseteq asked
    /\ withdrawn \intersect pending \subseteq cancelled

\* A worker that finds the channel empty is up to date with the schedule, and
\* whatever cancelled work of its own has left an envelope there.
Stamp == IF receive = <<>> THEN workerRevision ELSE receive[Len(receive)].revision
WakesUp ==
    /\ Stamp = revision
    /\ active # Null => (active.id = Null <=> job # "answer")
    /\ active # Null /\ active.id = Null /\ active.cancelled => receive # <<>>

\* What was published for the worker's revision is what the client is shown.
Published ==
    /\ published # Null => published[1] <= workerRevision
    /\ published # Null /\ dirty => published[1] < workerRevision
    /\ published # Null /\ documents /\ published[1] = workerRevision =>
          shown = [text |-> analysed, full |-> published[2]]

\* What the worker has done when nothing is left to take: refreshed, checked,
\* published, in this order.
AtEnd == pc \in {"publishing", "rendered", "end"}
Refreshed ==
    \/ pc \in {"check?", "quiet"} \/ job = "background"
    \/ job = "refresh" /\ AtEnd
Checked ==
    \/ pc \in {"publish?", "recv"} \/ job = "retry"
    \/ job = "background" /\ AtEnd
Settled ==
    \/ pc = "recv"
    \/ job = "retry" /\ pc = "end"
Done ==
    receive = <<>> /\ Ready =>
        /\ Refreshed \/ Checked => ~dirty
        /\ Checked => background
        /\ Settled => published = <<workerRevision, background>>

ScheduleInv == ObsoleteWorkIsCancelled /\ Ordered /\ Texts /\ Fresh /\ Registered
OwedInv     == WakesUp /\ Published /\ Done
=============================================================================
