---------------------------- MODULE LspSchedule ----------------------------
(***************************************************************************)
(* The language server's newest-revision scheduling (cli/src/lsp.rs).      *)
(*                                                                         *)
(* Three threads share one Schedule behind a mutex and one unbounded       *)
(* channel.  The router accepts the client's messages and the watcher      *)
(* reports changed files: both stamp what they forward with the revision   *)
(* and cancel the analysis it supersedes.  The worker takes envelopes in   *)
(* order and, between them, refreshes, checks in the background and        *)
(* publishes.  Each critical section is one action; work done outside the  *)
(* mutex is a step of its own, and cancellation is noticed only at the     *)
(* checkpoints the code has.                                               *)
(*                                                                         *)
(* The text of the project is abstracted to the revision that last changed *)
(* it: latest as the client and the disk have it, applied as the worker's  *)
(* notifications left it, analysed as the last refresh saw it, checked as  *)
(* the last background check saw it, shown as the client was told.  One    *)
(* document stands for all the open ones: the schedule asks only whether   *)
(* there is any.                                                           *)
(***************************************************************************)
EXTENDS Naturals, Sequences

CONSTANTS Id,           \* request ids; a client uses each of them once
          Null,
          MaxRevision,  \* bound: revisions the model goes through
          MaxReceive    \* bound: envelopes in the channel

ASSUME BoundsAreNat == MaxRevision \in Nat /\ MaxReceive \in Nat

VARIABLES
    revision, active, cancelled, pending,         \* Schedule, behind the mutex
    receive,                                      \* the channel of envelopes
    routing,                                      \* the router reads its input
    pc, job, at, outcome,                         \* where the worker is
    workerRevision, documents, dirty, shutdown,   \* Worker
    background, backgroundDue, published,
    asked, withdrawn, editing, replies, shown,    \* the client's side
    latest, applied, analysed, checked            \* texts, as revisions

schedule == <<revision, active, cancelled, pending>>
place    == <<pc, job, at, outcome>>
worker   == <<workerRevision, documents, dirty, shutdown>>
analysis == <<background, backgroundDue, analysed, checked>>
client   == <<asked, withdrawn, editing>>
vars     == <<schedule, receive, routing, place, worker, analysis, published,
              client, replies, shown, latest, applied>>

Change  == {"open", "edit", "close", "watched"}
Analyse == {"analysis", "formatting"}
Method  == Analyse \union {"unsupported", "shutdown"}
Reply   == {"none", "ok", "invalid", "cancelled", "modified",
            "refused", "unsupported", "done"}
Job     == {"none", "answer", "report", "refresh", "background", "retry"}

Envelope == [revision : Nat, kind : Change, changed : BOOLEAN]
       \union [revision : Nat, kind : Method, id : Id]
       \union [revision : Nat, kind : {"cancel", "exit"}]
Token    == [id : Id \union {Null}, cancelled : BOOLEAN]
Request  == [id : Id, method : Method]

ASSUME NullIsNothing ==
    Null \notin Id \union Token \union Request \union (Nat \X BOOLEAN)

(***************************************************************************)
(* The router and the watcher.                                             *)
(***************************************************************************)
Interrupted(stop) ==
    IF active # Null /\ stop THEN [active EXCEPT !.cancelled = TRUE] ELSE active

Send(envelope) == Len(receive) < MaxReceive /\ receive' = Append(receive, envelope)

(* A notification that opens a new revision.  "changed" is whether it      *)
(* alters the text: an edit may restore it and a close may reveal the same *)
(* text on disk.                                                           *)
NewRevision(kind, changed) ==
    /\ revision < MaxRevision
    /\ revision' = revision + 1
    /\ active' = Interrupted(TRUE)
    /\ Send([revision |-> revision + 1, kind |-> kind, changed |-> changed])
    /\ latest' = IF changed THEN revision + 1 ELSE latest
    /\ UNCHANGED <<cancelled, pending, place, worker, analysis, published,
                   asked, withdrawn, replies, shown, applied>>

DidOpen ==
    /\ routing /\ ~editing /\ editing' = TRUE
    /\ NewRevision("open", TRUE)
    /\ UNCHANGED routing

DidChange ==
    /\ routing /\ editing
    /\ \E changed \in BOOLEAN : NewRevision("edit", changed)
    /\ UNCHANGED <<routing, editing>>

DidClose ==
    /\ routing /\ editing /\ editing' = FALSE
    /\ \E changed \in BOOLEAN : NewRevision("close", changed)
    /\ UNCHANGED routing

(* A save, a changed configuration, or watched files the client reports.   *)
DidInvalidate ==
    /\ routing
    /\ NewRevision("watched", TRUE)
    /\ UNCHANGED <<routing, editing>>

(* The watcher's own report, which needs no client: its thread keeps a     *)
(* sender of the channel until the worker returns.                         *)
FilesChanged ==
    /\ pc # "stopped"
    /\ NewRevision("watched", TRUE)
    /\ UNCHANGED <<routing, editing>>

CancelRequest(id) ==
    /\ routing /\ id \in asked \ withdrawn
    /\ withdrawn' = withdrawn \union {id}
    /\ active' = Interrupted(active # Null /\ active.id = id)
    /\ cancelled' = IF id \in pending THEN cancelled \union {id} ELSE cancelled
    /\ Send([revision |-> revision, kind |-> "cancel"])
    /\ UNCHANGED <<revision, pending, routing, place, worker, analysis, published,
                   asked, editing, replies, shown, latest, applied>>

AskRequest(id, method) ==
    /\ routing /\ id \notin asked
    /\ asked' = asked \union {id}
    /\ pending' = pending \union {id}
    /\ active' = Interrupted(active # Null /\ (active.id = Null \/ method = "shutdown"))
    /\ Send([revision |-> revision, kind |-> method, id |-> id])
    /\ UNCHANGED <<revision, cancelled, routing, place, worker, analysis, published,
                   withdrawn, editing, replies, shown, latest, applied>>

Exit ==
    /\ routing /\ routing' = FALSE
    /\ Send([revision |-> revision, kind |-> "exit"])
    /\ UNCHANGED <<schedule, place, worker, analysis, published, client, replies,
                   shown, latest, applied>>

(* The input ends without an exit: the router's loop is over.              *)
Disconnect ==
    /\ routing /\ routing' = FALSE
    /\ UNCHANGED <<schedule, receive, place, worker, analysis, published, client,
                   replies, shown, latest, applied>>

(***************************************************************************)
(* The worker takes envelopes.                                             *)
(***************************************************************************)
GoTo(step, work) == pc' = step /\ job' = work

(* In "recv" the worker blocks for an envelope, in "drain" it takes those  *)
(* there are.                                                              *)
Take ==
    /\ pc \in {"recv", "drain"} /\ receive # <<>>
    /\ receive' = Tail(receive)
    /\ workerRevision' = Head(receive).revision

(* Worker::notification.  After shutdown it ignores everything.  A close   *)
(* clears what the client shows at once, without asking for the revision.  *)
TakeChange ==
    /\ Take
    /\ Head(receive).kind \in Change
    /\ LET change == Head(receive) IN
       IF shutdown
         THEN UNCHANGED <<documents, dirty, applied, shown>>
         ELSE /\ documents' = CASE change.kind = "open"  -> TRUE
                                [] change.kind = "close" -> FALSE
                                [] OTHER -> documents
              /\ dirty' = (dirty \/ change.changed)
              /\ applied' = IF change.changed THEN change.revision ELSE applied
              /\ shown' = IF change.kind = "close" THEN Null ELSE shown
    /\ GoTo("drain", "none")
    /\ UNCHANGED <<schedule, routing, at, outcome, shutdown, analysis, published,
                   client, replies, latest>>

(* $/cancelRequest has done its work in the router.                        *)
TakeCancel ==
    /\ Take
    /\ Head(receive).kind = "cancel"
    /\ GoTo("drain", "none")
    /\ UNCHANGED <<schedule, routing, at, outcome, documents, dirty, shutdown, analysis,
                   published, client, replies, shown, latest, applied>>

(* The router has stopped: joining it returns at once.                     *)
TakeExit ==
    /\ Take
    /\ Head(receive).kind = "exit"
    /\ GoTo("stopped", "none")
    /\ UNCHANGED <<schedule, routing, at, outcome, documents, dirty, shutdown,
                   analysis, published, client, replies, shown, latest, applied>>

\* Mutant: requests that follow a shutdown are dropped.
TakeRequestUntilShutdown ==
    /\ Take
    /\ Head(receive).kind \in Method
    /\ at' = [id |-> Head(receive).id, method |-> Head(receive).kind]
    /\ shutdown' = (shutdown \/ at'.method = "shutdown")
    /\ replies' = IF at'.method = "shutdown"
                    THEN [replies EXCEPT ![at'.id] = "done"] ELSE replies
    /\ IF at'.method \in Analyse /\ ~shutdown
         THEN GoTo("begin", "answer") ELSE GoTo("release", "none")
    /\ UNCHANGED <<schedule, routing, outcome, documents, dirty, analysis, published,
                   client, shown, latest, applied>>

TakeRequest ==
    /\ Take
    /\ Head(receive).kind \in Method
    /\ at' = [id |-> Head(receive).id, method |-> Head(receive).kind]
    /\ shutdown' = (shutdown \/ at'.method = "shutdown")
    /\ \/ /\ at'.method = "shutdown"
          /\ replies' = [replies EXCEPT ![at'.id] = "done"]
          /\ GoTo("release", "none")
       \/ /\ at'.method # "shutdown" /\ shutdown
          /\ replies' = [replies EXCEPT ![at'.id] = "refused"]
          /\ GoTo("release", "none")
       \/ /\ at'.method = "unsupported" /\ ~shutdown
          /\ replies' = [replies EXCEPT ![at'.id] = "unsupported"]
          /\ GoTo("release", "none")
       \/ /\ at'.method \in Analyse /\ ~shutdown
          /\ GoTo("begin", "answer")
          /\ UNCHANGED replies
    /\ UNCHANGED <<schedule, routing, outcome, documents, dirty, analysis, published,
                   client, shown, latest, applied>>

Drained ==
    /\ pc = "drain" /\ receive = <<>>
    /\ pc' = "refresh?"
    /\ UNCHANGED <<schedule, receive, routing, job, at, outcome, worker, analysis,
                   published, client, replies, shown, latest, applied>>

(***************************************************************************)
(* Between envelopes the worker asks three questions in turn, and runs the *)
(* job each one calls for.                                                 *)
(***************************************************************************)
Ready == ~shutdown /\ documents

Question(step, calls, work, otherwise) ==
    /\ pc = step
    /\ IF calls THEN GoTo("begin", work) ELSE GoTo(otherwise, "none")
    /\ UNCHANGED <<schedule, receive, routing, at, outcome, worker, analysis, published,
                   client, replies, shown, latest, applied>>

MustRefresh == Question("refresh?", Ready /\ dirty, "refresh", "check?")

CheckDue == Ready /\ ~dirty /\ ~background /\ receive = <<>>

MustCheck ==
    /\ CheckDue => ~backgroundDue
    /\ Question("check?", CheckDue, "background", "publish?")

(* recv_timeout waits out what is left of the quiet interval; a message    *)
(* sends the loop around with the interval kept.                           *)
WaitForQuiet ==
    /\ pc = "check?" /\ CheckDue /\ backgroundDue
    /\ pc' = "quiet"
    /\ UNCHANGED <<schedule, receive, routing, job, at, outcome, worker, analysis,
                   published, client, replies, shown, latest, applied>>

QuietElapsed == Question("quiet", TRUE, "background", "drain")
QuietBroken  == receive # <<>> /\ Question("quiet", FALSE, "background", "drain")

\* Mutant: an interrupted publication is not retried.
NeverRetry == Question("publish?", FALSE, "retry", "recv")

MustPublish == Question("publish?",
                        Ready /\ ~dirty /\ published # <<workerRevision, background>>,
                        "retry", "recv")

(***************************************************************************)
(* One job: begin takes a token, run works under it, end gives it back.    *)
(***************************************************************************)
Subject == IF job = "answer" THEN at.id ELSE Null

(* Whether the work a token stands for is no longer wanted.                *)
Obsolete(id) ==
    \/ revision # workerRevision
    \/ id = Null /\ pending # {}
    \/ id \in cancelled

\* Mutant: work begins without asking whether it is still wanted.
BeginUnchecked ==
    /\ pc = "begin"
    /\ active' = [id |-> Subject, cancelled |-> FALSE]
    /\ pc' = "start"
    /\ UNCHANGED <<revision, cancelled, pending, receive, routing, job, at, outcome, worker,
                   analysis, published, client, replies, shown, latest, applied>>

Begin ==
    /\ pc = "begin"
    /\ active' = [id |-> Subject, cancelled |-> Obsolete(Subject)]
    /\ pc' = "start"
    /\ UNCHANGED <<revision, cancelled, pending, receive, routing, job, at, outcome, worker,
                   analysis, published, client, replies, shown, latest, applied>>

(* Formatting an open document needs no analysis.                          *)
TextOnly == at.method = "formatting" /\ documents

(* The checkpoint before the work: an obsolete job does none of it.        *)
Start ==
    /\ pc = "start" /\ ~active.cancelled
    /\ pc' = CASE job = "answer" /\ TextOnly -> "answering"
               [] job = "answer" /\ ~TextOnly -> "refreshing"
               [] job = "refresh" -> "refreshing"
               [] job = "background" -> "checking"
               [] OTHER -> "publishing"
    /\ UNCHANGED <<schedule, receive, routing, job, at, outcome, worker, analysis,
                   published, client, replies, shown, latest, applied>>

(* A checkpoint inside the work unwinds it, leaving what it had not yet    *)
(* assigned; the one after the work discards the result, which only an     *)
(* answer has.                                                             *)
Unwind ==
    /\ pc \in {"start", "refreshing", "answering", "checking", "publishing",
               "rendered", "finish"}
    /\ active.cancelled
    /\ outcome' = IF job = "answer" THEN "cancelled" ELSE outcome
    /\ pc' = "end"
    /\ UNCHANGED <<schedule, receive, routing, job, at, worker, analysis, published,
                   client, replies, shown, latest, applied>>

(* Worker::refresh: the flag is cleared only after the workspace has it.   *)
(* Whether the report leaves background work decides if the timer is set.  *)
Refresh ==
    /\ pc = "refreshing"
    /\ IF dirty
         THEN /\ dirty' = FALSE
              /\ background' = FALSE
              /\ analysed' = applied
              /\ backgroundDue' \in BOOLEAN
         ELSE UNCHANGED <<dirty, background, analysed, backgroundDue>>
    /\ pc' = IF job = "answer" THEN "answering" ELSE "publishing"
    /\ UNCHANGED <<schedule, receive, routing, job, at, outcome, workerRevision,
                   documents, shutdown, checked, published, client, replies, shown,
                   latest, applied>>

(* The answer, after the inference it asks for; when that inference went   *)
(* further than the published analysis, publication is due again.          *)
Answer ==
    /\ pc = "answering"
    /\ outcome' \in {"ok", "invalid"}
    /\ \/ UNCHANGED published
       \/ at.method = "analysis" /\ published' = Null
    /\ pc' = "finish"
    /\ UNCHANGED <<schedule, receive, routing, job, at, worker, analysis, client,
                   replies, shown, latest, applied>>

CheckBackground ==
    /\ pc = "checking"
    /\ background' = TRUE
    /\ backgroundDue' = FALSE
    /\ checked' = analysed
    /\ pc' = "publishing"
    /\ UNCHANGED <<schedule, receive, routing, job, at, outcome, worker, analysed,
                   published, client, replies, shown, latest, applied>>

(* Worker::publish up to the last checkpoint: nothing to do, or render.    *)
Render ==
    /\ pc = "publishing"
    /\ \/ /\ published = <<workerRevision, background>> \/ dirty
          /\ pc' = "end"
       \/ /\ published # <<workerRevision, background>> /\ ~dirty
          /\ ~active.cancelled
          /\ pc' = "rendered"
    /\ UNCHANGED <<schedule, receive, routing, job, at, outcome, worker, analysis, published,
                   client, replies, shown, latest, applied>>

\* Mutant: what has been rendered is sent without the revision check.
PublishUnchecked ==
    /\ pc = "rendered"
    /\ published' = <<workerRevision, background>>
    /\ shown' = IF documents THEN [text |-> analysed, full |-> background] ELSE shown
    /\ pc' = "end"
    /\ UNCHANGED <<schedule, receive, routing, job, at, outcome, worker, analysis,
                   client, replies, latest, applied>>

(* The final revision check and enqueue, in one critical section.          *)
Publish ==
    /\ pc = "rendered"
    /\ IF revision = workerRevision
         THEN /\ published' = <<workerRevision, background>>
              /\ shown' = IF documents
                            THEN [text |-> analysed, full |-> background]
                            ELSE shown
         ELSE UNCHANGED <<published, shown>>
    /\ pc' = "end"
    /\ UNCHANGED <<schedule, receive, routing, job, at, outcome, worker, analysis,
                   client, replies, latest, applied>>

Finish ==
    /\ pc = "finish" /\ ~active.cancelled
    /\ pc' = "end"
    /\ UNCHANGED <<schedule, receive, routing, job, at, outcome, worker, analysis,
                   published, client, replies, shown, latest, applied>>

AfterJob == [answer |-> "respond", report |-> "drain", refresh |-> "check?",
             background |-> "publish?", retry |-> "recv"]

End ==
    /\ pc = "end"
    /\ active' = Null
    /\ GoTo(AfterJob[job], IF job = "answer" THEN job ELSE "none")
    /\ UNCHANGED <<revision, cancelled, pending, receive, routing, at, outcome, worker,
                   analysis, published, client, replies, shown, latest, applied>>

\* Mutant: a response is sent without the revision check.
RespondUnchecked ==
    /\ pc = "respond"
    /\ replies' = [replies EXCEPT ![at.id] =
                     IF at.id \in cancelled THEN "cancelled" ELSE outcome]
    /\ pc' = "release"
    /\ UNCHANGED <<schedule, receive, routing, job, at, outcome, worker, analysis,
                   published, client, shown, latest, applied>>

(* The response barrier: what was withdrawn or overtaken is not answered   *)
(* with the result.                                                        *)
Respond ==
    /\ pc = "respond"
    /\ replies' = [replies EXCEPT ![at.id] =
                     CASE at.id \in cancelled -> "cancelled"
                       [] at.id \notin cancelled /\ revision # workerRevision -> "modified"
                       [] OTHER -> outcome]
    /\ pc' = "release"
    /\ UNCHANGED <<schedule, receive, routing, job, at, outcome, worker, analysis,
                   published, client, shown, latest, applied>>

(* RequestRegistration is dropped; an analysed request then publishes.     *)
Release ==
    /\ pc = "release"
    /\ pending' = pending \ {at.id}
    /\ cancelled' = cancelled \ {at.id}
    /\ IF job = "answer" THEN GoTo("begin", "report") ELSE GoTo("drain", "none")
    /\ at' = Null /\ outcome' = "none"
    /\ UNCHANGED <<revision, active, receive, routing, worker, analysis,
                   published, client, replies, shown, latest, applied>>

(***************************************************************************)
(* The specification.                                                      *)
(***************************************************************************)
Init ==
    /\ revision = 0 /\ active = Null /\ cancelled = {} /\ pending = {}
    /\ receive = <<>> /\ routing = TRUE
    /\ pc = "recv" /\ job = "none" /\ at = Null /\ outcome = "none"
    /\ workerRevision = 0 /\ documents = FALSE /\ dirty = TRUE /\ shutdown = FALSE
    /\ background = FALSE /\ backgroundDue = FALSE /\ published = Null
    /\ asked = {} /\ withdrawn = {} /\ editing = FALSE
    /\ replies = [id \in Id |-> "none"] /\ shown = Null
    /\ latest = 0 /\ applied = 0 /\ analysed = 0 /\ checked = 0

Router ==
    \/ DidOpen \/ DidChange \/ DidClose \/ DidInvalidate
    \/ \E id \in Id : CancelRequest(id)
    \/ \E id \in Id, method \in Method : AskRequest(id, method)
    \/ Exit \/ Disconnect

Worker ==
    \/ TakeChange \/ TakeCancel \/ TakeExit \/ TakeRequest \/ Drained
    \/ MustRefresh \/ MustCheck \/ WaitForQuiet \/ QuietElapsed \/ QuietBroken \/ MustPublish
    \/ Begin \/ Start \/ Unwind \/ Refresh \/ Answer \/ CheckBackground \/ Render
    \/ Publish \/ Finish \/ End \/ Respond \/ Release

Next == Router \/ FilesChanged \/ Worker

(* The operating system runs the worker's thread, and its timer elapses;   *)
(* nothing makes the client speak or a file change.                        *)
Fairness == WF_vars(Worker)

Spec == Init /\ [][Next]_vars
FairSpec == Spec /\ Fairness

(***************************************************************************)
(* Properties.                                                             *)
(***************************************************************************)
Working == {"start", "refreshing", "answering", "checking", "publishing", "rendered",
            "finish", "end"}
Between == {"recv", "drain", "refresh?", "check?", "quiet", "publish?", "stopped"}

(* What the worker holds where: a token while it works, a request from     *)
(* taking it to releasing it, a job from deciding on it to ending it.      *)
InPlace ==
    /\ active # Null <=> pc \in Working
    /\ at # Null <=> job = "answer" \/ pc = "release"
    /\ pc \in Between => job = "none"
    /\ pc \in Working \union {"begin"} => job # "none"
    /\ pc \in {"answering", "finish", "respond"} => job = "answer"
    /\ pc = "refreshing" => job \in {"answer", "refresh"}
    /\ pc = "checking" => job = "background"

(* The types of all variables, and InPlace.                                *)
TypeOK ==
    /\ revision \in Nat /\ active \in Token \union {Null}
    /\ cancelled \subseteq Id /\ pending \subseteq Id
    /\ receive \in Seq(Envelope) /\ routing \in BOOLEAN
    /\ pc \in Working \union Between \union {"begin", "respond", "release"}
    /\ job \in Job /\ at \in Request \union {Null} /\ outcome \in Reply
    /\ workerRevision \in Nat /\ documents \in BOOLEAN /\ dirty \in BOOLEAN
    /\ shutdown \in BOOLEAN /\ background \in BOOLEAN /\ backgroundDue \in BOOLEAN
    /\ published \in (Nat \X BOOLEAN) \union {Null}
    /\ asked \subseteq Id /\ withdrawn \subseteq Id /\ editing \in BOOLEAN
    /\ replies \in [Id -> Reply]
    /\ shown \in [text : Nat, full : BOOLEAN] \union {Null}
    /\ latest \in Nat /\ applied \in Nat /\ analysed \in Nat /\ checked \in Nat
    /\ InPlace

(* Work nobody wants any more is told so: whatever order the router's      *)
(* critical sections and begin take, a token whose job the current         *)
(* schedule would refuse is cancelled.                                     *)
ObsoleteWorkIsCancelled ==
    active # Null /\ Obsolete(active.id) => active.cancelled

Queued == {id \in Id : \E i \in 1..Len(receive) :
                          receive[i].kind \in Method /\ receive[i].id = id}

(* The schedule remembers exactly the requests not yet answered in full:   *)
(* those in the channel and the one in hand.  A cancellation outlives no   *)
(* request, so none can hit a later one.                                   *)
RegistrationsAreLive ==
    /\ pending = Queued \union (IF at = Null THEN {} ELSE {at.id})
    /\ cancelled \subseteq pending

(* A result reaches the client only for a request it has not withdrawn,    *)
(* computed from the very text the client and the disk have at the moment  *)
(* it is sent.                                                             *)
AnswersAreCurrent ==
    [][\A id \in Id : replies'[id] = "ok" /\ replies[id] # "ok" =>
          /\ id \notin withdrawn
          /\ latest = IF TextOnly THEN applied ELSE analysed]_vars

(* Obsolete diagnostics are never published: what the client is shown is   *)
(* computed from the current text, and marked complete only if that text   *)
(* was checked in the background too.                                      *)
DiagnosticsAreCurrent ==
    [][shown' # shown /\ shown' # Null =>
          /\ shown'.text = latest
          /\ shown'.full => checked = latest]_vars

(* Nothing is forgotten: a worker that blocks on an empty channel while a  *)
(* document is open has shown complete diagnostics of the latest text.     *)
(* Every cancellation of a job must therefore have left a message behind   *)
(* that makes the worker run again.                                        *)
NothingOwed ==
    pc = "recv" /\ receive = <<>> /\ Ready =>
        shown = [text |-> latest, full |-> TRUE]

(* Every accepted request is answered, whatever is cancelled meanwhile.    *)
RequestsAreAnswered ==
    \A id \in Id : id \in asked ~> replies[id] # "none"

(* The worker never runs on for ever: once the messages cease, so does it. *)
WorkerComesToRest == []<>(pc \in {"recv", "stopped"})

(* Both: the worker neither waits with work to do nor works for ever.      *)
Progress == RequestsAreAnswered /\ WorkerComesToRest

(* The loop's own exits (lsp.rs:148 and :199) say the server stops when    *)
(* its input ends.                                                         *)
StopsWithItsInput == ~routing ~> pc = "stopped"
============================================================================
