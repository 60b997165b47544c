------------------------- MODULE LspScheduleProofs -------------------------
(***************************************************************************)
(* Machine-checked theorems about LspSchedule, for every set of request    *)
(* ids and every bound.                                                    *)
(***************************************************************************)
EXTENDS LspScheduleInv, TLAPS

-----------------------------------------------------------------------------
(* Type correctness.  TypeOK is inductive. *)

\* The channel's elements.
LEMMA HeadTypes ==
  ASSUME receive \in Seq(Envelope), receive # <<>>
  PROVE  /\ Head(receive) \in Envelope /\ Tail(receive) \in Seq(Envelope)
         /\ Head(receive) = receive[1]
         /\ Head(receive).revision \in Nat
         /\ Head(receive).kind \in Change => Head(receive).changed \in BOOLEAN
         /\ Head(receive).kind \in Method => Head(receive).id \in Id
  <1>1. Head(receive) \in Envelope /\ Tail(receive) \in Seq(Envelope)
    OBVIOUS
  <1>2. Head(receive) = receive[1]
    OBVIOUS
  <1>3. QED
    BY <1>1, <1>2 DEF Envelope, Change, Method, Analyse

\* A token that is cancelled is still a token of the same work.
LEMMA InterruptedTypes ==
  ASSUME active \in Token \union {Null}, NEW stop \in BOOLEAN
  PROVE  /\ Interrupted(stop) \in Token \union {Null}
         /\ Interrupted(stop) = Null <=> active = Null
         /\ active # Null => /\ Interrupted(stop).id = active.id
                             /\ active.cancelled \/ stop => Interrupted(stop).cancelled
  <1>1. CASE active # Null /\ stop
    <2>1. active \in Token /\ Interrupted(stop) = [active EXCEPT !.cancelled = TRUE]
      BY <1>1 DEF Interrupted
    <2>2. /\ Interrupted(stop) \in Token
          /\ Interrupted(stop).id = active.id /\ Interrupted(stop).cancelled
      BY <2>1 DEF Token
    <2>3. QED
      BY <1>1, <2>2, NullIsNothing
  <1>2. CASE ~(active # Null /\ stop)
    BY <1>2 DEF Interrupted
  <1>3. QED
    BY <1>1, <1>2

\* The parts of TypeOK.
ScheduleTypes ==
  /\ revision \in Nat /\ active \in Token \union {Null}
  /\ cancelled \subseteq Id /\ pending \subseteq Id
  /\ receive \in Seq(Envelope) /\ routing \in BOOLEAN
PlaceTypes ==
  /\ pc \in Working \union Between \union {"begin", "respond", "release"}
  /\ job \in Job /\ at \in Request \union {Null} /\ outcome \in Reply
WorkerTypes ==
  /\ workerRevision \in Nat /\ documents \in BOOLEAN /\ dirty \in BOOLEAN
  /\ shutdown \in BOOLEAN /\ background \in BOOLEAN /\ backgroundDue \in BOOLEAN
  /\ analysed \in Nat /\ checked \in Nat /\ applied \in Nat
ClientTypes ==
  /\ published \in (Nat \X BOOLEAN) \union {Null}
  /\ asked \subseteq Id /\ withdrawn \subseteq Id /\ editing \in BOOLEAN
  /\ replies \in [Id -> Reply]
  /\ shown \in [text : Nat, full : BOOLEAN] \union {Null}
  /\ latest \in Nat

LEMMA NewRevisionTypes ==
  ASSUME TypeOK, NEW kind \in Change, NEW changed \in BOOLEAN,
         NewRevision(kind, changed), routing' \in BOOLEAN, editing' \in BOOLEAN
  PROVE  TypeOK'
  <1>1. [revision |-> revision + 1, kind |-> kind, changed |-> changed] \in Envelope
    BY DEF TypeOK, Envelope
  <1>2. receive' \in Seq(Envelope)
    BY <1>1 DEF TypeOK, NewRevision, Send
  <1>3. active' \in Token \union {Null} /\ (active' = Null <=> active = Null)
    BY InterruptedTypes DEF TypeOK, NewRevision
  <1>4. ScheduleTypes'
    <2>1. revision' \in Nat
      BY DEF TypeOK, NewRevision
    <2>2. cancelled' = cancelled /\ pending' = pending
      BY DEF NewRevision
    <2>3. QED
      BY <1>2, <1>3, <2>1, <2>2 DEF TypeOK, ScheduleTypes
  <1>5. PlaceTypes' /\ InPlace'
    BY <1>3 DEF TypeOK, NewRevision, PlaceTypes, InPlace, place
  <1>6. WorkerTypes'
    BY DEF TypeOK, NewRevision, WorkerTypes, worker, analysis
  <1>7. ClientTypes'
    BY DEF TypeOK, NewRevision, ClientTypes
  <1>8. QED
    BY <1>4, <1>5, <1>6, <1>7 DEF TypeOK, ScheduleTypes, PlaceTypes, WorkerTypes, ClientTypes

\* Taking an envelope.
LEMMA TakeTypes ==
  ASSUME TypeOK, Take
  PROVE  /\ receive # <<>> /\ receive' = Tail(receive) /\ receive' \in Seq(Envelope)
         /\ Head(receive) = receive[1] /\ Head(receive) \in Envelope
         /\ workerRevision' = Head(receive).revision /\ workerRevision' \in Nat
         /\ Head(receive).kind \in Change => Head(receive).changed \in BOOLEAN
         /\ Head(receive).kind \in Method => Head(receive).id \in Id
         /\ pc \in {"recv", "drain"}
         /\ active = Null /\ at = Null /\ job = "none"
  <1>1. receive \in Seq(Envelope) /\ receive # <<>>
    BY DEF TypeOK, Take
  <1>2. pc \in {"recv", "drain"}
    BY DEF Take
  <1>3. active = Null /\ at = Null /\ job = "none"
    BY <1>2 DEF TypeOK, InPlace, Working, Between
  <1>4. QED
    BY <1>1, <1>2, <1>3, HeadTypes DEF Take

LEMMA TakeChangeTypes ==
  ASSUME TypeOK, TakeChange
  PROVE  TypeOK'
  <1> DEFINE change == Head(receive)
  <1>1. Take /\ change.kind \in Change
    BY DEF TakeChange
  <1>2. /\ receive' \in Seq(Envelope) /\ workerRevision' \in Nat
        /\ change.changed \in BOOLEAN /\ change.revision \in Nat
        /\ active = Null /\ at = Null
    BY <1>1, TakeTypes
  <1>3. ScheduleTypes'
    BY <1>2 DEF TypeOK, TakeChange, ScheduleTypes, schedule
  <1>4. PlaceTypes' /\ InPlace'
    BY <1>2 DEF TypeOK, TakeChange, PlaceTypes, InPlace, GoTo, Working, Between, Job,
                schedule
  <1>5. documents' \in BOOLEAN /\ dirty' \in BOOLEAN
    <2>1. CASE shutdown
      BY <2>1 DEF TypeOK, TakeChange
    <2>2. CASE ~shutdown
      BY <1>2, <2>2 DEF TypeOK, TakeChange
    <2>3. QED
      BY <2>1, <2>2
  <1>6. applied' \in Nat
    BY <1>2 DEF TypeOK, TakeChange
  <1>7. WorkerTypes'
    BY <1>2, <1>5, <1>6 DEF TypeOK, TakeChange, WorkerTypes, analysis
  <1>8. shown' \in [text : Nat, full : BOOLEAN] \union {Null}
    BY DEF TypeOK, TakeChange
  <1>9. ClientTypes'
    BY <1>8 DEF TypeOK, TakeChange, ClientTypes, client
  <1>10. QED
    BY <1>3, <1>4, <1>7, <1>9
    DEF TypeOK, ScheduleTypes, PlaceTypes, WorkerTypes, ClientTypes

LEMMA TakeRequestTypes ==
  ASSUME TypeOK, TakeRequest
  PROVE  TypeOK'
  <1>1. Take /\ Head(receive).kind \in Method
    BY DEF TakeRequest
  <1>2. /\ receive' \in Seq(Envelope) /\ workerRevision' \in Nat
        /\ Head(receive).id \in Id /\ active = Null
    BY <1>1, TakeTypes
  <1>3. at' \in Request /\ at'.id = Head(receive).id
    BY <1>1, <1>2 DEF TakeRequest, Request
  <1>4. ScheduleTypes'
    BY <1>2 DEF TypeOK, TakeRequest, ScheduleTypes, schedule
  <1>5. PlaceTypes'
    BY <1>3 DEF TypeOK, TakeRequest, PlaceTypes, GoTo, Job
  <1>6. InPlace'
    BY <1>2, <1>3, NullIsNothing
    DEF TypeOK, TakeRequest, InPlace, GoTo, Working, Between, schedule
  <1>7. shutdown' \in BOOLEAN
    BY DEF TypeOK, TakeRequest
  <1>8. WorkerTypes'
    BY <1>2, <1>7 DEF TypeOK, TakeRequest, WorkerTypes, analysis
  <1>9. replies' \in [Id -> Reply]
    BY <1>2, <1>3 DEF TypeOK, TakeRequest, Reply
  <1>10. ClientTypes'
    BY <1>9 DEF TypeOK, TakeRequest, ClientTypes, client
  <1>11. QED
    BY <1>4, <1>5, <1>6, <1>8, <1>10
    DEF TypeOK, ScheduleTypes, PlaceTypes, WorkerTypes, ClientTypes

LEMMA CancelRequestTypes ==
  ASSUME TypeOK, NEW id \in Id, CancelRequest(id)
  PROVE  TypeOK'
  <1>1. [revision |-> revision, kind |-> "cancel"] \in Envelope
    BY DEF TypeOK, Envelope
  <1>2. receive' \in Seq(Envelope)
    BY <1>1 DEF TypeOK, CancelRequest, Send
  <1>3. active' \in Token \union {Null} /\ (active' = Null <=> active = Null)
    BY InterruptedTypes DEF TypeOK, CancelRequest
  <1>4. ScheduleTypes'
    BY <1>2, <1>3 DEF TypeOK, CancelRequest, ScheduleTypes
  <1>5. PlaceTypes' /\ InPlace'
    BY <1>3 DEF TypeOK, CancelRequest, PlaceTypes, InPlace, place
  <1>6. WorkerTypes'
    BY DEF TypeOK, CancelRequest, WorkerTypes, worker, analysis
  <1>7. ClientTypes'
    BY DEF TypeOK, CancelRequest, ClientTypes
  <1>8. QED
    BY <1>4, <1>5, <1>6, <1>7
    DEF TypeOK, ScheduleTypes, PlaceTypes, WorkerTypes, ClientTypes

LEMMA AskRequestTypes ==
  ASSUME TypeOK, NEW id \in Id, NEW method \in Method, AskRequest(id, method)
  PROVE  TypeOK'
  <1>1. [revision |-> revision, kind |-> method, id |-> id] \in Envelope
    BY DEF TypeOK, Envelope
  <1>2. receive' \in Seq(Envelope)
    BY <1>1 DEF TypeOK, AskRequest, Send
  <1>3. active' \in Token \union {Null} /\ (active' = Null <=> active = Null)
    BY InterruptedTypes DEF TypeOK, AskRequest
  <1>4. ScheduleTypes'
    BY <1>2, <1>3 DEF TypeOK, AskRequest, ScheduleTypes
  <1>5. PlaceTypes' /\ InPlace'
    BY <1>3 DEF TypeOK, AskRequest, PlaceTypes, InPlace, place
  <1>6. WorkerTypes'
    BY DEF TypeOK, AskRequest, WorkerTypes, worker, analysis
  <1>7. ClientTypes'
    BY DEF TypeOK, AskRequest, ClientTypes
  <1>8. QED
    BY <1>4, <1>5, <1>6, <1>7
    DEF TypeOK, ScheduleTypes, PlaceTypes, WorkerTypes, ClientTypes

\* A change of the client's or the disk's opens a revision.
LEMMA Changes ==
  ASSUME TypeOK, DidOpen \/ DidChange \/ DidClose \/ DidInvalidate \/ FilesChanged
  PROVE  /\ \E kind \in Change, changed \in BOOLEAN : NewRevision(kind, changed)
         /\ routing' = routing /\ editing' \in BOOLEAN
  <1>1. CASE DidOpen
    BY <1>1 DEF DidOpen, Change, TypeOK
  <1>2. CASE DidChange
    BY <1>2 DEF DidChange, Change, TypeOK
  <1>3. CASE DidClose
    BY <1>3 DEF DidClose, Change, TypeOK
  <1>4. CASE DidInvalidate
    BY <1>4 DEF DidInvalidate, Change, TypeOK
  <1>5. CASE FilesChanged
    BY <1>5 DEF FilesChanged, Change, TypeOK
  <1>6. QED
    BY <1>1, <1>2, <1>3, <1>4, <1>5

LEMMA RouterTypes ==
  ASSUME TypeOK, Router \/ FilesChanged
  PROVE  TypeOK'
  <1>1. CASE DidOpen \/ DidChange \/ DidClose \/ DidInvalidate \/ FilesChanged
    <2>1. PICK kind \in Change, changed \in BOOLEAN : NewRevision(kind, changed)
      BY <1>1, Changes
    <2>2. routing' \in BOOLEAN /\ editing' \in BOOLEAN
      BY <1>1, Changes DEF TypeOK
    <2>3. QED
      BY <2>1, <2>2, NewRevisionTypes
  <1>2. CASE \E id \in Id : CancelRequest(id)
    BY <1>2, CancelRequestTypes
  <1>3. CASE \E id \in Id, method \in Method : AskRequest(id, method)
    BY <1>3, AskRequestTypes
  <1>4. CASE Exit
    <2>1. [revision |-> revision, kind |-> "exit"] \in Envelope
      BY DEF TypeOK, Envelope
    <2>2. receive' \in Seq(Envelope)
      BY <1>4, <2>1 DEF TypeOK, Exit, Send
    <2>3. routing' \in BOOLEAN
      BY <1>4 DEF Exit
    <2>4. ScheduleTypes'
      BY <1>4, <2>2, <2>3 DEF TypeOK, Exit, ScheduleTypes, schedule
    <2>5. PlaceTypes' /\ InPlace'
      BY <1>4 DEF TypeOK, Exit, PlaceTypes, InPlace, schedule, place
    <2>6. WorkerTypes' /\ ClientTypes'
      BY <1>4 DEF TypeOK, Exit, WorkerTypes, ClientTypes, worker, analysis, client
    <2>7. QED
      BY <2>4, <2>5, <2>6
      DEF TypeOK, ScheduleTypes, PlaceTypes, WorkerTypes, ClientTypes
  <1>5. CASE Disconnect
    <2>1. routing' \in BOOLEAN
      BY <1>5 DEF Disconnect
    <2>2. ScheduleTypes'
      BY <1>5, <2>1 DEF TypeOK, Disconnect, ScheduleTypes, schedule
    <2>3. PlaceTypes' /\ InPlace'
      BY <1>5 DEF TypeOK, Disconnect, PlaceTypes, InPlace, schedule, place
    <2>4. WorkerTypes' /\ ClientTypes'
      BY <1>5 DEF TypeOK, Disconnect, WorkerTypes, ClientTypes, worker, analysis, client
    <2>5. QED
      BY <2>2, <2>3, <2>4
      DEF TypeOK, ScheduleTypes, PlaceTypes, WorkerTypes, ClientTypes
  <1>6. QED
    BY <1>1, <1>2, <1>3, <1>4, <1>5 DEF Router

LEMMA BeginTypes ==
  ASSUME TypeOK, Begin
  PROVE  TypeOK'
  <1>1. Subject \in Id \union {Null}
    BY DEF TypeOK, InPlace, Subject, Request
  <1>2. Obsolete(Subject) \in BOOLEAN
    BY Zenon DEF Obsolete
  <1>3. active' \in Token
    BY <1>1, <1>2 DEF Begin, Token
  <1>4. active' # Null
    BY <1>3, NullIsNothing
  <1>5. QED
    BY <1>3, <1>4
    DEF TypeOK, InPlace, Begin, Working, Between, worker, analysis, client

LEMMA RefreshTypes ==
  ASSUME TypeOK, Refresh
  PROVE  TypeOK'
  <1>1. /\ dirty' \in BOOLEAN /\ background' \in BOOLEAN /\ backgroundDue' \in BOOLEAN
        /\ analysed' \in Nat
    BY DEF TypeOK, Refresh
  <1>2. PlaceTypes' /\ InPlace'
    BY DEF TypeOK, Refresh, PlaceTypes, InPlace, Working, Between, schedule
  <1>3. WorkerTypes'
    BY <1>1 DEF TypeOK, Refresh, WorkerTypes
  <1>4. ScheduleTypes' /\ ClientTypes'
    BY DEF TypeOK, Refresh, ScheduleTypes, ClientTypes, schedule, client
  <1>5. QED
    BY <1>2, <1>3, <1>4
    DEF TypeOK, ScheduleTypes, PlaceTypes, WorkerTypes, ClientTypes

LEMMA CheckBackgroundTypes ==
  ASSUME TypeOK, CheckBackground
  PROVE  TypeOK'
  <1>1. background' \in BOOLEAN /\ backgroundDue' \in BOOLEAN
    BY DEF CheckBackground
  <1>2. PlaceTypes' /\ InPlace'
    BY DEF TypeOK, CheckBackground, PlaceTypes, InPlace, Working, Between, schedule
  <1>3. WorkerTypes'
    BY <1>1 DEF TypeOK, CheckBackground, WorkerTypes, worker
  <1>4. ScheduleTypes' /\ ClientTypes'
    BY DEF TypeOK, CheckBackground, ScheduleTypes, ClientTypes, schedule, client
  <1>5. QED
    BY <1>2, <1>3, <1>4
    DEF TypeOK, ScheduleTypes, PlaceTypes, WorkerTypes, ClientTypes

LEMMA WorkerStepTypes ==
  ASSUME TypeOK, Worker
  PROVE  TypeOK'
  <1> USE DEF TypeOK, InPlace, Working, Between, Job, Reply, Request, Token,
              schedule, place, worker, analysis, client
  <1>1. CASE TakeCancel
    <2>1. receive' \in Seq(Envelope) /\ workerRevision' \in Nat
      BY <1>1, TakeTypes DEF TakeCancel
    <2>2. QED
      BY <1>1, <2>1 DEF TakeCancel, Take, GoTo
  <1>2. CASE TakeExit
    <2>1. receive' \in Seq(Envelope) /\ workerRevision' \in Nat
      BY <1>2, TakeTypes DEF TakeExit
    <2>2. QED
      BY <1>2, <2>1 DEF TakeExit, Take, GoTo
  <1>3. CASE Drained
    BY <1>3 DEF Drained
  <1>4. CASE MustRefresh
    BY <1>4 DEF MustRefresh, Question, GoTo
  <1>5. CASE MustCheck
    BY <1>5 DEF MustCheck, Question, GoTo
  <1>6. CASE WaitForQuiet
    BY <1>6 DEF WaitForQuiet
  <1>7. CASE QuietElapsed
    BY <1>7 DEF QuietElapsed, Question, GoTo
  <1>8. CASE QuietBroken
    BY <1>8 DEF QuietBroken, Question, GoTo
  <1>9. CASE MustPublish
    BY <1>9 DEF MustPublish, Question, GoTo
  <1>10. CASE Start
    BY <1>10 DEF Start
  <1>11. CASE Unwind
    BY <1>11 DEF Unwind
  <1>12. CASE Answer
    BY <1>12 DEF Answer
  <1>13. CASE Render
    BY <1>13 DEF Render
  <1>14. CASE Publish
    BY <1>14 DEF Publish
  <1>15. CASE Finish
    BY <1>15 DEF Finish
  <1>16. CASE End
    BY <1>16 DEF End, AfterJob, GoTo
  <1>17. CASE Respond
    BY <1>17 DEF Respond
  <1>18. CASE Release
    BY <1>18 DEF Release, GoTo
  <1>19. QED
    BY <1>1, <1>2, <1>3, <1>4, <1>5, <1>6, <1>7, <1>8, <1>9, <1>10, <1>11, <1>12,
       <1>13, <1>14, <1>15, <1>16, <1>17, <1>18, TakeChangeTypes, TakeRequestTypes,
       BeginTypes, RefreshTypes, CheckBackgroundTypes DEF Worker

LEMMA InitTypes == Init => TypeOK
  <1> SUFFICES ASSUME Init PROVE TypeOK
    OBVIOUS
  <1>1. /\ routing \in BOOLEAN /\ documents \in BOOLEAN /\ dirty \in BOOLEAN
        /\ shutdown \in BOOLEAN /\ background \in BOOLEAN
        /\ backgroundDue \in BOOLEAN /\ editing \in BOOLEAN
    BY DEF Init
  <1>2. PlaceTypes /\ InPlace
    BY DEF Init, PlaceTypes, InPlace, Working, Between, Job, Reply
  <1>3. ScheduleTypes
    BY <1>1 DEF Init, ScheduleTypes
  <1>4. WorkerTypes
    BY <1>1 DEF Init, WorkerTypes
  <1>5. ClientTypes
    BY <1>1 DEF Init, ClientTypes, Reply
  <1>6. QED
    BY <1>2, <1>3, <1>4, <1>5
    DEF TypeOK, ScheduleTypes, PlaceTypes, WorkerTypes, ClientTypes

LEMMA NextTypes == TypeOK /\ [Next]_vars => TypeOK'
  <1>1. TypeOK /\ UNCHANGED vars => TypeOK'
    BY DEF TypeOK, InPlace, vars, schedule, place, worker, analysis, client
  <1>2. QED
    BY <1>1, RouterTypes, WorkerStepTypes DEF Next

\* Every variable keeps its type and the worker holds its token, its request and
\* its job exactly where the loop of lsp.rs says.
THEOREM Typing == Spec => []TypeOK
  BY InitTypes, NextTypes, PTL DEF Spec

-----------------------------------------------------------------------------
(* What a step leaves alone. *)

\* The envelopes in the channel.
LEMMA Envelopes ==
  ASSUME TypeOK
  PROVE  /\ receive \in Seq(Envelope)
         /\ Len(receive) \in Nat /\ DOMAIN receive = 1 .. Len(receive)
         /\ \A i \in DOMAIN receive :
              /\ receive[i].revision \in Nat
              /\ receive[i].kind \in Method => receive[i].id \in Id
  <1>1. receive \in Seq(Envelope)
    BY DEF TypeOK
  <1>2. Len(receive) \in Nat /\ DOMAIN receive = 1 .. Len(receive)
    BY <1>1
  <1>3. \A i \in DOMAIN receive : receive[i] \in Envelope
    BY <1>1
  <1>4. QED
    BY <1>1, <1>2, <1>3 DEF Envelope, Change, Method, Analyse

\* An envelope is sent to the end of the channel.
LEMMA SendChannel ==
  ASSUME TypeOK, NEW envelope \in Envelope, Send(envelope)
  PROVE  /\ DOMAIN receive' = 1 .. Len(receive) + 1
         /\ \A i \in 1 .. Len(receive) : receive'[i] = receive[i]
         /\ receive'[Len(receive) + 1] = envelope
  <1>1. receive \in Seq(Envelope) /\ receive' = Append(receive, envelope)
    BY DEF TypeOK, Send
  <1>2. QED
    BY <1>1

\* The first envelope is taken from the channel.
LEMMA TakeChannel ==
  ASSUME TypeOK, Take
  PROVE  /\ 1 \in DOMAIN receive
         /\ DOMAIN receive' = 1 .. Len(receive) - 1 /\ Len(receive') = Len(receive) - 1
         /\ \A i \in DOMAIN receive' :
              i + 1 \in DOMAIN receive /\ receive'[i] = receive[i + 1]
  <1>1. receive \in Seq(Envelope) /\ receive # <<>> /\ receive' = Tail(receive)
    BY TakeTypes DEF TypeOK
  <1>2. QED
    BY <1>1

\* The router and the watcher leave the worker alone.
LEMMA RouterFrame ==
  ASSUME TypeOK, Router \/ FilesChanged
  PROVE  /\ UNCHANGED <<pc, job, at, outcome>>
         /\ UNCHANGED <<workerRevision, documents, dirty, shutdown>>
         /\ UNCHANGED <<background, analysed, checked, applied>>
         /\ UNCHANGED <<published, replies, shown>>
  <1> USE DEF place, worker, analysis, client
  <1>1. CASE DidOpen \/ DidChange \/ DidClose \/ DidInvalidate \/ FilesChanged
    <2>1. PICK kind \in Change, changed \in BOOLEAN : NewRevision(kind, changed)
      BY <1>1, Changes
    <2>2. QED
      BY <2>1 DEF NewRevision
  <1>2. CASE \E id \in Id : CancelRequest(id)
    BY <1>2 DEF CancelRequest
  <1>3. CASE \E id \in Id, method \in Method : AskRequest(id, method)
    BY <1>3 DEF AskRequest
  <1>4. CASE Exit
    BY <1>4 DEF Exit
  <1>5. CASE Disconnect
    BY <1>5 DEF Disconnect
  <1>6. QED
    BY <1>1, <1>2, <1>3, <1>4, <1>5 DEF Router

\* The critical sections and the taking of envelopes are the only steps of the
\* worker that change what it shares.
LEMMA WorkerFrame ==
  ASSUME TypeOK, Worker
  PROVE  /\ UNCHANGED <<revision, latest, asked, withdrawn>>
         /\ ~(TakeChange \/ TakeCancel \/ TakeExit \/ TakeRequest) =>
               UNCHANGED <<receive, workerRevision, applied, shutdown, documents>>
         /\ ~(Begin \/ End) => UNCHANGED active
         /\ ~Release => UNCHANGED <<pending, cancelled>>
         /\ ~(TakeRequest \/ Release) => UNCHANGED at
  <1> USE DEF schedule, place, worker, analysis, client
  <1>1. CASE TakeChange \/ TakeCancel \/ TakeExit \/ TakeRequest
    BY <1>1 DEF TakeChange, TakeCancel, TakeExit, TakeRequest
  <1>2. CASE \/ Drained \/ MustRefresh \/ MustCheck \/ WaitForQuiet \/ QuietElapsed
             \/ QuietBroken \/ MustPublish
    BY <1>2 DEF Drained, MustRefresh, MustCheck, WaitForQuiet, QuietElapsed,
                QuietBroken, MustPublish, Question
  <1>3. CASE Begin \/ Start \/ Unwind \/ Refresh \/ Answer \/ CheckBackground
    BY <1>3 DEF Begin, Start, Unwind, Refresh, Answer, CheckBackground
  <1>4. CASE Render \/ Publish \/ Finish \/ End \/ Respond \/ Release
    BY <1>4 DEF Render, Publish, Finish, End, Respond, Release
  <1>5. QED
    BY <1>1, <1>2, <1>3, <1>4 DEF Worker

\* The steps that take an envelope.
LEMMA Takes ==
  (TakeChange \/ TakeCancel \/ TakeExit \/ TakeRequest) => Take
  BY DEF TakeChange, TakeCancel, TakeExit, TakeRequest

-----------------------------------------------------------------------------
(* Cancellation *)

LEMMA NextObsolete ==
  ASSUME TypeOK, ObsoleteWorkIsCancelled, [Next]_vars
  PROVE  ObsoleteWorkIsCancelled'
  <1>1. CASE DidOpen \/ DidChange \/ DidClose \/ DidInvalidate \/ FilesChanged
    <2>1. PICK kind \in Change, changed \in BOOLEAN : NewRevision(kind, changed)
      BY <1>1, Changes
    <2>2. active' = Null \/ active'.cancelled
      BY <2>1, InterruptedTypes DEF NewRevision, TypeOK
    <2>3. QED
      BY <2>2 DEF ObsoleteWorkIsCancelled
  <1>2. ASSUME NEW id \in Id, CancelRequest(id) PROVE ObsoleteWorkIsCancelled'
    <2>1. /\ revision' = revision /\ pending' = pending
          /\ workerRevision' = workerRevision
          /\ cancelled' \subseteq cancelled \union {id}
      BY <1>2 DEF CancelRequest, worker
    <2>2. (active # Null /\ active.id = id) \in BOOLEAN
      OBVIOUS
    <2>3. active # Null /\ active' # Null =>
            /\ active'.id = active.id
            /\ active.cancelled \/ active.id = id => active'.cancelled
      BY <1>2, <2>2, InterruptedTypes DEF CancelRequest, TypeOK
    <2>4. active' # Null => active # Null
      BY <1>2, <2>2, InterruptedTypes DEF CancelRequest, TypeOK
    <2>5. QED
      BY <2>1, <2>3, <2>4 DEF ObsoleteWorkIsCancelled, Obsolete
  <1>3. ASSUME NEW id \in Id, NEW method \in Method, AskRequest(id, method)
        PROVE  ObsoleteWorkIsCancelled'
    <2>1. /\ revision' = revision /\ cancelled' = cancelled
          /\ workerRevision' = workerRevision
      BY <1>3 DEF AskRequest, worker
    <2> DEFINE stop == active # Null /\ (active.id = Null \/ method = "shutdown")
    <2>2. stop \in BOOLEAN
      OBVIOUS
    <2>3. active' = Interrupted(stop)
      BY <1>3 DEF AskRequest
    <2>4. active # Null /\ active' # Null =>
            /\ active'.id = active.id
            /\ active.cancelled \/ stop => active'.cancelled
      BY <2>2, <2>3, InterruptedTypes DEF TypeOK
    <2>5. active' # Null => active # Null
      BY <2>2, <2>3, InterruptedTypes DEF TypeOK
    <2>6. QED
      BY <2>1, <2>4, <2>5 DEF ObsoleteWorkIsCancelled, Obsolete
  <1>4. CASE Exit \/ Disconnect
    BY <1>4 DEF Exit, Disconnect, ObsoleteWorkIsCancelled, Obsolete, schedule, worker
  <1>5. CASE TakeChange \/ TakeCancel \/ TakeExit \/ TakeRequest
    <2>1. active = Null
      BY <1>5, Takes, TakeTypes
    <2>2. active' = active
      BY <1>5 DEF TakeChange, TakeCancel, TakeExit, TakeRequest, schedule
    <2>3. QED
      BY <2>1, <2>2 DEF ObsoleteWorkIsCancelled
  <1>6. CASE Begin
    <2>1. /\ active' = [id |-> Subject, cancelled |-> Obsolete(Subject)]
          /\ UNCHANGED <<revision, pending, cancelled, workerRevision>>
      BY <1>6 DEF Begin, worker
    <2>2. QED
      BY <2>1 DEF ObsoleteWorkIsCancelled, Obsolete
  <1>7. CASE End
    BY <1>7 DEF End, ObsoleteWorkIsCancelled
  <1>8. CASE Release
    <2>1. active = Null /\ active' = active
      BY <1>8 DEF TypeOK, InPlace, Working, Release
    <2>2. QED
      BY <2>1 DEF ObsoleteWorkIsCancelled
  <1>9. CASE UNCHANGED <<schedule, workerRevision>>
    BY <1>9 DEF ObsoleteWorkIsCancelled, Obsolete, schedule
  <1>10. CASE Worker
    BY <1>5, <1>6, <1>7, <1>8, <1>9, <1>10, WorkerFrame DEF schedule
  <1>11. QED
    BY <1>1, <1>2, <1>3, <1>4, <1>9, <1>10 DEF Next, Router, vars, worker

\* Whatever order the router's critical sections and begin take, work that the
\* schedule would refuse is told so (lsp.rs, Schedule and Worker::begin).
THEOREM ObsoleteCancelled == Spec => []ObsoleteWorkIsCancelled
  <1>1. Init => ObsoleteWorkIsCancelled
    BY DEF Init, ObsoleteWorkIsCancelled
  <1>2. QED
    BY <1>1, InitTypes, NextTypes, NextObsolete, PTL DEF Spec

-----------------------------------------------------------------------------
(* Registrations *)

\* What sending and taking do to the requests in the channel.
LEMMA SendQueued ==
  ASSUME TypeOK, NEW envelope \in Envelope, Send(envelope)
  PROVE  Queued' = IF envelope.kind \in Method THEN Queued \union {envelope.id} ELSE Queued
  <1> DEFINE n == Len(receive)
  <1>1. n \in Nat /\ DOMAIN receive' = 1 .. n + 1 /\ receive'[n + 1] = envelope
    BY SendChannel, Envelopes
  <1>2. \A i \in 1 .. n : receive'[i] = receive[i]
    BY SendChannel
  <1>3. Len(receive') = n + 1
    BY DEF Send, TypeOK
  <1>4. envelope.kind \in Method => envelope.id \in Id
    BY DEF Envelope, Change, Method, Analyse
  <1>5. QED
    BY <1>1, <1>2, <1>3, <1>4 DEF Queued

LEMMA TakeQueued ==
  ASSUME TypeOK, Registered, Take
  PROVE  /\ Head(receive).kind \in Method =>
              /\ Head(receive).id \notin Queued'
              /\ Queued = Queued' \union {Head(receive).id}
         /\ Head(receive).kind \notin Method => Queued' = Queued
  <1> DEFINE n == Len(receive)
  <1>1. /\ n \in Nat /\ DOMAIN receive = 1 .. n /\ 1 \in DOMAIN receive
        /\ Head(receive) = receive[1]
        /\ receive[1].kind \in Method => receive[1].id \in Id
    BY TakeChannel, TakeTypes, Envelopes
  <1>2. /\ DOMAIN receive' = 1 .. n - 1
        /\ \A i \in 1 .. n - 1 : receive'[i] = receive[i + 1]
    BY TakeChannel
  <1>3. Len(receive') = n - 1
    BY TakeChannel
  <1>4. \A i, j \in 1 .. n :
          receive[i].kind \in Method /\ receive[j].kind \in Method
          /\ receive[i].id = receive[j].id => i = j
    BY <1>1 DEF Registered
  <1>5. Queued' = {id \in Id : \E i \in 2 .. n :
                                  receive[i].kind \in Method /\ receive[i].id = id}
    <2>1. ASSUME NEW id \in Id,
                 NEW i \in 1 .. n - 1, receive'[i].kind \in Method, receive'[i].id = id
          PROVE  \E j \in 2 .. n : receive[j].kind \in Method /\ receive[j].id = id
      BY <1>1, <1>2, <2>1
    <2>2. ASSUME NEW id \in Id,
                 NEW j \in 2 .. n, receive[j].kind \in Method, receive[j].id = id
          PROVE  \E i \in 1 .. n - 1 : receive'[i].kind \in Method /\ receive'[i].id = id
      <3>1. j - 1 \in 1 .. n - 1 /\ receive'[j - 1] = receive[j]
        BY <1>1, <1>2
      <3>2. QED
        BY <2>2, <3>1
    <2>3. QED
      BY <1>3, <2>1, <2>2 DEF Queued
  <1>6. Queued = {id \in Id : \E i \in 1 .. n :
                                  receive[i].kind \in Method /\ receive[i].id = id}
    BY DEF Queued
  <1>7. \A i \in 1 .. n : i = 1 \/ i \in 2 .. n
    BY <1>1
  <1>8. CASE receive[1].kind \in Method
    <2>1. Queued = Queued' \union {receive[1].id}
      BY <1>1, <1>5, <1>6, <1>7, <1>8
    <2>2. receive[1].id \notin Queued'
      <3>1. \A i \in 2 .. n : receive[i].kind \in Method => receive[i].id # receive[1].id
        BY <1>1, <1>4, <1>8
      <3>2. QED
        BY <1>5, <3>1
    <2>3. QED
      BY <1>1, <1>8, <2>1, <2>2
  <1>9. CASE receive[1].kind \notin Method
    <2>1. Queued' = Queued
      BY <1>1, <1>5, <1>6, <1>7, <1>9
    <2>2. QED
      BY <1>1, <1>9, <2>1
  <1>10. QED
    BY <1>8, <1>9

\* Requests in the channel stay distinct.
Distinct ==
  \A i, j \in DOMAIN receive :
     receive[i].kind \in Method /\ receive[j].kind \in Method
     /\ receive[i].id = receive[j].id => i = j

LEMMA SendDistinct ==
  ASSUME TypeOK, Distinct, NEW envelope \in Envelope, Send(envelope),
         envelope.kind \in Method => envelope.id \notin Queued
  PROVE  Distinct'
  <1> DEFINE n == Len(receive)
  <1>1. /\ n \in Nat /\ DOMAIN receive = 1 .. n /\ DOMAIN receive' = 1 .. n + 1
        /\ receive'[n + 1] = envelope
        /\ \A i \in 1 .. n : receive'[i] = receive[i]
    BY SendChannel, Envelopes
  <1>2. \A i \in 1 .. n : receive[i].kind \in Method => receive[i].id \in Queued
    BY <1>1, Envelopes DEF Queued
  <1>3. \A i \in 1 .. n + 1 : i \in 1 .. n \/ i = n + 1
    BY <1>1
  <1>4. QED
    BY <1>1, <1>2, <1>3 DEF Distinct

LEMMA TakeDistinct ==
  ASSUME TypeOK, Distinct, Take
  PROVE  Distinct'
  <1>1. /\ Len(receive) \in Nat /\ DOMAIN receive' \subseteq Nat
        /\ \A i \in DOMAIN receive' :
             i + 1 \in DOMAIN receive /\ receive'[i] = receive[i + 1]
    BY TakeChannel, Envelopes
  <1>2. QED
    BY <1>1 DEF Distinct

\* A step of the router, given what it sends.
LEMMA RouterRegistered ==
  ASSUME TypeOK, Registered, Router \/ FilesChanged
  PROVE  Registered'
  <1>1. Distinct
    BY DEF Registered, Distinct
  <1>2. at' = at
    BY RouterFrame
  <1>3. CASE DidOpen \/ DidChange \/ DidClose \/ DidInvalidate \/ FilesChanged
    <2>1. PICK kind \in Change, changed \in BOOLEAN : NewRevision(kind, changed)
      BY <1>3, Changes
    <2> DEFINE e == [revision |-> revision + 1, kind |-> kind, changed |-> changed]
    <2>2. e \in Envelope /\ e.kind \notin Method
      BY DEF TypeOK, Envelope, Change, Method, Analyse
    <2>3. Send(e) /\ UNCHANGED <<pending, cancelled, asked, withdrawn>>
      BY <2>1 DEF NewRevision
    <2>4. Queued' = Queued /\ Distinct'
      BY <1>1, <2>2, <2>3, SendQueued, SendDistinct
    <2>5. QED
      BY <1>2, <2>3, <2>4 DEF Registered, RegistrationsAreLive, Distinct
  <1>4. ASSUME NEW id \in Id, CancelRequest(id) PROVE Registered'
    <2> DEFINE e == [revision |-> revision, kind |-> "cancel"]
    <2>1. e \in Envelope /\ e.kind \notin Method
      BY DEF TypeOK, Envelope, Method, Analyse
    <2>2. Send(e) /\ UNCHANGED <<pending, asked>>
      BY <1>4 DEF CancelRequest
    <2>3. Queued' = Queued /\ Distinct'
      BY <1>1, <2>1, <2>2, SendQueued, SendDistinct
    <2>4. /\ id \in asked /\ withdrawn' = withdrawn \union {id}
          /\ id \in pending => cancelled' = cancelled \union {id}
          /\ id \notin pending => cancelled' = cancelled
      BY <1>4 DEF CancelRequest
    <2>5. QED
      BY <1>2, <2>2, <2>3, <2>4 DEF Registered, RegistrationsAreLive, Distinct
  <1>5. ASSUME NEW id \in Id, NEW method \in Method, AskRequest(id, method)
        PROVE  Registered'
    <2> DEFINE e == [revision |-> revision, kind |-> method, id |-> id]
    <2>1. e \in Envelope /\ e.kind \in Method /\ e.id = id
      BY DEF TypeOK, Envelope
    <2>2. /\ Send(e) /\ UNCHANGED <<cancelled, withdrawn>> /\ id \notin asked
          /\ asked' = asked \union {id} /\ pending' = pending \union {id}
      BY <1>5 DEF AskRequest
    <2>3. id \notin pending /\ id \notin Queued /\ (at # Null => id # at.id)
      BY <2>2 DEF Registered, RegistrationsAreLive
    <2>4. Queued' = Queued \union {id} /\ Distinct'
      BY <1>1, <2>1, <2>2, <2>3, SendQueued, SendDistinct
    <2>5. QED
      BY <1>2, <2>2, <2>3, <2>4 DEF Registered, RegistrationsAreLive, Distinct
  <1>6. CASE Exit
    <2> DEFINE e == [revision |-> revision, kind |-> "exit"]
    <2>1. e \in Envelope /\ e.kind \notin Method
      BY DEF TypeOK, Envelope, Method, Analyse
    <2>2. Send(e) /\ UNCHANGED <<pending, cancelled, asked, withdrawn>>
      BY <1>6 DEF Exit, schedule, client
    <2>3. Queued' = Queued /\ Distinct'
      BY <1>1, <2>1, <2>2, SendQueued, SendDistinct
    <2>4. QED
      BY <1>2, <2>2, <2>3 DEF Registered, RegistrationsAreLive, Distinct
  <1>7. CASE Disconnect
    BY <1>7 DEF Disconnect, Registered, RegistrationsAreLive, Queued, schedule, place,
                client
  <1>8. QED
    BY <1>3, <1>4, <1>5, <1>6, <1>7 DEF Router

LEMMA WorkerRegistered ==
  ASSUME TypeOK, Registered, Worker
  PROVE  Registered'
  <1>1. Distinct /\ UNCHANGED <<asked, withdrawn>>
    BY WorkerFrame DEF Registered, Distinct
  <1>2. CASE TakeChange \/ TakeCancel \/ TakeExit
    <2>1. Take /\ Head(receive).kind \notin Method
      BY <1>2 DEF TakeChange, TakeCancel, TakeExit, Change, Method, Analyse
    <2>2. UNCHANGED <<pending, cancelled, at>>
      BY <1>2 DEF TakeChange, TakeCancel, TakeExit, schedule
    <2>3. Queued' = Queued /\ Distinct'
      BY <1>1, <2>1, TakeQueued, TakeDistinct
    <2>4. QED
      BY <1>1, <2>2, <2>3 DEF Registered, RegistrationsAreLive, Distinct
  <1>3. CASE TakeRequest
    <2>1. Take /\ Head(receive).kind \in Method /\ at = Null
      BY <1>3, TakeTypes DEF TakeRequest
    <2>2. /\ at'.id = Head(receive).id /\ at' # Null
          /\ UNCHANGED <<pending, cancelled>>
      <3>1. at' = [id |-> Head(receive).id, method |-> Head(receive).kind]
        BY <1>3 DEF TakeRequest
      <3>2. at' \in Request
        BY <2>1, <3>1, TakeTypes DEF Request
      <3>3. QED
        BY <1>3, <3>1, <3>2, NullIsNothing DEF TakeRequest, schedule
    <2>3. /\ Queued = Queued' \union {at'.id} /\ at'.id \notin Queued'
          /\ Distinct'
      BY <1>1, <2>1, <2>2, TakeQueued, TakeDistinct
    <2>4. QED
      BY <1>1, <2>1, <2>2, <2>3 DEF Registered, RegistrationsAreLive, Distinct
  <1>4. CASE Release
    <2>1. /\ at # Null /\ at' = Null /\ receive' = receive
          /\ pending' = pending \ {at.id} /\ cancelled' = cancelled \ {at.id}
      BY <1>4 DEF Release, TypeOK, InPlace
    <2>2. Queued' = Queued
      BY <2>1 DEF Queued
    <2>3. QED
      BY <1>1, <2>1, <2>2 DEF Registered, RegistrationsAreLive, Distinct
  <1>5. CASE ~(TakeChange \/ TakeCancel \/ TakeExit \/ TakeRequest \/ Release)
    <2>1. UNCHANGED <<receive, pending, cancelled, at>>
      BY <1>5, WorkerFrame
    <2>2. QED
      BY <1>1, <2>1 DEF Registered, RegistrationsAreLive, Queued
  <1>6. QED
    BY <1>2, <1>3, <1>4, <1>5

LEMMA InitRegistered == Init => Registered
  BY DEF Init, Registered, RegistrationsAreLive, Queued

LEMMA NextRegistered ==
  ASSUME TypeOK, Registered, [Next]_vars
  PROVE  Registered'
  <1>1. CASE UNCHANGED vars
    BY <1>1 DEF Registered, RegistrationsAreLive, Queued, vars, schedule, place, client
  <1>2. QED
    BY <1>1, RouterRegistered, WorkerRegistered DEF Next

\* The schedule remembers exactly the requests the worker still owes an answer,
\* and cancellations of no others (lsp.rs, RequestRegistration).
THEOREM Registrations == Spec => []RegistrationsAreLive
  <1>1. Registered => RegistrationsAreLive
    BY DEF Registered
  <1>2. QED
    BY <1>1, InitTypes, NextTypes, InitRegistered, NextRegistered, PTL DEF Spec

-----------------------------------------------------------------------------
(* The order of the channel, and the worker's text *)

\* Sending an envelope stamped as the router stamps it keeps the order.
LEMMA SendOrdered ==
  ASSUME TypeOK, Ordered, NEW envelope \in Envelope, Send(envelope),
         workerRevision' = workerRevision, revision' \in Nat,
         envelope.revision = revision', revision' >= revision,
         envelope.kind \in Change => revision' > revision
  PROVE  Ordered'
  <1> DEFINE n == Len(receive)
  <1>1. /\ n \in Nat /\ DOMAIN receive = 1 .. n /\ DOMAIN receive' = 1 .. n + 1
        /\ receive'[n + 1] = envelope
        /\ \A i \in 1 .. n : receive'[i] = receive[i] /\ receive[i].revision \in Nat
    BY SendChannel, Envelopes
  <1>2. revision \in Nat /\ workerRevision \in Nat
    BY DEF TypeOK
  <1>3. \A i \in 1 .. n + 1 : i \in 1 .. n \/ i = n + 1
    BY <1>1
  <1>4. \A i \in 1 .. n : receive[i].revision <= revision
    BY <1>1 DEF Ordered
  <1>5. \A i \in DOMAIN receive' :
          /\ workerRevision' <= receive'[i].revision
          /\ receive'[i].revision <= revision'
          /\ receive'[i].kind \in Change => workerRevision' < receive'[i].revision
    BY <1>1, <1>2, <1>3 DEF Ordered
  <1>6. \A i, j \in DOMAIN receive' : i < j =>
          /\ receive'[i].revision <= receive'[j].revision
          /\ receive'[j].kind \in Change => receive'[i].revision < receive'[j].revision
    <2> SUFFICES ASSUME NEW i \in 1 .. n + 1, NEW j \in 1 .. n + 1, i < j
                 PROVE  /\ receive'[i].revision <= receive'[j].revision
                        /\ receive'[j].kind \in Change =>
                              receive'[i].revision < receive'[j].revision
      BY <1>1
    <2>1. i \in 1 .. n
      BY <1>1
    <2>2. CASE j \in 1 .. n
      BY <1>1, <2>1, <2>2 DEF Ordered
    <2>3. CASE j = n + 1
      BY <1>1, <1>2, <1>4, <2>1, <2>3
    <2>4. QED
      BY <1>3, <2>2, <2>3
  <1>7. QED
    BY <1>2, <1>5, <1>6 DEF Ordered

\* Taking an envelope keeps the order.
LEMMA TakeOrdered ==
  ASSUME TypeOK, Ordered, Take, revision' = revision
  PROVE  Ordered'
  <1> DEFINE n == Len(receive)
  <1>1. /\ n \in Nat /\ DOMAIN receive = 1 .. n /\ 1 \in 1 .. n
        /\ DOMAIN receive' = 1 .. n - 1
        /\ \A i \in 1 .. n - 1 : i + 1 \in 1 .. n /\ receive'[i] = receive[i + 1]
        /\ workerRevision' = receive[1].revision
        /\ \A i \in 1 .. n : receive[i].revision \in Nat
    BY TakeChannel, TakeTypes, Envelopes
  <1>2. workerRevision' <= revision'
    BY <1>1 DEF Ordered
  <1>3. \A i \in DOMAIN receive' :
          /\ workerRevision' <= receive'[i].revision
          /\ receive'[i].revision <= revision'
          /\ receive'[i].kind \in Change => workerRevision' < receive'[i].revision
    <2>1. \A i \in 1 .. n - 1 : 1 < i + 1
      BY <1>1
    <2>2. QED
      BY <1>1, <2>1 DEF Ordered
  <1>4. \A i, j \in DOMAIN receive' : i < j =>
          /\ receive'[i].revision <= receive'[j].revision
          /\ receive'[j].kind \in Change => receive'[i].revision < receive'[j].revision
    <2>1. \A i, j \in 1 .. n - 1 : i < j => i + 1 < j + 1
      BY <1>1
    <2>2. QED
      BY <1>1, <2>1 DEF Ordered
  <1>5. QED
    BY <1>2, <1>3, <1>4 DEF Ordered

\* Sending an envelope that brings a text keeps track of the latest one.
LEMMA SendTexts ==
  ASSUME TypeOK, Texts, NEW envelope \in Envelope, Send(envelope),
         UNCHANGED <<applied, workerRevision, shutdown>>,
         revision' \in Nat, latest' \in Nat, latest <= latest', latest' <= revision',
         envelope.kind \in Change /\ envelope.changed =>
            envelope.revision = latest',
         ~(envelope.kind \in Change /\ envelope.changed) => latest' = latest
  PROVE  Texts'
  <1> DEFINE n == Len(receive)
  <1>1. /\ n \in Nat /\ DOMAIN receive = 1 .. n /\ DOMAIN receive' = 1 .. n + 1
        /\ receive'[n + 1] = envelope
        /\ \A i \in 1 .. n : receive'[i] = receive[i] /\ receive[i].revision \in Nat
    BY SendChannel, Envelopes
  <1>2. applied \in Nat /\ latest \in Nat /\ workerRevision \in Nat
    BY DEF TypeOK
  <1>3. applied' <= workerRevision' /\ latest' <= revision'
    BY DEF Texts
  <1> PICK last \in Nat : last = n + 1
    BY <1>1
  <1>4. \A i \in 1 .. n + 1 : i \in 1 .. n \/ i = last
    BY <1>1
  <1>5. \A i \in 1 .. n : Brings(i)' <=> Brings(i)
    BY <1>1 DEF Brings
  <1>6. Brings(last)' <=> envelope.kind \in Change /\ envelope.changed
    BY <1>1 DEF Brings
  <1>7. \A i \in DOMAIN receive' : Brings(i)' => receive'[i].revision <= latest'
    BY <1>1, <1>2, <1>4, <1>5, <1>6 DEF Texts
  <1>8. \/ shutdown' \/ applied' = latest'
        \/ \E i \in DOMAIN receive' : Brings(i)' /\ receive'[i].revision = latest'
    <2>1. CASE envelope.kind \in Change /\ envelope.changed
      <3>1. last \in DOMAIN receive'
        BY <1>1
      <3>2. QED
        BY <1>1, <1>6, <2>1, <3>1
    <2>2. CASE ~(envelope.kind \in Change /\ envelope.changed)
      <3>1. latest' = latest
        BY <2>2
      <3>2. CASE shutdown \/ applied = latest
        BY <3>1, <3>2
      <3>3. CASE \E i \in DOMAIN receive : Brings(i) /\ receive[i].revision = latest
        <4>1. PICK i \in 1 .. n : Brings(i) /\ receive[i].revision = latest
          BY <1>1, <3>3
        <4>2. i \in DOMAIN receive' /\ Brings(i)' /\ receive'[i].revision = latest'
          BY <1>1, <1>5, <3>1, <4>1
        <4>3. QED
          BY <4>2
      <3>4. QED
        BY <3>2, <3>3 DEF Texts
    <2>3. QED
      BY <2>1, <2>2
  <1>9. QED
    BY <1>3, <1>7, <1>8 DEF Texts

\* The worker's text follows what it takes: before a shutdown it becomes that
\* of a change that alters it and otherwise stays.
LEMMA TakeTexts ==
  ASSUME TypeOK, Ordered, Texts, Take, UNCHANGED <<revision, latest>>,
         shutdown => shutdown',
         shutdown \/ ~Brings(1) => applied' = applied,
         ~shutdown /\ Brings(1) => applied' = receive[1].revision
  PROVE  Texts'
  <1> DEFINE n == Len(receive)
  <1>1. /\ n \in Nat /\ DOMAIN receive = 1 .. n /\ 1 \in 1 .. n
        /\ DOMAIN receive' = 1 .. n - 1
        /\ \A i \in 1 .. n - 1 : i + 1 \in 1 .. n /\ receive'[i] = receive[i + 1]
        /\ workerRevision' = receive[1].revision
        /\ \A i \in 1 .. n : receive[i].revision \in Nat
    BY TakeChannel, TakeTypes, Envelopes
  <1>2. /\ applied \in Nat /\ latest \in Nat /\ workerRevision \in Nat
        /\ workerRevision <= receive[1].revision
    BY <1>1 DEF TypeOK, Ordered
  <1>3. applied' <= workerRevision' /\ latest' <= revision'
    BY <1>1, <1>2 DEF Texts
  <1>4. \A i \in 1 .. n - 1 : Brings(i)' <=> Brings(i + 1)
    BY <1>1 DEF Brings
  <1>5. \A i \in DOMAIN receive' : Brings(i)' => receive'[i].revision <= latest'
    BY <1>1, <1>4 DEF Texts
  <1>6. ASSUME ~shutdown
        PROVE  \/ applied' = latest'
               \/ \E i \in DOMAIN receive' : Brings(i)' /\ receive'[i].revision = latest'
    <2>1. CASE applied = latest
      <3>1. ~Brings(1)
        <4>1. Brings(1) => receive[1].revision <= latest /\ workerRevision < receive[1].revision
          BY <1>1 DEF Texts, Ordered, Brings
        <4>2. QED
          BY <1>1, <1>2, <2>1, <4>1 DEF Texts
      <3>2. QED
        BY <2>1, <3>1
    <2>2. CASE applied # latest
      <3>1. PICK i \in 1 .. n : Brings(i) /\ receive[i].revision = latest
        BY <1>1, <1>6, <2>2 DEF Texts
      <3>2. CASE i = 1
        BY <1>6, <3>1, <3>2
      <3>3. CASE i # 1
        <4>1. i - 1 \in 1 .. n - 1 /\ (i - 1) + 1 = i
          BY <1>1, <3>3
        <4>2. Brings(i - 1)' /\ receive'[i - 1].revision = latest'
          BY <1>1, <1>4, <3>1, <4>1
        <4>3. QED
          BY <1>1, <4>1, <4>2
      <3>4. QED
        BY <3>2, <3>3
    <2>3. QED
      BY <2>1, <2>2
  <1>7. shutdown' \/ ~shutdown
    BY DEF TypeOK
  <1>8. QED
    BY <1>3, <1>5, <1>6, <1>7 DEF Texts

LEMMA NextOrdered ==
  ASSUME TypeOK, Ordered, [Next]_vars
  PROVE  Ordered'
  <1> USE DEF schedule, place, worker
  <1>1. CASE DidOpen \/ DidChange \/ DidClose \/ DidInvalidate \/ FilesChanged
    <2>1. PICK kind \in Change, changed \in BOOLEAN : NewRevision(kind, changed)
      BY <1>1, Changes
    <2> DEFINE e == [revision |-> revision + 1, kind |-> kind, changed |-> changed]
    <2>2. e \in Envelope /\ e.revision = revision + 1
      BY DEF TypeOK, Envelope
    <2>3. Send(e) /\ workerRevision' = workerRevision /\ revision' = revision + 1
      BY <2>1 DEF NewRevision
    <2>4. revision \in Nat
      BY DEF TypeOK
    <2>5. QED
      BY <2>2, <2>3, <2>4, SendOrdered
  <1>2. ASSUME NEW id \in Id, CancelRequest(id) PROVE Ordered'
    <2> DEFINE e == [revision |-> revision, kind |-> "cancel"]
    <2>1. e \in Envelope /\ e.revision = revision /\ e.kind \notin Change /\ revision \in Nat
      BY DEF TypeOK, Envelope, Change
    <2>2. Send(e) /\ UNCHANGED <<workerRevision, revision>>
      BY <1>2 DEF CancelRequest
    <2>3. QED
      BY <2>1, <2>2, SendOrdered
  <1>3. ASSUME NEW id \in Id, NEW method \in Method, AskRequest(id, method) PROVE Ordered'
    <2> DEFINE e == [revision |-> revision, kind |-> method, id |-> id]
    <2>1. e \in Envelope /\ e.revision = revision /\ e.kind \notin Change /\ revision \in Nat
      BY DEF TypeOK, Envelope, Change, Method, Analyse
    <2>2. Send(e) /\ UNCHANGED <<workerRevision, revision>>
      BY <1>3 DEF AskRequest
    <2>3. QED
      BY <2>1, <2>2, SendOrdered
  <1>4. CASE Exit
    <2> DEFINE e == [revision |-> revision, kind |-> "exit"]
    <2>1. e \in Envelope /\ e.revision = revision /\ e.kind \notin Change /\ revision \in Nat
      BY DEF TypeOK, Envelope, Change
    <2>2. Send(e) /\ UNCHANGED <<workerRevision, revision>>
      BY <1>4 DEF Exit
    <2>3. QED
      BY <2>1, <2>2, SendOrdered
  <1>5. CASE TakeChange \/ TakeCancel \/ TakeExit \/ TakeRequest
    <2>1. Take /\ revision' = revision
      BY <1>5, Takes, WorkerFrame DEF Worker
    <2>2. QED
      BY <2>1, TakeOrdered
  <1>6. CASE UNCHANGED <<revision, receive, workerRevision>>
    BY <1>6 DEF Ordered
  <1>7. CASE Disconnect \/ UNCHANGED vars
    BY <1>6, <1>7 DEF Disconnect, vars
  <1>8. CASE Worker
    BY <1>5, <1>6, <1>8, WorkerFrame
  <1>9. QED
    BY <1>1, <1>2, <1>3, <1>4, <1>7, <1>8 DEF Next, Router

LEMMA NextTexts ==
  ASSUME TypeOK, Ordered, Texts, [Next]_vars
  PROVE  Texts'
  <1> USE DEF schedule, place, worker
  <1>0. latest <= revision /\ latest \in Nat /\ revision \in Nat
    BY DEF Texts, TypeOK
  <1>1. CASE DidOpen \/ DidChange \/ DidClose \/ DidInvalidate \/ FilesChanged
    <2>1. PICK kind \in Change, changed \in BOOLEAN : NewRevision(kind, changed)
      BY <1>1, Changes
    <2> DEFINE e == [revision |-> revision + 1, kind |-> kind, changed |-> changed]
    <2>2. /\ e \in Envelope /\ e.revision = revision + 1 /\ e.kind \in Change
          /\ e.changed = changed
      BY DEF TypeOK, Envelope
    <2>3. /\ Send(e) /\ UNCHANGED <<applied, workerRevision, shutdown>>
          /\ revision' = revision + 1
          /\ latest' = IF changed THEN revision + 1 ELSE latest
      BY <2>1 DEF NewRevision
    <2>4. QED
      BY <1>0, <2>2, <2>3, SendTexts
  <1>2. ASSUME NEW id \in Id, CancelRequest(id) PROVE Texts'
    <2> DEFINE e == [revision |-> revision, kind |-> "cancel"]
    <2>1. e \in Envelope /\ e.kind \notin Change
      BY DEF TypeOK, Envelope, Change
    <2>2. Send(e) /\ UNCHANGED <<applied, workerRevision, shutdown, revision, latest>>
      BY <1>2 DEF CancelRequest
    <2>3. QED
      BY <1>0, <2>1, <2>2, SendTexts
  <1>3. ASSUME NEW id \in Id, NEW method \in Method, AskRequest(id, method) PROVE Texts'
    <2> DEFINE e == [revision |-> revision, kind |-> method, id |-> id]
    <2>1. e \in Envelope /\ e.kind \notin Change
      BY DEF TypeOK, Envelope, Change, Method, Analyse
    <2>2. Send(e) /\ UNCHANGED <<applied, workerRevision, shutdown, revision, latest>>
      BY <1>3 DEF AskRequest
    <2>3. QED
      BY <1>0, <2>1, <2>2, SendTexts
  <1>4. CASE Exit
    <2> DEFINE e == [revision |-> revision, kind |-> "exit"]
    <2>1. e \in Envelope /\ e.kind \notin Change
      BY DEF TypeOK, Envelope, Change
    <2>2. Send(e) /\ UNCHANGED <<applied, workerRevision, shutdown, revision, latest>>
      BY <1>4 DEF Exit
    <2>3. QED
      BY <1>0, <2>1, <2>2, SendTexts
  <1>5. CASE TakeChange \/ TakeCancel \/ TakeExit \/ TakeRequest
    <2>1. /\ Take /\ UNCHANGED <<revision, latest>> /\ Head(receive) = receive[1]
      BY <1>5, Takes, TakeTypes, WorkerFrame DEF Worker
    <2>2. CASE TakeChange
      <3>1. Brings(1) <=> Head(receive).changed
        BY <2>1, <2>2 DEF TakeChange, Brings
      <3>2. /\ shutdown' = shutdown
            /\ shutdown \/ ~Head(receive).changed => applied' = applied
            /\ ~shutdown /\ Head(receive).changed => applied' = Head(receive).revision
        BY <2>2 DEF TakeChange
      <3>3. QED
        BY <2>1, <3>1, <3>2, TakeTexts
    <2>3. CASE TakeCancel \/ TakeExit \/ TakeRequest
      <3>1. ~Brings(1)
        BY <2>1, <2>3
        DEF TakeCancel, TakeExit, TakeRequest, Brings, Change, Method, Analyse
      <3>2. applied' = applied
        BY <2>3 DEF TakeCancel, TakeExit, TakeRequest
      <3>3. shutdown => shutdown'
        BY <2>3 DEF TakeCancel, TakeExit, TakeRequest
      <3>4. QED
        BY <2>1, <3>1, <3>2, <3>3, TakeTexts
    <2>4. QED
      BY <1>5, <2>2, <2>3
  <1>6. CASE UNCHANGED <<revision, receive, workerRevision, latest, applied, shutdown>>
    BY <1>6 DEF Texts, Brings
  <1>7. CASE Disconnect \/ UNCHANGED vars
    BY <1>6, <1>7 DEF Disconnect, vars
  <1>8. CASE Worker
    BY <1>5, <1>6, <1>8, WorkerFrame
  <1>9. QED
    BY <1>1, <1>2, <1>3, <1>4, <1>7, <1>8 DEF Next, Router

\* A worker whose revision is the schedule's has the latest text.
LEMMA UpToDate ==
  ASSUME TypeOK, Ordered, Texts, revision = workerRevision, ~shutdown
  PROVE  applied = latest
  <1>1. \A i \in DOMAIN receive : ~Brings(i)
    <2> SUFFICES ASSUME NEW i \in DOMAIN receive, Brings(i) PROVE FALSE
      OBVIOUS
    <2>1. workerRevision < receive[i].revision /\ receive[i].revision <= revision
      BY DEF Ordered, Brings
    <2>2. receive[i].revision \in Nat /\ revision \in Nat
      BY Envelopes DEF TypeOK
    <2>3. QED
      BY <2>1, <2>2
  <1>2. QED
    BY <1>1 DEF Texts

-----------------------------------------------------------------------------
(* The worker's analysis *)

LEMMA WorkerFresh ==
  ASSUME TypeOK, Fresh, Worker
  PROVE  Fresh'
  <1> USE DEF Fresh, TextOnly, schedule, place, worker, analysis, client
  <1>0. InPlace
    BY DEF TypeOK
  <1>1. CASE TakeChange
    <2>1. pc \in {"recv", "drain"} /\ job = "none"
      BY <1>1, Takes, TakeTypes
    <2>2. pc' = "drain" /\ job' = "none" /\ outcome' # "ok"
      BY <1>1, <2>1 DEF TakeChange, GoTo
    <2>3. ~dirty' => ~dirty /\ applied' = applied
      BY <1>1 DEF TakeChange
    <2>4. UNCHANGED <<analysed, background, checked>>
      BY <1>1 DEF TakeChange
    <2>5. QED
      BY <2>2, <2>3, <2>4
  <1>2. CASE TakeCancel \/ TakeExit
    <2>1. pc \in {"recv", "drain"} /\ job = "none"
      BY <1>2, Takes, TakeTypes
    <2>2. pc' \in {"drain", "stopped"} /\ job' = "none" /\ outcome' # "ok"
      BY <1>2, <2>1 DEF TakeCancel, TakeExit, GoTo
    <2>3. UNCHANGED <<dirty, applied, analysed, background, checked>>
      BY <1>2 DEF TakeCancel, TakeExit
    <2>4. QED
      BY <2>2, <2>3
  <1>3. CASE TakeRequest
    <2>1. pc \in {"recv", "drain"} /\ job = "none"
      BY <1>3, Takes, TakeTypes
    <2>2. pc' \in {"begin", "release"} /\ outcome' # "ok"
      BY <1>3, <2>1 DEF TakeRequest, GoTo
    <2>3. UNCHANGED <<dirty, applied, analysed, background, checked>>
      BY <1>3 DEF TakeRequest
    <2>4. job' # "none" => ~shutdown'
      BY <1>3 DEF TakeRequest, GoTo, Method, Analyse
    <2>5. QED
      BY <2>2, <2>3, <2>4
  <1>4. CASE \/ Drained \/ MustRefresh \/ MustCheck \/ WaitForQuiet \/ QuietElapsed
             \/ QuietBroken \/ MustPublish
    <2>1. /\ pc \in Between /\ pc # "stopped"
          /\ UNCHANGED <<outcome, at, documents, shutdown, dirty, applied, analysed,
                         background, checked>>
      BY <1>4 DEF Drained, MustRefresh, MustCheck, WaitForQuiet, QuietElapsed,
                  QuietBroken, MustPublish, Question, Between
    <2>2. outcome' # "ok" /\ pc' \notin {"rendered", "answering"}
      BY <1>4, <2>1 DEF Drained, MustRefresh, MustCheck, WaitForQuiet, QuietElapsed,
                  QuietBroken, MustPublish, Question, GoTo, Between
    <2>3. job' # "none" \/ pc' = "quiet" => ~shutdown'
      BY <1>0, <1>4 DEF Drained, MustRefresh, MustCheck, WaitForQuiet, QuietElapsed,
           QuietBroken, MustPublish, Question, GoTo, Between, Ready, CheckDue, InPlace
    <2>4. QED
      BY <2>1, <2>2, <2>3
  <1>5. CASE Begin
    BY <1>5 DEF Begin
  <1>6. CASE Start
    BY <1>6 DEF Start
  <1>7. CASE Unwind
    BY <1>0, <1>7 DEF Unwind, InPlace
  <1>8. CASE Refresh
    <2>1. ~dirty' /\ analysed' = applied /\ (background' => checked' = analysed')
      BY <1>8 DEF Refresh
    <2>2. QED
      BY <1>8, <2>1 DEF Refresh
  <1>9. CASE Answer
    BY <1>0, <1>9 DEF Answer, InPlace
  <1>10. CASE CheckBackground
    BY <1>10 DEF CheckBackground
  <1>11. CASE Render
    BY <1>11 DEF Render
  <1>12. CASE Publish
    BY <1>12 DEF Publish
  <1>13. CASE Finish
    BY <1>13 DEF Finish
  <1>14. CASE End
    <2>1. job \in {"answer", "report", "refresh", "background", "retry"} /\ ~shutdown
      BY <1>0, <1>14 DEF TypeOK, Job, InPlace, Working, End
    <2>2. /\ job = "answer" => pc' = "respond" /\ job' = job
          /\ job # "answer" => pc' \in {"drain", "check?", "publish?", "recv"}
                               /\ job' = "none"
      BY <1>14, <2>1 DEF End, AfterJob, GoTo
    <2>3. UNCHANGED <<outcome, at, documents, shutdown, dirty, applied, analysed,
                      background, checked>>
      BY <1>14 DEF End
    <2>4. outcome # "ok" \/ job = "answer"
      OBVIOUS
    <2>5. QED
      BY <2>1, <2>2, <2>3, <2>4
  <1>15. CASE Respond
    BY <1>15 DEF Respond
  <1>16. CASE Release
    BY <1>16 DEF Release, GoTo
  <1>17. QED
    BY <1>1, <1>2, <1>3, <1>4, <1>5, <1>6, <1>7, <1>8, <1>9, <1>10, <1>11, <1>12,
       <1>13, <1>14, <1>15, <1>16 DEF Worker

LEMMA NextFresh ==
  ASSUME TypeOK, Fresh, [Next]_vars
  PROVE  Fresh'
  <1>1. CASE \/ UNCHANGED vars
             \/ Router \/ FilesChanged
    <2>1. UNCHANGED <<pc, job, outcome, at, documents, shutdown, dirty, applied, analysed,
                      background, checked>>
      BY <1>1, RouterFrame DEF vars, place, worker, analysis
    <2>2. QED
      BY <2>1 DEF Fresh, TextOnly
  <1>2. QED
    BY <1>1, WorkerFresh DEF Next

-----------------------------------------------------------------------------
(* Only current results leave the server *)

LEMMA InitSchedule == Init => ScheduleInv
  <1> SUFFICES ASSUME Init PROVE ScheduleInv
    OBVIOUS
  <1>1. DOMAIN receive = {}
    BY DEF Init
  <1>2. Ordered /\ Texts
    BY <1>1 DEF Init, Ordered, Texts
  <1>3. ObsoleteWorkIsCancelled /\ Registered
    BY InitRegistered DEF Init, ObsoleteWorkIsCancelled
  <1>4. Fresh
    BY DEF Init, Fresh
  <1>5. QED
    BY <1>2, <1>3, <1>4 DEF ScheduleInv

LEMMA NextSchedule ==
  ASSUME TypeOK, ScheduleInv, [Next]_vars
  PROVE  ScheduleInv'
  BY NextObsolete, NextOrdered, NextTexts, NextFresh, NextRegistered DEF ScheduleInv

LEMMA StepAnswers ==
  ASSUME TypeOK, ScheduleInv, [Next]_vars,
         NEW id \in Id, replies'[id] = "ok", replies[id] # "ok"
  PROVE  /\ id \notin withdrawn
         /\ latest = IF TextOnly THEN applied ELSE analysed
  <1>1. Respond
    <2>1. CASE UNCHANGED vars \/ Router \/ FilesChanged
      <3>1. replies' = replies
        BY <2>1, RouterFrame DEF vars
      <3>2. QED
        BY <3>1
    <2>2. CASE Worker
      <3>1. CASE TakeRequest
        <4>1. \E reply \in {"done", "refused", "unsupported"} :
                 replies' = replies \/ replies' = [replies EXCEPT ![at'.id] = reply]
          BY <3>1 DEF TakeRequest
        <4>2. QED
          BY <4>1 DEF TypeOK
      <3>2. Respond \/ TakeRequest \/ replies' = replies
        BY <2>2 DEF Worker, TakeChange, TakeCancel, TakeExit, Drained, MustRefresh,
           MustCheck, WaitForQuiet, QuietElapsed, QuietBroken, MustPublish, Question,
           Begin, Start, Unwind, Refresh, Answer, CheckBackground, Render, Publish,
           Finish, End, Release
      <3>3. QED
        BY <3>1, <3>2
    <2>3. QED
      BY <2>1, <2>2 DEF Next
  <1>2. /\ at # Null /\ at.id \in Id /\ job = "answer" /\ pc = "respond"
    BY <1>1 DEF Respond, TypeOK, InPlace, Request
  <1>3. id = at.id /\ outcome = "ok" /\ at.id \notin cancelled /\ revision = workerRevision
    BY <1>1, <1>2 DEF Respond, TypeOK
  <1>4. at.id \in pending
    BY <1>2 DEF ScheduleInv, Registered, RegistrationsAreLive
  <1>5. id \notin withdrawn
    BY <1>3, <1>4 DEF ScheduleInv, Registered
  <1>6. ~shutdown /\ (TextOnly \/ analysed = applied)
    BY <1>2, <1>3 DEF ScheduleInv, Fresh
  <1>7. applied = latest
    BY <1>3, <1>6, UpToDate DEF ScheduleInv
  <1>8. QED
    BY <1>5, <1>6, <1>7

LEMMA StepDiagnostics ==
  ASSUME TypeOK, ScheduleInv, [Next]_vars, shown' # shown, shown' # Null
  PROVE  /\ shown'.text = latest
         /\ shown'.full => checked = latest
  <1>1. Publish
    <2>1. CASE UNCHANGED vars \/ Router \/ FilesChanged
      BY <2>1, RouterFrame DEF vars
    <2>2. CASE Worker
      <3>1. TakeChange => shown' = shown \/ shown' = Null
        BY DEF TakeChange
      <3>2. Publish \/ TakeChange \/ shown' = shown
        BY <2>2 DEF Worker, TakeCancel, TakeExit, TakeRequest, Drained, MustRefresh,
           MustCheck, WaitForQuiet, QuietElapsed, QuietBroken, MustPublish, Question,
           Begin, Start, Unwind, Refresh, Answer, CheckBackground, Render, Respond,
           Finish, End, Release
      <3>3. QED
        BY <3>1, <3>2
    <2>3. QED
      BY <2>1, <2>2 DEF Next
  <1>2. /\ revision = workerRevision /\ pc = "rendered"
        /\ shown' = [text |-> analysed, full |-> background]
    BY <1>1 DEF Publish
  <1>3. job # "none"
    BY <1>2 DEF TypeOK, InPlace, Working
  <1>4. ~shutdown /\ analysed = applied /\ (background => checked = analysed)
    BY <1>2, <1>3 DEF ScheduleInv, Fresh
  <1>5. applied = latest
    BY <1>2, <1>4, UpToDate DEF ScheduleInv
  <1>6. shown'.text = analysed /\ shown'.full = background
    BY <1>2
  <1>7. QED
    BY <1>4, <1>5, <1>6

\* A result is answered only to a request that is still wanted and from the text
\* the client has at that moment: the response barrier of Worker::request,
\* together with the stamps of the router and the dirty flag, is enough.
THEOREM Answers == Spec => AnswersAreCurrent
  <1>1. TypeOK /\ ScheduleInv /\ [Next]_vars =>
          [\A id \in Id : replies'[id] = "ok" /\ replies[id] # "ok" =>
              /\ id \notin withdrawn
              /\ latest = IF TextOnly THEN applied ELSE analysed]_vars
    BY StepAnswers
  <1>2. QED
    BY <1>1, InitTypes, NextTypes, InitSchedule, NextSchedule, PTL
    DEF Spec, AnswersAreCurrent

\* Diagnostics sent are those of the latest text, and complete only if that text
\* was checked in full (Worker::publish).
THEOREM Diagnostics == Spec => DiagnosticsAreCurrent
  <1>1. TypeOK /\ ScheduleInv /\ [Next]_vars =>
          [shown' # shown /\ shown' # Null =>
              /\ shown'.text = latest
              /\ shown'.full => checked = latest]_vars
    BY StepDiagnostics
  <1>2. QED
    BY <1>1, InitTypes, NextTypes, InitSchedule, NextSchedule, PTL
    DEF Spec, DiagnosticsAreCurrent

-----------------------------------------------------------------------------
(* Nothing is forgotten *)

\* What the router sends carries the schedule's revision.
LEMMA RouterSends ==
  ASSUME TypeOK, Router \/ FilesChanged
  PROVE  \/ Disconnect
         \/ \E envelope \in Envelope : Send(envelope) /\ envelope.revision = revision'
  <1>0. revision \in Nat
    BY DEF TypeOK
  <1>1. CASE DidOpen \/ DidChange \/ DidClose \/ DidInvalidate \/ FilesChanged
    <2>1. PICK kind \in Change, changed \in BOOLEAN : NewRevision(kind, changed)
      BY <1>1, Changes
    <2> DEFINE e == [revision |-> revision + 1, kind |-> kind, changed |-> changed]
    <2>2. e \in Envelope /\ e.revision = revision + 1
      BY <1>0 DEF Envelope
    <2>3. Send(e) /\ revision' = revision + 1
      BY <2>1 DEF NewRevision
    <2>4. QED
      BY <2>2, <2>3
  <1>2. ASSUME NEW id \in Id, CancelRequest(id)
        PROVE  \E envelope \in Envelope : Send(envelope) /\ envelope.revision = revision'
    <2> DEFINE e == [revision |-> revision, kind |-> "cancel"]
    <2>1. e \in Envelope /\ e.revision = revision
      BY <1>0 DEF Envelope
    <2>2. Send(e) /\ revision' = revision
      BY <1>2 DEF CancelRequest
    <2>3. QED
      BY <2>1, <2>2
  <1>3. ASSUME NEW id \in Id, NEW method \in Method, AskRequest(id, method)
        PROVE  \E envelope \in Envelope : Send(envelope) /\ envelope.revision = revision'
    <2> DEFINE e == [revision |-> revision, kind |-> method, id |-> id]
    <2>1. e \in Envelope /\ e.revision = revision
      BY <1>0 DEF Envelope
    <2>2. Send(e) /\ revision' = revision
      BY <1>3 DEF AskRequest
    <2>3. QED
      BY <2>1, <2>2
  <1>4. CASE Exit
    <2> DEFINE e == [revision |-> revision, kind |-> "exit"]
    <2>1. e \in Envelope /\ e.revision = revision
      BY <1>0 DEF Envelope
    <2>2. Send(e) /\ revision' = revision
      BY <1>4 DEF Exit, schedule
    <2>3. QED
      BY <2>1, <2>2
  <1>5. QED
    BY <1>1, <1>2, <1>3, <1>4 DEF Router

\* The router cancels a token but never takes or makes one.
LEMMA RouterActive ==
  ASSUME TypeOK, Router \/ FilesChanged, active' # Null
  PROVE  active # Null /\ active'.id = active.id
  <1> USE DEF TypeOK
  <1>1. CASE DidOpen \/ DidChange \/ DidClose \/ DidInvalidate \/ FilesChanged
    <2>1. PICK kind \in Change, changed \in BOOLEAN : NewRevision(kind, changed)
      BY <1>1, Changes
    <2>2. QED
      BY <2>1, InterruptedTypes DEF NewRevision
  <1>2. ASSUME NEW id \in Id, CancelRequest(id)
        PROVE  active # Null /\ active'.id = active.id
    <2>1. (active # Null /\ active.id = id) \in BOOLEAN
      OBVIOUS
    <2>2. QED
      BY <1>2, <2>1, InterruptedTypes DEF CancelRequest
  <1>3. ASSUME NEW id \in Id, NEW method \in Method, AskRequest(id, method)
        PROVE  active # Null /\ active'.id = active.id
    <2>1. (active # Null /\ (active.id = Null \/ method = "shutdown")) \in BOOLEAN
      OBVIOUS
    <2>2. QED
      BY <1>3, <2>1, InterruptedTypes DEF AskRequest
  <1>4. CASE Exit \/ Disconnect
    BY <1>4 DEF Exit, Disconnect, schedule
  <1>5. QED
    BY <1>1, <1>2, <1>3, <1>4 DEF Router

\* Nothing but a change of text changes what an idle worker sees.
LEMMA DisconnectFrame ==
  Disconnect => UNCHANGED <<revision, active, receive, pending, cancelled>>
  BY DEF Disconnect, schedule

LEMMA NextWakesUp ==
  ASSUME TypeOK, Registered, WakesUp, [Next]_vars
  PROVE  WakesUp'
  <1> DEFINE n == Len(receive)
  <1>0. /\ receive \in Seq(Envelope) /\ n \in Nat /\ DOMAIN receive = 1 .. n
        /\ (receive = <<>> <=> n = 0)
    BY Envelopes
  <1>1. CASE UNCHANGED <<revision, active, receive, workerRevision, job>>
    BY <1>1 DEF WakesUp, Stamp
  <1>2. CASE Router \/ FilesChanged
    <2>1. UNCHANGED <<job, workerRevision>>
      BY <1>2, RouterFrame
    <2>2. CASE Disconnect
      BY <1>1, <2>1, <2>2, DisconnectFrame
    <2>3. CASE \E envelope \in Envelope : Send(envelope) /\ envelope.revision = revision'
      <3>1. PICK envelope \in Envelope : Send(envelope) /\ envelope.revision = revision'
        BY <2>3
      <3>2. receive' = Append(receive, envelope)
        BY <3>1 DEF Send
      <3>3. receive' # <<>> /\ receive'[Len(receive')] = envelope
        BY <1>0, <3>2
      <3>4. Stamp' = revision'
        BY <3>1, <3>3 DEF Stamp
      <3>5. QED
        BY <1>2, <2>1, <3>3, <3>4, RouterActive DEF WakesUp
    <2>4. QED
      BY <1>2, <2>2, <2>3, RouterSends
  <1>3. CASE TakeChange \/ TakeCancel \/ TakeExit \/ TakeRequest
    <2>1. Take /\ revision' = revision /\ active' = active
      BY <1>3, Takes, WorkerFrame DEF Worker, TakeChange, TakeCancel, TakeExit,
         TakeRequest, schedule
    <2>2. /\ active = Null /\ receive # <<>> /\ receive' = Tail(receive)
          /\ workerRevision' = receive[1].revision
      BY <2>1, TakeTypes
    <2>3. Stamp' = Stamp
      <3>0. 1 \in DOMAIN receive /\ Len(receive') = n - 1 /\ receive' \in Seq(Envelope)
        BY <2>1, TakeChannel, TakeTypes
      <3>1. CASE n = 1
        <4>1. receive' = <<>>
          BY <1>0, <3>0, <3>1
        <4>2. QED
          BY <2>2, <3>1, <4>1 DEF Stamp
      <3>2. CASE n # 1
        <4>1. n - 1 \in 1 .. n - 1 /\ receive'[n - 1] = receive[(n - 1) + 1]
          BY <1>0, <2>1, <3>0, <3>2, TakeChannel
        <4>2. receive' # <<>> /\ receive'[n - 1] = receive[n]
          BY <1>0, <3>0, <4>1
        <4>3. QED
          BY <2>2, <3>0, <4>2 DEF Stamp
      <3>3. QED
        BY <3>1, <3>2
    <2>4. QED
      BY <2>1, <2>2, <2>3 DEF WakesUp
  <1>4. CASE Begin
    <2>1. /\ UNCHANGED <<revision, receive, workerRevision, job>>
          /\ active' = [id |-> Subject, cancelled |-> Obsolete(Subject)]
          /\ pc = "begin"
      BY <1>4 DEF Begin, worker
    <2>2. Stamp' = Stamp
      BY <2>1 DEF Stamp
    <2>3. Subject = Null <=> job # "answer"
      BY NullIsNothing DEF Subject, TypeOK, InPlace, Request
    <2>4. Subject = Null /\ Obsolete(Subject) => receive # <<>>
      <3> SUFFICES ASSUME Subject = Null, Obsolete(Subject), receive = <<>> PROVE FALSE
        OBVIOUS
      <3>1. revision = workerRevision
        BY DEF WakesUp, Stamp
      <3>2. Null \notin cancelled
        BY NullIsNothing DEF TypeOK
      <3>3. pending # {}
        BY <3>1, <3>2 DEF Obsolete
      <3>4. at = Null
        BY <2>1, <2>3 DEF TypeOK, InPlace
      <3>5. Queued = {}
        BY <1>0 DEF Queued
      <3>6. QED
        BY <3>3, <3>4, <3>5 DEF Registered, RegistrationsAreLive
    <2>5. QED
      BY <2>1, <2>2, <2>3, <2>4 DEF WakesUp
  <1>5. CASE End
    BY <1>5 DEF End, WakesUp, Stamp, worker
  <1>6. CASE Release
    <2>1. active = Null /\ active' = active
      BY <1>6 DEF Release, TypeOK, InPlace, Working
    <2>2. UNCHANGED <<revision, receive, workerRevision>>
      BY <1>6 DEF Release, worker
    <2>3. QED
      BY <2>1, <2>2 DEF WakesUp, Stamp
  <1>7. CASE \/ MustRefresh \/ MustCheck \/ QuietElapsed \/ QuietBroken \/ MustPublish
    <2>1. active = Null /\ UNCHANGED <<active, revision, receive, workerRevision>>
      BY <1>7 DEF MustRefresh, MustCheck, QuietElapsed, QuietBroken, MustPublish,
         Question, TypeOK, InPlace, Working, schedule, worker
    <2>2. QED
      BY <2>1 DEF WakesUp, Stamp
  <1>8. CASE \/ Drained \/ WaitForQuiet \/ Start \/ Unwind \/ Refresh \/ Answer
             \/ CheckBackground \/ Render \/ Publish \/ Finish \/ Respond
    BY <1>1, <1>8 DEF Drained, WaitForQuiet, Start, Unwind, Refresh, Answer,
       CheckBackground, Render, Publish, Finish, Respond, schedule, worker
  <1>9. CASE UNCHANGED vars
    BY <1>1, <1>9 DEF vars, schedule, place, worker
  <1>10. QED
    BY <1>2, <1>3, <1>4, <1>5, <1>6, <1>7, <1>8, <1>9 DEF Next, Worker

LEMMA NextPublished ==
  ASSUME TypeOK, Ordered, Fresh, Published, [Next]_vars
  PROVE  Published'
  <1> USE DEF place, worker, analysis
  <1>0. /\ workerRevision \in Nat
        /\ published # Null => published[1] \in Nat
    BY DEF TypeOK
  <1>1. CASE UNCHANGED <<published, workerRevision, dirty, documents, shown, analysed>>
    BY <1>1 DEF Published
  <1>2. CASE Router \/ FilesChanged
    BY <1>1, <1>2, RouterFrame
  <1>3. CASE TakeChange
    <2>1. workerRevision < workerRevision' /\ workerRevision' \in Nat
      <3>1. Take /\ Head(receive).kind \in Change
        BY <1>3 DEF TakeChange
      <3>2. 1 \in DOMAIN receive /\ Head(receive) = receive[1]
            /\ workerRevision' = receive[1].revision /\ workerRevision' \in Nat
        BY <3>1, TakeChannel, TakeTypes
      <3>3. QED
        BY <3>1, <3>2 DEF Ordered
    <2>2. published' = published
      BY <1>3 DEF TakeChange
    <2>3. QED
      BY <1>0, <2>1, <2>2 DEF Published
  <1>4. CASE TakeCancel \/ TakeExit \/ TakeRequest
    <2>1. workerRevision <= workerRevision' /\ workerRevision' \in Nat
      <3>1. Take
        BY <1>4 DEF TakeCancel, TakeExit, TakeRequest
      <3>2. 1 \in DOMAIN receive
            /\ workerRevision' = receive[1].revision /\ workerRevision' \in Nat
        BY <3>1, TakeChannel, TakeTypes
      <3>3. QED
        BY <3>2 DEF Ordered
    <2>2. UNCHANGED <<published, dirty, documents, shown, analysed>>
      BY <1>4 DEF TakeCancel, TakeExit, TakeRequest
    <2>3. QED
      BY <1>0, <2>1, <2>2 DEF Published
  <1>5. CASE Refresh
    <2>1. UNCHANGED <<published, workerRevision, documents, shown>>
      BY <1>5 DEF Refresh
    <2>2. CASE dirty
      BY <1>0, <2>1, <2>2 DEF Published
    <2>3. CASE ~dirty
      BY <1>1, <1>5, <2>1, <2>3 DEF Refresh
    <2>4. QED
      BY <2>2, <2>3
  <1>6. CASE Answer
    <2>1. published' \in {published, Null}
          /\ UNCHANGED <<workerRevision, dirty, documents, shown, analysed>>
      BY <1>6 DEF Answer
    <2>2. QED
      BY <2>1 DEF Published
  <1>7. CASE Publish
    <2>1. UNCHANGED <<workerRevision, dirty, documents, analysed>> /\ ~dirty
      BY <1>7 DEF Publish, Fresh
    <2>2. CASE revision = workerRevision
      <3>1. /\ published' = <<workerRevision, background>>
            /\ documents => shown' = [text |-> analysed, full |-> background]
        BY <1>7, <2>2 DEF Publish
      <3>2. QED
        BY <1>0, <2>1, <3>1 DEF Published
    <2>3. CASE revision # workerRevision
      BY <1>1, <1>7, <2>1, <2>3 DEF Publish
    <2>4. QED
      BY <2>2, <2>3
  <1>8. CASE \/ Drained \/ MustRefresh \/ MustCheck \/ WaitForQuiet \/ QuietElapsed
             \/ QuietBroken \/ MustPublish \/ Begin \/ Start \/ Unwind
    BY <1>1, <1>8 DEF Drained, MustRefresh, MustCheck, WaitForQuiet, QuietElapsed,
       QuietBroken, MustPublish, Question, Begin, Start, Unwind
  <1>9. CASE CheckBackground \/ Render \/ Finish \/ End \/ Respond \/ Release
    BY <1>1, <1>9 DEF CheckBackground, Render, Finish, End, Respond, Release
  <1>10. CASE UNCHANGED vars
    BY <1>1, <1>10 DEF vars
  <1>11. QED
    BY <1>2, <1>3, <1>4, <1>5, <1>6, <1>7, <1>8, <1>9, <1>10 DEF Next, Worker

\* Between two steps of the worker that leave the channel empty, it goes on from
\* what it has done.
LEMMA WorkerDone ==
  ASSUME TypeOK, WakesUp, Done, Worker
  PROVE  Done'
  <1> USE DEF place, worker, analysis, Refreshed, Checked, Settled, AtEnd, Ready
  <1>0. InPlace
    BY DEF TypeOK
  <1>1. CASE TakeChange \/ TakeCancel \/ TakeExit \/ TakeRequest
    <2>1. pc' \in {"drain", "stopped", "begin", "release"} /\ job' \in {"none", "answer"}
      BY <1>1 DEF TakeChange, TakeCancel, TakeExit, TakeRequest, GoTo
    <2>2. QED
      BY <2>1 DEF Done
  <1>2. CASE Drained
    BY <1>0, <1>2 DEF Drained, Done, InPlace, Between
  <1>3. CASE MustRefresh
    BY <1>3 DEF MustRefresh, Question, GoTo, Done
  <1>4. CASE MustCheck
    <2>1. pc = "check?"
          /\ UNCHANGED <<receive, shutdown, documents, dirty, background>>
      BY <1>4 DEF MustCheck, Question
    <2>2. CASE CheckDue
      <3>1. pc' = "begin" /\ job' = "background"
        BY <1>4, <2>2 DEF MustCheck, Question, GoTo
      <3>2. QED
        BY <2>1, <2>2, <3>1 DEF Done, CheckDue
    <2>3. CASE ~CheckDue
      <3>1. pc' = "publish?" /\ job' = "none"
        BY <1>4, <2>3 DEF MustCheck, Question, GoTo
      <3>2. QED
        BY <2>1, <2>3, <3>1 DEF Done, CheckDue
    <2>4. QED
      BY <2>2, <2>3
  <1>5. CASE WaitForQuiet
    BY <1>0, <1>5 DEF WaitForQuiet, CheckDue, Done, InPlace, Between
  <1>6. CASE QuietElapsed
    BY <1>6 DEF QuietElapsed, Question, GoTo, Done
  <1>7. CASE QuietBroken
    BY <1>7 DEF QuietBroken, Question, Done
  <1>8. CASE MustPublish
    BY <1>8 DEF MustPublish, Question, GoTo, Done
  <1>9. CASE Begin
    BY <1>9 DEF Begin, Done
  <1>10. CASE Start
    <2>1. /\ UNCHANGED <<receive, job, shutdown, documents, dirty, background, published,
                         workerRevision>>
          /\ pc = "start"
          /\ pc' \in {"answering", "refreshing", "checking", "publishing"}
          /\ job \in {"refresh", "background"} => pc' # "publishing"
      BY <1>10 DEF Start
    <2>2. QED
      BY <2>1 DEF Done
  <1>11. CASE Unwind
    <2>1. active # Null /\ active.cancelled /\ receive' = receive
      BY <1>0, <1>11 DEF Unwind, InPlace, Working
    <2>2. CASE job = "answer"
      <3>1. job' = "answer" /\ pc' = "end"
        BY <1>11, <2>2 DEF Unwind
      <3>2. QED
        BY <3>1 DEF Done
    <2>3. CASE job # "answer"
      BY <2>1, <2>3 DEF WakesUp, Done
    <2>4. QED
      BY <2>2, <2>3
  <1>12. CASE Refresh
    <2>1. /\ ~dirty' /\ job' = job /\ job \in {"answer", "refresh"}
          /\ pc' \in {"answering", "publishing"}
      BY <1>0, <1>12 DEF Refresh, InPlace
    <2>2. QED
      BY <2>1 DEF Done
  <1>13. CASE Answer
    <2>1. job' = "answer" /\ pc' = "finish"
      BY <1>0, <1>13 DEF Answer, InPlace
    <2>2. QED
      BY <2>1 DEF Done
  <1>14. CASE CheckBackground
    <2>1. /\ job = "background" /\ job' = job /\ pc' = "publishing" /\ background'
          /\ UNCHANGED <<receive, shutdown, documents, dirty>>
      BY <1>0, <1>14 DEF CheckBackground, InPlace
    <2>2. QED
      BY <2>1 DEF Done
  <1>15. CASE Render
    <2>1. /\ UNCHANGED <<receive, job, shutdown, documents, dirty, background, published,
                         workerRevision>>
          /\ pc = "publishing"
          /\ \/ pc' = "end" /\ (published = <<workerRevision, background>> \/ dirty)
             \/ pc' = "rendered"
      BY <1>15 DEF Render
    <2>2. QED
      BY <2>1 DEF Done
  <1>16. CASE Publish
    <2>1. /\ UNCHANGED <<receive, job, shutdown, documents, dirty, background,
                         workerRevision>>
          /\ pc = "rendered" /\ pc' = "end"
          /\ revision = workerRevision => published' = <<workerRevision, background>>
      BY <1>16 DEF Publish
    <2>2. receive = <<>> => revision = workerRevision
      BY DEF WakesUp, Stamp
    <2>3. QED
      BY <2>1, <2>2 DEF Done
  <1>17. CASE Finish
    <2>1. job' = "answer" /\ pc' = "end"
      BY <1>0, <1>17 DEF Finish, InPlace
    <2>2. QED
      BY <2>1 DEF Done
  <1>18. CASE End
    <2>1. job \in {"answer", "report", "refresh", "background", "retry"} /\ pc = "end"
      BY <1>0, <1>18 DEF TypeOK, Job, InPlace, Working, End
    <2>2. UNCHANGED <<receive, shutdown, documents, dirty, background, published,
                      workerRevision>>
      BY <1>18 DEF End
    <2>3. /\ pc' = AfterJob[job]
          /\ job' = IF job = "answer" THEN job ELSE "none"
      BY <1>18 DEF End, GoTo
    <2>4. QED
      BY <2>1, <2>2, <2>3 DEF AfterJob, Done
  <1>19. CASE Respond
    <2>1. job' = "answer" /\ pc' = "release"
      BY <1>0, <1>19 DEF Respond, InPlace
    <2>2. QED
      BY <2>1 DEF Done
  <1>20. CASE Release
    <2>1. pc' \in {"begin", "drain"} /\ job' \in {"report", "none"}
      BY <1>20 DEF Release, GoTo
    <2>2. QED
      BY <2>1 DEF Done
  <1>21. QED
    BY <1>1, <1>2, <1>3, <1>4, <1>5, <1>6, <1>7, <1>8, <1>9, <1>10, <1>11, <1>12,
       <1>13, <1>14, <1>15, <1>16, <1>17, <1>18, <1>19, <1>20 DEF Worker

LEMMA NextDone ==
  ASSUME TypeOK, WakesUp, Done, [Next]_vars
  PROVE  Done'
  <1> USE DEF Refreshed, Checked, Settled, AtEnd, Ready
  <1>1. CASE Router \/ FilesChanged
    <2>1. CASE Disconnect
      <3>1. receive' = receive
        BY <2>1, DisconnectFrame
      <3>2. QED
        BY <1>1, <3>1, RouterFrame DEF Done
    <2>2. CASE \E envelope \in Envelope : Send(envelope) /\ envelope.revision = revision'
      <3>1. receive' # <<>>
        BY <2>2 DEF Send, TypeOK
      <3>2. QED
        BY <3>1 DEF Done
    <2>3. QED
      BY <1>1, <2>1, <2>2, RouterSends
  <1>2. CASE UNCHANGED vars
    BY <1>2 DEF vars, place, worker, analysis, Done
  <1>3. QED
    BY <1>1, <1>2, WorkerDone DEF Next

LEMMA InitOwed == Init => OwedInv
  BY DEF Init, OwedInv, WakesUp, Stamp, Published, Done, Ready

LEMMA NextOwed ==
  ASSUME TypeOK, ScheduleInv, OwedInv, [Next]_vars
  PROVE  OwedInv'
  BY NextWakesUp, NextPublished, NextDone DEF ScheduleInv, OwedInv

\* A worker that blocks on an empty channel has shown complete diagnostics of
\* the latest text: every job that is cancelled, every publication that is given
\* up, has left an envelope that makes the worker run again (the loop of serve).
THEOREM NothingForgotten == Spec => []NothingOwed
  <1>1. TypeOK /\ ScheduleInv /\ OwedInv => NothingOwed
    <2> SUFFICES ASSUME TypeOK, ScheduleInv, OwedInv,
                        pc = "recv", receive = <<>>, Ready
                 PROVE  shown = [text |-> latest, full |-> TRUE]
      BY DEF NothingOwed
    <2>1. ~dirty /\ background /\ published = <<workerRevision, background>>
      BY DEF OwedInv, Done, Checked, Settled
    <2>2. revision = workerRevision
      BY DEF OwedInv, WakesUp, Stamp
    <2>3. published # Null
      <3>1. workerRevision \in Nat /\ background \in BOOLEAN
        BY DEF TypeOK
      <3>2. <<workerRevision, background>> \in Nat \X BOOLEAN
        BY <3>1
      <3>3. QED
        BY <2>1, <3>2, NullIsNothing
    <2>4. shown = [text |-> analysed, full |-> background]
      <3>1. published[1] = workerRevision /\ published[2] = background
        BY <2>1
      <3>2. QED
        BY <2>3, <3>1 DEF OwedInv, Published, Ready
    <2>5. analysed = latest
      BY <2>1, <2>2, UpToDate DEF ScheduleInv, Fresh, Ready
    <2>6. background = TRUE
      BY <2>1 DEF TypeOK
    <2>7. QED
      BY <2>4, <2>5, <2>6
  <1>2. QED
    BY <1>1, InitTypes, NextTypes, InitSchedule, NextSchedule, InitOwed, NextOwed, PTL
    DEF Spec
=============================================================================
