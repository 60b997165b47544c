------------------------- MODULE DebugSessionProofs -------------------------
(***************************************************************************)
(* Nobody's edit is dropped by somebody else, for any number of pages,     *)
(* agents and edits.                                                       *)
(***************************************************************************)
EXTENDS DebugSessionInv, TLAPS

-----------------------------------------------------------------------------
(* Types.                                                                  *)

LEMMA Fields ==
  /\ DOMAIN Closed = {"on", "text", "known", "local", "build", "timer", "unsaved", "inflight",
                      "reply", "since", "inbox", "told", "loop", "awaited"}
  /\ PageType(Closed) /\ NoReply \in AReply /\ NoSession \in ASession
BY DEF Closed, PageType, NoReply, AReply, NoSession, ASession, AnEdit

LEMMA TypeInit == Init => TypeOK
<1> SUFFICES ASSUME Init PROVE TypeOK
  OBVIOUS
<1>1. page = [b \in Page |-> page[b]] /\ \A b \in Page : PageType(page[b])
  BY Fields DEF Init
<1> QED
  BY <1>1, Fields DEF Init, TypeOK, AnEdit

\* What a step of one page leaves of all of them.
LEMMA OnePage ==
  ASSUME TypeOK, NEW b \in Page, NEW t, PageType(t), page' = [page EXCEPT ![b] = t]
  PROVE  /\ page' = [c \in Page |-> page'[c]] /\ \A c \in Page : PageType(page'[c])
         /\ page'[b] = t /\ \A c \in Page : c # b => page'[c] = page[c]
<1>1. page = [c \in Page |-> page[c]] /\ \A c \in Page : PageType(page[c])
  BY DEF TypeOK
<1>2. page' = [c \in Page |-> IF c = b THEN t ELSE page[c]]
  BY <1>1
<1> QED
  BY <1>1, <1>2

LEMMA CompilingType ==
  ASSUME NEW s, PageType(s)
  PROVE  PageType(Compiling(s))
<1>1. DOMAIN Compiling(s) = DOMAIN s
  BY DEF Compiling
<1>2. /\ Compiling(s).on = s.on /\ Compiling(s).text = s.text /\ Compiling(s).known = s.known
      /\ Compiling(s).build = s.build /\ Compiling(s).told = s.told
      /\ Compiling(s).local = s.local + 1 /\ Compiling(s).inflight = s.local + 1
      /\ Compiling(s).reply = NoReply /\ Compiling(s).timer = FALSE
  BY Fields DEF Compiling, PageType
<1>3. Compiling(s).on \in BOOLEAN /\ Compiling(s).timer \in BOOLEAN /\ Compiling(s).text \subseteq AnEdit
  BY <1>2 DEF PageType
<1>4. /\ Compiling(s).known \in Nat /\ Compiling(s).local \in Nat /\ Compiling(s).inflight \in Nat
      /\ Compiling(s).build \in Nat /\ Compiling(s).told \in Nat
  BY <1>2 DEF PageType
<1>5. Compiling(s).reply \in AReply /\ DOMAIN Compiling(s) = DOMAIN Closed
  BY <1>1, <1>2, Fields DEF PageType
<1> HIDE DEF PageType
<1> QED
  BY <1>3, <1>4, <1>5 DEF PageType

\* Pages take a step of their own.
LEMMA TypeOpen ==
  ASSUME TypeOK, NEW b \in Page, Open(b), UNCHANGED plan
  PROVE  TypeOK'
<1> DEFINE s == [page[b] EXCEPT !.on = TRUE, !.text = disk, !.known = session.revision,
                               !.since = Len(log), !.told = build, !.loop = "first"]
<1>1. PageType(s)
  BY Fields DEF TypeOK, PageType, ASession
<1>3. Sent(b, s) \in [page : Page, known : Nat, local : Nat, text : SUBSET AnEdit]
  BY <1>1, Fields DEF Sent, PageType
<1>4. page' = [page EXCEPT ![b] = Compiling(s)] /\ requests' = requests \cup {Sent(b, s)}
  BY DEF Open
<1>5. pulls' \subseteq [page : Page, cause : Int, answer : ASession, done : BOOLEAN]
  <2>1. session \in ASession /\ -1 \in Int
    BY DEF TypeOK
  <2>2. [page |-> b, cause |-> Never, answer |-> session, done |-> TRUE]
          \in [page : Page, cause : Int, answer : ASession, done : BOOLEAN]
    BY <2>1 DEF Never
  <2> QED
    BY <2>2 DEF Open, TypeOK
<1> HIDE DEF s
<1>2. PageType(Compiling(s))
  BY <1>1, CompilingType
<1>6. page' = [c \in Page |-> page'[c]] /\ \A c \in Page : PageType(page'[c])
  BY <1>2, <1>4, OnePage
<1> QED
  BY <1>3, <1>4, <1>5, <1>6 DEF Open, TypeOK, server

LEMMA TypeType ==
  ASSUME TypeOK, NEW b \in Page, Type(b), UNCHANGED plan
  PROVE  TypeOK'
<1> DEFINE t == [page[b] EXCEPT !.text = @ \cup {NewEdit(b)}, !.timer = TRUE, !.unsaved = TRUE]
<1>1. PageType(page[b]) /\ NewEdit(b) \in AnEdit
  BY DEF TypeOK, NewEdit, AnEdit
<1>2. PageType(t)
  BY <1>1, Fields DEF PageType
<1>3. page' = [page EXCEPT ![b] = t]
  BY DEF Type
<1> HIDE DEF t
<1>4. page' = [c \in Page |-> page'[c]] /\ \A c \in Page : PageType(page'[c])
  BY <1>2, <1>3, OnePage
<1> QED
  BY <1>4 DEF Type, TypeOK, server, network

LEMMA TypeCompileNow ==
  ASSUME TypeOK, NEW b \in Page, CompileNow(b), UNCHANGED plan
  PROVE  TypeOK'
<1>1. PageType(page[b])
  BY DEF TypeOK
<1>2. PageType(Compiling(page[b]))
  BY <1>1, CompilingType
<1>3. page' = [page EXCEPT ![b] = Compiling(page[b])]
  BY DEF CompileNow
<1>4. page' = [c \in Page |-> page'[c]] /\ \A c \in Page : PageType(page'[c])
  BY <1>2, <1>3, OnePage
<1>5. Sent(b, page[b]) \in [page : Page, known : Nat, local : Nat, text : SUBSET AnEdit]
  BY <1>1, Fields DEF Sent, PageType
<1> QED
  BY <1>4, <1>5 DEF CompileNow, TypeOK, server

LEMMA TypeSaveNow ==
  ASSUME TypeOK, NEW b \in Page, SaveNow(b), UNCHANGED plan
  PROVE  TypeOK'
<1> DEFINE t == [page[b] EXCEPT !.unsaved = FALSE]
<1>1. PageType(page[b])
  BY DEF TypeOK
<1>2. PageType(t)
  BY <1>1, Fields DEF PageType
<1>3. page' = [page EXCEPT ![b] = t]
  BY DEF SaveNow
<1> HIDE DEF t
<1>4. page' = [c \in Page |-> page'[c]] /\ \A c \in Page : PageType(page'[c])
  BY <1>2, <1>3, OnePage
<1>5. page[b].text \in SUBSET AnEdit
  BY <1>1 DEF PageType
<1> QED
  BY <1>4, <1>5 DEF SaveNow, TypeOK, server

LEMMA TypeReceive ==
  ASSUME TypeOK, NEW b \in Page, Receive(b), UNCHANGED plan
  PROVE  TypeOK'
<1> DEFINE r == page[b].reply
           t == [page[b] EXCEPT !.inflight = 0, !.reply = NoReply,
                   !.known = IF r.accepted THEN r.revision ELSE @,
                   !.build = IF r.accepted /\ page[b].inflight = page[b].local
                             THEN r.build ELSE @]
<1>1. PageType(page[b])
  BY DEF TypeOK
<1>2. PageType(t)
  BY <1>1, Fields DEF PageType, AReply
<1>3. page' = [page EXCEPT ![b] = t]
  BY DEF Receive
<1>4. pulls' \subseteq [page : Page, cause : Int, answer : ASession, done : BOOLEAN]
  <2>1. page[b].inflight \in Int
    BY <1>1 DEF PageType
  <2>2. [page |-> b, cause |-> page[b].inflight, answer |-> NoSession, done |-> FALSE]
          \in [page : Page, cause : Int, answer : ASession, done : BOOLEAN]
    BY <2>1, Fields
  <2> QED
    BY <2>2 DEF Receive, TypeOK
<1> HIDE DEF t, r
<1>5. page' = [c \in Page |-> page'[c]] /\ \A c \in Page : PageType(page'[c])
  BY <1>2, <1>3, OnePage
<1> QED
  BY <1>4, <1>5 DEF Receive, TypeOK, server

LEMMA TypeObserve ==
  ASSUME TypeOK, NEW m \in requests, Observe(m), UNCHANGED plan
  PROVE  TypeOK'
<1>1. m \in [page : Page, known : Nat, local : Nat, text : SUBSET AnEdit]
  BY DEF TypeOK
<1>2. session' \in ASession
  BY <1>1 DEF Observe, TypeOK, ASession
<1> DEFINE b == m.page
           t == [page[b] EXCEPT !.reply =
                   IF page[b].inflight = m.local
                   THEN [accepted |-> Accepts(m), revision |-> session'.revision, build |-> build,
                         undoes |-> ~(session.text \subseteq m.text)]
                   ELSE @]
<1>3. b \in Page /\ PageType(page[b])
  BY <1>1 DEF TypeOK
<1>4. Accepts(m) \in BOOLEAN
  BY DEF Accepts
<1>5. [accepted |-> Accepts(m), revision |-> session'.revision, build |-> build,
       undoes |-> ~(session.text \subseteq m.text)] \in AReply
  BY <1>2, <1>4 DEF AReply, ASession, TypeOK
<1>6. PageType(t)
  BY <1>3, <1>5, Fields DEF PageType
<1>7. page' = [page EXCEPT ![b] = t]
  BY DEF Observe
<1> HIDE DEF t
<1>8. page' = [c \in Page |-> page'[c]] /\ \A c \in Page : PageType(page'[c])
  BY <1>3, <1>6, <1>7, OnePage
<1> QED
  BY <1>2, <1>8 DEF Observe, TypeOK

LEMMA TypeSync ==
  ASSUME TypeOK, NEW m \in pulls, Sync(m), UNCHANGED plan
  PROVE  TypeOK'
<1>1. m \in [page : Page, cause : Int, answer : ASession, done : BOOLEAN]
  BY DEF TypeOK
<1> DEFINE b == m.page
           t == [page[b] EXCEPT !.known = m.answer.revision, !.text = m.answer.text,
                   !.local = IF @ < m.answer.local THEN m.answer.local ELSE @, !.build = build]
<1>2. b \in Page /\ PageType(page[b]) /\ m.answer \in ASession /\ build \in Nat
  BY <1>1 DEF TypeOK
<1>3. PageType(t)
  BY <1>2, Fields DEF PageType, ASession
<1>4. page' = page \/ page' = [page EXCEPT ![b] = t]
  BY DEF Sync
<1> HIDE DEF t
<1>5. page' = [c \in Page |-> page'[c]] /\ \A c \in Page : PageType(page'[c])
  BY <1>2, <1>3, <1>4, OnePage DEF TypeOK
<1> QED
  BY <1>5 DEF Sync, TypeOK, server

LEMMA TypePoll ==
  ASSUME TypeOK, NEW b \in Page, Poll(b), UNCHANGED plan
  PROVE  TypeOK'
<1>1. PICK inbox : page' = [page EXCEPT ![b].since = Len(log), ![b].told = build,
                                        ![b].loop = "events", ![b].inbox = inbox]
  BY DEF Poll
<1> DEFINE t == [page[b] EXCEPT !.since = Len(log), !.told = build, !.loop = "events",
                                !.inbox = inbox]
<1>2. PageType(page[b]) /\ build \in Nat
  BY DEF TypeOK
<1>3. PageType(t)
  BY <1>2, Fields DEF PageType
<1>4. page' = [page EXCEPT ![b] = t]
  BY <1>1
<1> HIDE DEF t
<1>5. page' = [c \in Page |-> page'[c]] /\ \A c \in Page : PageType(page'[c])
  BY <1>3, <1>4, OnePage
<1> QED
  BY <1>5 DEF Poll, TypeOK, server, network

LEMMA TypeEvent ==
  ASSUME TypeOK, NEW b \in Page, Event(b), UNCHANGED plan
  PROVE  TypeOK'
<1> DEFINE t == [page[b] EXCEPT !.inbox = Tail(@)]
<1>1. PageType(page[b])
  BY DEF TypeOK
<1>2. PageType(t)
  BY <1>1, Fields DEF PageType
<1>3. page' = [page EXCEPT ![b] = t]
  BY DEF Event
<1> HIDE DEF t
<1>4. page' = [c \in Page |-> page'[c]] /\ \A c \in Page : PageType(page'[c])
  BY <1>2, <1>3, OnePage
<1>5. pulls' \subseteq [page : Page, cause : Int, answer : ASession, done : BOOLEAN]
  <2>1. [page |-> b, cause |-> 0, answer |-> NoSession, done |-> FALSE]
          \in [page : Page, cause : Int, answer : ASession, done : BOOLEAN]
    BY Fields
  <2> QED
    BY <2>1 DEF Event, TypeOK
<1> QED
  BY <1>4, <1>5 DEF Event, TypeOK, server

LEMMA TypeRejoin ==
  ASSUME TypeOK, NEW b \in Page, Rejoin(b), UNCHANGED plan
  PROVE  TypeOK'
<1> DEFINE s == [page[b] EXCEPT !.known = 0, !.loop = "rejoin", !.awaited = page[b].local + 1]
           t == [page[b] EXCEPT !.build = page[b].told, !.loop = "poll"]
<1>1. PageType(page[b])
  BY DEF TypeOK
<1>2. PageType(s) /\ PageType(t)
  BY <1>1, Fields DEF PageType
<1>3. Sent(b, s) \in [page : Page, known : Nat, local : Nat, text : SUBSET AnEdit]
  BY <1>2, Fields DEF Sent, PageType
<1>4. \/ page' = [page EXCEPT ![b] = Compiling(s)] /\ requests' = requests \cup {Sent(b, s)}
      \/ page' = [page EXCEPT ![b] = t] /\ UNCHANGED requests
  BY DEF Rejoin
<1> HIDE DEF s, t
<1>5. page' = [c \in Page |-> page'[c]] /\ \A c \in Page : PageType(page'[c])
  BY <1>2, <1>4, OnePage, CompilingType
<1> QED
  BY <1>3, <1>4, <1>5 DEF Rejoin, TypeOK, server

LEMMA TypeRejoined ==
  ASSUME TypeOK, NEW b \in Page, Rejoined(b), UNCHANGED plan
  PROVE  TypeOK'
<1> DEFINE t == [page[b] EXCEPT !.build = page[b].told, !.loop = "poll", !.awaited = 0]
<1>1. PageType(page[b])
  BY DEF TypeOK
<1>2. PageType(t)
  BY <1>1, Fields DEF PageType
<1>3. page' = [page EXCEPT ![b] = t]
  BY DEF Rejoined
<1> HIDE DEF t
<1>4. page' = [c \in Page |-> page'[c]] /\ \A c \in Page : PageType(page'[c])
  BY <1>2, <1>3, OnePage
<1> QED
  BY <1>4 DEF Rejoined, TypeOK, server, network

LEMMA TypeRestart ==
  ASSUME TypeOK, Restart, UNCHANGED plan
  PROVE  TypeOK'
<1> DEFINE t(b) == [page[b] EXCEPT !.inflight = 0, !.reply = NoReply]
<1>1. \A b \in Page : PageType(t(b))
  BY Fields DEF PageType, TypeOK
<1>2. page' = [b \in Page |-> t(b)]
  BY DEF Restart
<1> HIDE DEF t
<1>3. page' = [c \in Page |-> page'[c]] /\ \A c \in Page : PageType(page'[c])
  BY <1>1, <1>2
<1>4. session' \in ASession
  BY Fields DEF Restart
<1>8. restarts' \in Nat
  <2>1. restarts' = restarts + 1
    BY DEF Restart
  <2> QED
    BY <2>1 DEF TypeOK
<1>6. build' = build + 1 \/ build' = build
  BY DEF Restart
<1>7. build' \in Nat
  BY <1>6 DEF TypeOK
<1>5. requests' = {} /\ pulls' = {} /\ saves' = {} /\ UNCHANGED <<plan, disk, base, edits>>
  BY DEF Restart
<1> QED
  BY <1>3, <1>4, <1>5, <1>7, <1>8 DEF TypeOK

LEMMA TypeServed ==
  ASSUME TypeOK, UNCHANGED plan,
         \/ \E m \in pulls : Shared(m)
         \/ \E text \in saves : Write(text)
         \/ \E a \in Agent : Read(a) \/ Edit(a)
  PROVE  TypeOK'
<1>1. ASSUME NEW m \in pulls, Shared(m)
      PROVE  TypeOK'
  <2>1. [m EXCEPT !.answer = session, !.done = TRUE]
          \in [page : Page, cause : Int, answer : ASession, done : BOOLEAN]
    BY DEF TypeOK
  <2> QED
    BY <1>1, <2>1 DEF Shared, TypeOK, server
<1>2. ASSUME NEW text \in saves, Write(text)
      PROVE  TypeOK'
  BY <1>2 DEF Write, TypeOK
<1>3. ASSUME NEW a \in Agent, Read(a)
      PROVE  TypeOK'
  BY <1>3 DEF Read, TypeOK, server, network
<1>4. ASSUME NEW a \in Agent, Edit(a)
      PROVE  TypeOK'
  <2>1. base[a].text \cup {NewEdit(a)} \subseteq AnEdit
    BY DEF TypeOK, ASession, NewEdit, AnEdit
  <2> DEFINE text == base[a].text \cup {NewEdit(a)}
  <2>2. session' = [session EXCEPT !.revision = @ + 1, !.local = @ + 1, !.agentWritten = TRUE,
                                   !.text = text]
    BY <1>4 DEF Edit
  <2>3. session \in ASession
    BY DEF TypeOK
  <2> HIDE DEF text
  <2>4. session' = [revision |-> session.revision + 1, text |-> text, local |-> session.local + 1,
                    client |-> session.client, agentWritten |-> TRUE]
    BY <2>2, <2>3 DEF ASession
  <2>5. session.revision + 1 \in Nat /\ session.local + 1 \in Nat
        /\ session.client \in Page \cup {"nobody"}
    BY <2>3 DEF ASession
  <2>6. session' \in ASession
    BY <2>1, <2>4, <2>5 DEF ASession, text
  <2>7. disk' \subseteq AnEdit
    BY <1>4, <2>1, <2>4 DEF Edit, text
  <2>8. base' \in [Agent -> ASession] /\ edits' \in [Page \cup Agent -> Nat]
    <3>1. base' = [base EXCEPT ![a] = session'] /\ edits' = [edits EXCEPT ![a] = @ + 1]
      BY <1>4 DEF Edit
    <3>2. base \in [Agent -> ASession] /\ edits \in [Page \cup Agent -> Nat]
      BY DEF TypeOK
    <3>3. base' \in [Agent -> ASession]
      BY <2>6, <3>1, <3>2
    <3> QED
      BY <3>1, <3>2, <3>3
  <2>9. UNCHANGED <<plan, build, restarts, page, requests, pulls, saves>>
    BY <1>4 DEF Edit, network
  <2> QED
    BY <2>6, <2>7, <2>8, <2>9 DEF TypeOK
<1> QED
  BY <1>1, <1>2, <1>3, <1>4

LEMMA TypeStep == TypeOK /\ [Next]_vars => TypeOK'
<1> SUFFICES ASSUME TypeOK, [Next]_vars PROVE TypeOK'
  OBVIOUS
<1>1. CASE UNCHANGED vars
  BY <1>1 DEF vars, state, TypeOK
<1>2. CASE Next
  BY <1>2, TypeOpen, TypeType, TypeCompileNow, TypeSaveNow, TypeReceive, TypeObserve, TypeSync,
     TypePoll, TypeEvent, TypeRejoin, TypeRejoined, TypeRestart, TypeServed
     DEF Next, Going, Serving
<1> QED
  BY <1>1, <1>2

-----------------------------------------------------------------------------
(* What happens beside the session.                                        *)

LEMMA Initially == Init /\ ~plan.late => Kept
<1> SUFFICES ASSUME Init, ~plan.late PROVE Kept
  OBVIOUS
<1>1. \A b \in Page : page[b] = Closed
  BY DEF Init
<1>2. /\ Closed.on = FALSE /\ Closed.timer = FALSE /\ Closed.reply = NoReply
      /\ Closed.loop = "poll" /\ Closed.text = {} /\ Closed.known = 0 /\ Closed.inflight = 0
      /\ Closed.local = 0
  BY DEF Closed
<1>3. session = NoSession /\ NoSession.revision = 0 /\ NoSession.text = {}
  BY DEF Init, NoSession
<1>4. OneBuild /\ ClosedPages
  BY <1>1, <1>2, <1>3 DEF Init, OneBuild, ClosedPages
<1>5. TextsAreMade
  BY <1>1, <1>2, <1>3 DEF Init, TextsAreMade, Made
<1>6. Revisions
  BY <1>1, <1>2, <1>3 DEF Init, Revisions
<1>7. RequestsInOrder /\ RepliesInOrder
  BY <1>1, <1>2 DEF Init, RequestsInOrder, RepliesInOrder
<1>8. PagesAgree /\ RequestsAgree /\ PullsAgree
  BY <1>1, <1>2, <1>3 DEF Init, PagesAgree, RequestsAgree, PullsAgree, Agrees, Others
<1> QED
  BY <1>4, <1>5, <1>6, <1>7, <1>8 DEF Kept

\* A step that changes neither the session nor what pages send, believe and hold.
LEMMA Calm ==
  ASSUME TypeOK, TypeOK', Kept, OneBuild',
         UNCHANGED <<session, requests, edits>>,
         Made(disk'), \A text \in saves' : Made(text),
         \A m \in pulls' : m \in pulls \/ (page[m.page].on /\ m.answer \in {NoSession, session}),
         \A a \in Agent : base'[a] = base[a] \/ base'[a] = session,
         \A b \in Page :
           /\ page'[b].on = page[b].on /\ page'[b].text = page[b].text
           /\ page'[b].known = page[b].known /\ page'[b].local = page[b].local
           /\ page'[b].inflight = page[b].inflight /\ page'[b].reply = page[b].reply
           /\ ~page[b].on => ~page'[b].timer /\ page'[b].loop = "poll"
  PROVE  Kept'
<1>0. \A m \in pulls : m.page \in Page
  BY DEF TypeOK
<1>1. ClosedPages'
  BY DEF Kept, ClosedPages
<1>2. TextsAreMade'
  <2>1. Made(NoSession.text) /\ Made(session.text)
    BY DEF Kept, TextsAreMade, NoSession, Made
  <2>2. \A m \in pulls' : Made(m.answer.text)
    BY <2>1 DEF Kept, TextsAreMade
  <2>3. \A a \in Agent : Made(base'[a].text)
    BY <2>1 DEF Kept, TextsAreMade
  <2> QED
    BY <2>1, <2>2, <2>3 DEF Kept, TextsAreMade, Made
<1>3. Revisions'
  <2>1. Remembered(session)
    BY DEF Remembered, TypeOK, ASession
  <2>2. \A m \in pulls' : m.answer # NoSession => Remembered(m.answer)
    BY <2>1 DEF Kept, Revisions
  <2>3. \A a \in Agent : base'[a] # NoSession => Remembered(base'[a])
    BY <2>1 DEF Kept, Revisions
  <2> QED
    BY <2>2, <2>3 DEF Kept, Revisions, Remembered
<1>4. RequestsInOrder'
  BY DEF Kept, RequestsInOrder, TypeOK
<1>5. RepliesInOrder'
  BY DEF Kept, RepliesInOrder, IsOf
<1>6. PagesAgree' /\ RequestsAgree'
  BY DEF Kept, PagesAgree, RequestsAgree, Agrees, Others, IsOf
<1>7. PullsAgree'
  <2> SUFFICES ASSUME NEW m \in pulls', m.answer # NoSession, IsOf(m.page),
                      m.answer.revision >= page[m.page].known
               PROVE  Agrees(m.page, m.answer.text)
    BY DEF PullsAgree, Agrees, Others, IsOf, TypeOK
  <2> QED
    BY DEF Kept, PullsAgree, Agrees
<1> QED
  BY <1>1, <1>2, <1>3, <1>4, <1>5, <1>6, <1>7 DEF Kept

\* What only looks: saving, polling, reading, writing the document.
LEMMA KeptSaveNow ==
  ASSUME TypeOK, TypeOK', Kept, NEW b \in Page, SaveNow(b)
  PROVE  Kept'
<1>1. \A c \in Page : /\ page'[c].on = page[c].on /\ page'[c].text = page[c].text
                      /\ page'[c].known = page[c].known /\ page'[c].local = page[c].local
                      /\ page'[c].inflight = page[c].inflight /\ page'[c].reply = page[c].reply
                      /\ page'[c].timer = page[c].timer /\ page'[c].loop = page[c].loop
                      /\ page'[c].told = page[c].told /\ page'[c].build = page[c].build
  BY Fields DEF SaveNow, TypeOK, PageType
<1>2. OneBuild'
  BY <1>1 DEF SaveNow, Kept, OneBuild, server
<1>3. \A text \in saves' : Made(text)
  BY DEF SaveNow, Kept, TextsAreMade
<1>4. Made(disk') /\ UNCHANGED <<session, requests, edits, pulls, base>>
  BY DEF SaveNow, Kept, TextsAreMade, server
<1> QED
  BY <1>1, <1>2, <1>3, <1>4, Calm DEF Kept, ClosedPages

LEMMA KeptPoll ==
  ASSUME TypeOK, TypeOK', Kept, NEW b \in Page, Poll(b)
  PROVE  Kept'
<1>1. PICK inbox : page' = [page EXCEPT ![b].since = Len(log), ![b].told = build,
                                        ![b].loop = "events", ![b].inbox = inbox]
  BY DEF Poll
<1>2. \A c \in Page : /\ page'[c].on = page[c].on /\ page'[c].text = page[c].text
                      /\ page'[c].known = page[c].known /\ page'[c].local = page[c].local
                      /\ page'[c].inflight = page[c].inflight /\ page'[c].reply = page[c].reply
                      /\ page'[c].timer = page[c].timer /\ page'[c].build = page[c].build
                      /\ page'[c].loop = (IF c = b THEN "events" ELSE page[c].loop)
                      /\ page'[c].told = (IF c = b THEN build ELSE page[c].told)
  BY <1>1, Fields DEF TypeOK, PageType
<1>3. page[b].on /\ page[b].loop = "poll" /\ UNCHANGED <<server, network, base, edits>>
  BY DEF Poll
<1>4. OneBuild'
  BY <1>2, <1>3 DEF Kept, OneBuild, server
<1>5. Made(disk') /\ (\A text \in saves' : Made(text)) /\ UNCHANGED <<session, requests, edits, pulls, base>>
  BY <1>3 DEF Kept, TextsAreMade, server, network
<1>6. \A c \in Page : ~page[c].on => ~page'[c].timer /\ page'[c].loop = "poll"
  BY <1>2, <1>3 DEF Kept, ClosedPages
<1> QED
  BY <1>2, <1>4, <1>5, <1>6, Calm

LEMMA KeptEvent ==
  ASSUME TypeOK, TypeOK', Kept, NEW b \in Page, Event(b)
  PROVE  Kept'
<1>1. \A c \in Page : /\ page'[c].on = page[c].on /\ page'[c].text = page[c].text
                      /\ page'[c].known = page[c].known /\ page'[c].local = page[c].local
                      /\ page'[c].inflight = page[c].inflight /\ page'[c].reply = page[c].reply
                      /\ page'[c].timer = page[c].timer /\ page'[c].loop = page[c].loop
                      /\ page'[c].told = page[c].told /\ page'[c].build = page[c].build
  BY Fields DEF Event, TypeOK, PageType
<1>2. OneBuild'
  BY <1>1 DEF Event, Kept, OneBuild, server
<1>3. page[b].on
  BY DEF Event, Kept, ClosedPages
<1>4. \A m \in pulls' : m \in pulls \/ (page[m.page].on /\ m.answer = NoSession)
  BY <1>3 DEF Event
<1>5. Made(disk') /\ (\A text \in saves' : Made(text)) /\ UNCHANGED <<session, requests, edits, base>>
  BY DEF Event, Kept, TextsAreMade, server
<1> QED
  BY <1>1, <1>2, <1>4, <1>5, Calm DEF Kept, ClosedPages

\* There is no other server to join.
LEMMA KeptRejoin ==
  ASSUME TypeOK, TypeOK', Kept, NEW b \in Page, Rejoin(b) \/ Rejoined(b)
  PROVE  Kept'
<1>1. page[b].on /\ page[b].told = 1 /\ (page[b].loop # "first" => page[b].build = 1)
  BY DEF Rejoin, Rejoined, Kept, ClosedPages, OneBuild
<1>2. \/ page' = [page EXCEPT ![b].build = page[b].told, ![b].loop = "poll"]
      \/ page' = [page EXCEPT ![b].build = page[b].told, ![b].loop = "poll", ![b].awaited = 0]
  BY <1>1 DEF Rejoin, Rejoined
<1>3. UNCHANGED <<requests, server, pulls, saves, base, edits>>
  BY <1>1 DEF Rejoin, Rejoined, network
<1>4. \A c \in Page : /\ page'[c].on = page[c].on /\ page'[c].text = page[c].text
                      /\ page'[c].known = page[c].known /\ page'[c].local = page[c].local
                      /\ page'[c].inflight = page[c].inflight /\ page'[c].reply = page[c].reply
                      /\ page'[c].timer = page[c].timer /\ page'[c].told = page[c].told
                      /\ page'[c].loop = (IF c = b THEN "poll" ELSE page[c].loop)
                      /\ page'[c].build = (IF c = b THEN page[b].told ELSE page[c].build)
  <2>1. CASE page' = [page EXCEPT ![b].build = page[b].told, ![b].loop = "poll"]
    BY <2>1, Fields DEF TypeOK, PageType
  <2>2. CASE page' = [page EXCEPT ![b].build = page[b].told, ![b].loop = "poll", ![b].awaited = 0]
    BY <2>2, Fields DEF TypeOK, PageType
  <2> QED
    BY <1>2, <2>1, <2>2
<1>5. OneBuild'
  BY <1>1, <1>3, <1>4 DEF Kept, OneBuild, server
<1>6. Made(disk') /\ (\A text \in saves' : Made(text)) /\ UNCHANGED <<session, requests, edits, pulls, base>>
  BY <1>3 DEF Kept, TextsAreMade, server
<1>7. \A c \in Page : ~page[c].on => ~page'[c].timer /\ page'[c].loop = "poll"
  BY <1>4 DEF Kept, ClosedPages
<1> QED
  BY <1>4, <1>5, <1>6, <1>7, Calm

LEMMA KeptServed ==
  ASSUME TypeOK, TypeOK', Kept,
         \/ \E m \in pulls : Shared(m)
         \/ \E text \in saves : Write(text)
         \/ \E a \in Agent : Read(a)
  PROVE  Kept'
<1>1. UNCHANGED <<session, requests, edits, page, build>>
  BY DEF Shared, Write, Read, server, network
<1>2. OneBuild'
  BY <1>1 DEF Kept, OneBuild
<1>3. Made(disk') /\ \A text \in saves' : Made(text)
  BY DEF Shared, Write, Read, server, network, Kept, TextsAreMade
<1>4. \A m \in pulls' : m \in pulls \/ (page[m.page].on /\ m.answer = session)
  <2>1. ASSUME NEW m \in pulls, Shared(m)
        PROVE  \A n \in pulls' : n \in pulls \/ (page[n.page].on /\ n.answer = session)
    <3> DEFINE n == [m EXCEPT !.answer = session, !.done = TRUE]
    <3>1. n.page = m.page /\ n.answer = session /\ m.page \in Page
      BY DEF TypeOK
    <3>2. page[m.page].on
      BY <3>1 DEF Kept, ClosedPages
    <3>3. pulls' = (pulls \ {m}) \cup {n}
      BY <2>1 DEF Shared
    <3> QED
      BY <3>1, <3>2, <3>3
  <2> QED
    BY <2>1 DEF Write, Read, network
<1>5. \A a \in Agent : base'[a] = base[a] \/ base'[a] = session
  BY DEF Shared, Write, Read, TypeOK
<1>6. \A c \in Page : ~page[c].on => ~page'[c].timer /\ page'[c].loop = "poll"
  BY <1>1 DEF Kept, ClosedPages
<1> QED
  BY <1>1, <1>2, <1>3, <1>4, <1>5, <1>6, Calm

-----------------------------------------------------------------------------
(* What pages do to their own text and revision.                           *)

\* Before the first edit every text is empty, so that it does not matter which
\* session a page that opens has read.
LEMMA KeptOpen ==
  ASSUME TypeOK, TypeOK', Kept, ~plan.late, NEW b \in Page, Open(b)
  PROVE  Kept'
<1> DEFINE s == [page[b] EXCEPT !.on = TRUE, !.text = disk, !.known = session.revision,
                               !.since = Len(log), !.told = build, !.loop = "first"]
           r == Sent(b, s)
           w == [page |-> b, cause |-> Never, answer |-> session, done |-> TRUE]
<1>1. /\ ~page[b].on /\ page' = [page EXCEPT ![b] = Compiling(s)] /\ requests' = requests \cup {r}
      /\ pulls' = pulls \cup {w} /\ UNCHANGED <<session, build, disk, saves, base, edits>>
      /\ \A x \in Page \cup Agent : edits[x] = 0
  BY DEF Open, server
<1>2. \A text \in SUBSET AnEdit : Made(text) => text = {}
  BY <1>1 DEF Made, AnEdit
<1>3. session.text = {} /\ disk = {}
  BY <1>2 DEF Kept, TextsAreMade, TypeOK, ASession
<1>4. /\ s.on = TRUE /\ s.text = {} /\ s.known = session.revision /\ s.told = build
      /\ s.loop = "first" /\ s.local = page[b].local /\ DOMAIN s = DOMAIN Closed
  BY <1>3, Fields DEF TypeOK, PageType
<1>5. r.page = b /\ r.known = session.revision /\ r.local = page[b].local + 1 /\ r.text = {}
  BY <1>4 DEF Sent
<1>6. w.page = b /\ w.answer = session
  OBVIOUS
<1> HIDE DEF s, r, w
<1>7. /\ Compiling(s).on = TRUE /\ Compiling(s).text = {} /\ Compiling(s).known = session.revision
      /\ Compiling(s).told = build /\ Compiling(s).loop = "first" /\ Compiling(s).timer = FALSE
      /\ Compiling(s).local = page[b].local + 1 /\ Compiling(s).inflight = page[b].local + 1
      /\ Compiling(s).reply = NoReply
  BY <1>4, Fields DEF Compiling
<1>8. page'[b] = Compiling(s) /\ \A c \in Page : c # b => page'[c] = page[c]
  BY <1>1 DEF TypeOK
<1>9. /\ \A m \in requests \cup pulls : m.page # b
      /\ session # NoSession => session.client # b
      /\ page[b].local \in Nat /\ session.revision \in Nat
      /\ \A m \in requests : m.page \in Page /\ m.known \in Nat /\ m.local \in Nat
      /\ \A m \in pulls : m.page \in Page
  BY <1>1 DEF Kept, ClosedPages, TypeOK, PageType, ASession
<1>10. OneBuild'
  BY <1>1, <1>7, <1>8 DEF Kept, OneBuild
<1>11. ClosedPages'
  <2> SUFFICES ASSUME NEW c \in Page, c # b, ~page[c].on
               PROVE  /\ ~page[c].timer /\ page[c].reply = NoReply /\ page[c].loop = "poll"
                      /\ \A m \in requests' \cup pulls' : m.page # c
                      /\ session # NoSession => session.client # c
    BY <1>1, <1>7, <1>8 DEF ClosedPages
  <2> QED
    BY <1>1, <1>5, <1>6 DEF Kept, ClosedPages
<1>12. TextsAreMade'
  <2>1. Made({})
    BY DEF Made
  <2>2. \A c \in Page : Made(page'[c].text)
    BY <1>7, <1>8, <2>1 DEF Kept, TextsAreMade
  <2>3. \A m \in requests' : Made(m.text)
    BY <1>1, <1>5, <2>1 DEF Kept, TextsAreMade
  <2>4. \A m \in pulls' : Made(m.answer.text)
    BY <1>1, <1>3, <1>6, <2>1 DEF Kept, TextsAreMade
  <2> QED
    BY <1>1, <2>2, <2>3, <2>4 DEF Kept, TextsAreMade, Made
<1>13. Revisions'
  <2>1. \A c \in Page : page'[c].known <= session.revision
    BY <1>7, <1>8, <1>9 DEF Kept, Revisions
  <2>2. \A m \in requests' : m.known <= session.revision
    BY <1>1, <1>5, <1>9 DEF Kept, Revisions
  <2>3. \A m \in pulls' : m.answer # NoSession => Remembered(m.answer)
    BY <1>1, <1>6, <1>9 DEF Kept, Revisions, Remembered
  <2> QED
    BY <1>1, <2>1, <2>2, <2>3 DEF Kept, Revisions, Remembered
<1>14. RequestsInOrder'
  <2>1. ASSUME NEW m \in requests'
        PROVE  /\ m.local \in 1 .. page'[m.page].local
               /\ page'[m.page].inflight # 0 => m.local <= page'[m.page].inflight
               /\ m.known = session.revision => page'[m.page].known = session.revision
    <3>1. CASE m = r
      BY <1>5, <1>7, <1>8, <1>9, <3>1
    <3>2. CASE m \in requests
      BY <1>8, <1>9, <3>2 DEF Kept, RequestsInOrder
    <3> QED
      BY <1>1, <3>1, <3>2
  <2>2. ASSUME NEW m \in requests', NEW n \in requests', m.page = n.page, m.local < n.local,
               m.known = session.revision
        PROVE  n.known = session.revision
    BY <1>1, <1>5, <1>9, <2>2 DEF Kept, RequestsInOrder
  <2> QED
    BY <1>1, <2>1, <2>2 DEF RequestsInOrder
<1>15. RepliesInOrder'
  <2> SUFFICES ASSUME NEW c \in Page
               PROVE  LET q == page'[c].reply IN
                      /\ page'[c].inflight <= page'[c].local
                      /\ q # NoReply => page'[c].inflight # 0
                      /\ q # NoReply /\ q.accepted =>
                           /\ q.revision <= session.revision
                           /\ q.revision = session.revision <=> IsOf(c)
                           /\ IsOf(c) => session.local = page'[c].inflight
                           /\ \A m \in requests' : m.page = c => m.known < q.revision
    BY <1>1 DEF RepliesInOrder, IsOf
  <2>1. CASE c = b
    BY <1>7, <1>8, <1>9, <2>1
  <2>2. CASE c # b
    BY <1>1, <1>5, <1>8, <2>2 DEF Kept, RepliesInOrder
  <2> QED
    BY <2>1, <2>2
<1>16. PagesAgree'
  <2>1. Agrees(b, {})
    BY <1>3 DEF Agrees
  <2> SUFFICES ASSUME NEW c \in Page, page'[c].known = session.revision \/ IsOf(c)
               PROVE  Agrees(c, page'[c].text)
    BY <1>1 DEF PagesAgree, Agrees, Others, IsOf
  <2> QED
    BY <1>7, <1>8, <2>1 DEF Kept, PagesAgree
<1>17. RequestsAgree'
  <2>1. Agrees(b, {})
    BY <1>3 DEF Agrees
  <2> SUFFICES ASSUME NEW m \in requests',
                      m.known = session.revision \/ (IsOf(m.page) /\ m.local > session.local)
               PROVE  Agrees(m.page, m.text)
    BY <1>1 DEF RequestsAgree, Agrees, Others, IsOf
  <2> QED
    BY <1>1, <1>5, <2>1 DEF Kept, RequestsAgree
<1>18. PullsAgree'
  <2> SUFFICES ASSUME NEW m \in pulls', m.answer # NoSession, IsOf(m.page),
                      m.answer.revision >= page'[m.page].known
               PROVE  Agrees(m.page, m.answer.text)
    BY <1>1 DEF PullsAgree, Agrees, Others, IsOf
  <2>1. CASE m = w
    BY <1>6, <2>1 DEF Agrees
  <2>2. CASE m \in pulls
    BY <1>8, <1>9, <2>2 DEF Kept, PullsAgree
  <2> QED
    BY <1>1, <2>1, <2>2
<1> QED
  BY <1>10, <1>11, <1>12, <1>13, <1>14, <1>15, <1>16, <1>17, <1>18 DEF Kept

\* More edits make no text lose its edits.
LEMMA StillMade ==
  ASSUME TypeOK, TypeOK', NEW x \in Page \cup Agent, edits' = [edits EXCEPT ![x] = @ + 1],
         NEW text \in SUBSET AnEdit, Made(text)
  PROVE  \A e \in text \cup {NewEdit(x)} : e.n \in 1 .. edits'[e.by]
<1>1. edits \in [Page \cup Agent -> Nat]
  BY DEF TypeOK
<1>2. \A y \in Page \cup Agent : edits'[y] \in Nat /\ edits'[y] >= edits[y]
  BY <1>1
<1>3. \A e \in text : e.n \in 1 .. edits'[e.by]
  BY <1>1, <1>2 DEF Made, AnEdit
<1>4. NewEdit(x).n = edits[x] + 1 /\ NewEdit(x).by = x /\ edits'[x] = edits[x] + 1
  BY <1>1 DEF NewEdit
<1> QED
  BY <1>1, <1>3, <1>4

LEMMA KeptType ==
  ASSUME TypeOK, TypeOK', Kept, NEW b \in Page, Type(b)
  PROVE  Kept'
<1> DEFINE e == NewEdit(b)
           Later(text) == \A x \in text : x.n \in 1 .. edits'[x.by]
<1>1. /\ page[b].on /\ edits' = [edits EXCEPT ![b] = @ + 1]
      /\ UNCHANGED <<session, build, disk, requests, pulls, saves, base>>
  BY DEF Type, server, network
<1>2. \A c \in Page : /\ page'[c].on = page[c].on /\ page'[c].known = page[c].known
                      /\ page'[c].local = page[c].local /\ page'[c].inflight = page[c].inflight
                      /\ page'[c].reply = page[c].reply /\ page'[c].loop = page[c].loop
                      /\ page'[c].told = page[c].told /\ page'[c].build = page[c].build
  BY Fields DEF Type, TypeOK, PageType
<1>13. page'[b].text = page[b].text \cup {e}
  BY Fields DEF Type, TypeOK, PageType
<1>14. \A c \in Page : c # b => page'[c] = page[c]
  BY DEF Type, TypeOK
<1>3. e.by = b
  BY DEF NewEdit
<1>4. \A text \in SUBSET AnEdit : Made(text) => Later(text) /\ Later(text \cup {e})
  BY <1>1, StillMade
<1> HIDE DEF e, Later
<1>5. OneBuild'
  BY <1>1, <1>2 DEF Kept, OneBuild
<1>6. ClosedPages'
  BY <1>1, <1>2, <1>14 DEF Kept, ClosedPages
<1>7. TextsAreMade'
  <2>1. Later(session.text) /\ Later(disk)
    BY <1>4 DEF Kept, TextsAreMade, TypeOK, ASession
  <2>2. \A c \in Page : Later(page'[c].text)
    BY <1>4, <1>13, <1>14 DEF Kept, TextsAreMade, TypeOK, PageType
  <2>3. (\A m \in requests : Later(m.text)) /\ (\A m \in pulls : Later(m.answer.text))
    BY <1>4 DEF Kept, TextsAreMade, TypeOK, ASession
  <2>4. (\A text \in saves : Later(text)) /\ (\A a \in Agent : Later(base[a].text))
    BY <1>4 DEF Kept, TextsAreMade, TypeOK, ASession
  <2> QED
    BY <1>1, <2>1, <2>2, <2>3, <2>4 DEF TextsAreMade, Made, Later
<1>8. Revisions'
  BY <1>1, <1>2 DEF Kept, Revisions, Remembered
<1>9. RequestsInOrder'
  BY <1>1, <1>2 DEF Kept, RequestsInOrder, TypeOK
<1>10. RepliesInOrder'
  BY <1>1, <1>2 DEF Kept, RepliesInOrder, IsOf
<1>11. PagesAgree'
  <2>1. \A text : Others(b, text \cup {e}) = Others(b, text)
    BY <1>3 DEF Others
  <2>2. \A c \in Page : Others(c, page'[c].text) = Others(c, page[c].text)
    BY <1>13, <1>14, <2>1
  <2> QED
    BY <1>1, <1>2, <2>2 DEF Kept, PagesAgree, Agrees, IsOf, Others
<1>12. RequestsAgree' /\ PullsAgree'
  <2>1. \A m \in pulls : m.page \in Page
    BY DEF TypeOK
  <2> QED
    BY <1>1, <1>2, <2>1 DEF Kept, RequestsAgree, PullsAgree, Agrees, IsOf, Others
<1> QED
  BY <1>5, <1>6, <1>7, <1>8, <1>9, <1>10, <1>11, <1>12 DEF Kept

\* What a page sends is what it has, and newer than all it has sent.
LEMMA KeptCompileNow ==
  ASSUME TypeOK, TypeOK', Kept, NEW b \in Page, CompileNow(b)
  PROVE  Kept'
<1> DEFINE p == page[b]
           r == Sent(b, p)
<1>1. /\ p.timer /\ page' = [page EXCEPT ![b] = Compiling(p)] /\ requests' = requests \cup {r}
      /\ UNCHANGED <<session, build, disk, pulls, saves, base, edits>>
  BY DEF CompileNow, server
<1>2. r.page = b /\ r.known = p.known /\ r.local = p.local + 1 /\ r.text = p.text
  BY DEF Sent
<1>3. PageType(p) /\ p.on
  BY <1>1 DEF TypeOK, Kept, ClosedPages
<1> HIDE DEF p, r
<1>4. /\ Compiling(p).on = p.on /\ Compiling(p).text = p.text /\ Compiling(p).known = p.known
      /\ Compiling(p).told = p.told /\ Compiling(p).loop = p.loop /\ Compiling(p).build = p.build
      /\ Compiling(p).local = p.local + 1 /\ Compiling(p).inflight = p.local + 1
      /\ Compiling(p).reply = NoReply
  BY <1>3, Fields DEF Compiling, PageType
<1>5. page'[b] = Compiling(p) /\ p = page[b] /\ \A c \in Page : c # b => page'[c] = page[c]
  BY <1>1 DEF TypeOK, p
<1>6. /\ p.local \in Nat /\ p.known \in Nat /\ session.revision \in Nat /\ session.local \in Nat
      /\ \A m \in requests : m.page \in Page /\ m.known \in Nat /\ m.local \in Nat
      /\ \A m \in pulls : m.page \in Page
  BY <1>3 DEF TypeOK, PageType, ASession
<1>7. OneBuild'
  BY <1>1, <1>3, <1>4, <1>5 DEF Kept, OneBuild
<1>16. page'[b].on
  BY <1>3, <1>4, <1>5
<1>8. ClosedPages'
  <2> SUFFICES ASSUME NEW c \in Page, c # b, ~page[c].on
               PROVE  /\ ~page[c].timer /\ page[c].reply = NoReply /\ page[c].loop = "poll"
                      /\ \A m \in requests' \cup pulls' : m.page # c
                      /\ session # NoSession => session.client # c
    BY <1>1, <1>5, <1>16 DEF ClosedPages
  <2> QED
    BY <1>1, <1>2 DEF Kept, ClosedPages
<1>9. TextsAreMade'
  BY <1>1, <1>2, <1>4, <1>5 DEF Kept, TextsAreMade, Made
<1>10. Revisions'
  BY <1>1, <1>2, <1>4, <1>5 DEF Kept, Revisions, Remembered
<1>11. RequestsInOrder'
  <2>1. ASSUME NEW m \in requests'
        PROVE  /\ m.local \in 1 .. page'[m.page].local
               /\ page'[m.page].inflight # 0 => m.local <= page'[m.page].inflight
               /\ m.known = session.revision => page'[m.page].known = session.revision
    <3>1. CASE m = r
      BY <1>2, <1>4, <1>5, <1>6, <3>1
    <3>2. CASE m \in requests /\ m.page = b
      BY <1>4, <1>5, <1>6, <3>2 DEF Kept, RequestsInOrder
    <3>3. CASE m \in requests /\ m.page # b
      BY <1>5, <1>6, <3>3 DEF Kept, RequestsInOrder
    <3> QED
      BY <1>1, <3>1, <3>2, <3>3
  <2>2. ASSUME NEW m \in requests', NEW n \in requests', m.page = n.page, m.local < n.local,
               m.known = session.revision
        PROVE  n.known = session.revision
    <3>1. CASE n = r /\ m \in requests
      BY <1>2, <1>5, <2>2, <3>1 DEF Kept, RequestsInOrder
    <3>2. CASE m = r /\ n \in requests
      BY <1>2, <1>5, <1>6, <2>2, <3>2 DEF Kept, RequestsInOrder
    <3>3. CASE m \in requests /\ n \in requests
      BY <2>2, <3>3 DEF Kept, RequestsInOrder
    <3> QED
      BY <1>1, <2>2, <3>1, <3>2, <3>3
  <2> QED
    BY <1>1, <2>1, <2>2 DEF RequestsInOrder
<1>12. RepliesInOrder'
  <2> SUFFICES ASSUME NEW c \in Page
               PROVE  LET q == page'[c].reply IN
                      /\ page'[c].inflight <= page'[c].local
                      /\ q # NoReply => page'[c].inflight # 0
                      /\ q # NoReply /\ q.accepted =>
                           /\ q.revision <= session.revision
                           /\ q.revision = session.revision <=> IsOf(c)
                           /\ IsOf(c) => session.local = page'[c].inflight
                           /\ \A m \in requests' : m.page = c => m.known < q.revision
    BY <1>1 DEF RepliesInOrder, IsOf
  <2>1. CASE c = b
    BY <1>4, <1>5, <1>6, <2>1
  <2>2. CASE c # b
    BY <1>1, <1>2, <1>5, <2>2 DEF Kept, RepliesInOrder
  <2> QED
    BY <2>1, <2>2
<1>13. PagesAgree'
  BY <1>1, <1>4, <1>5 DEF Kept, PagesAgree, Agrees, Others, IsOf
<1>14. RequestsAgree'
  <2> SUFFICES ASSUME NEW m \in requests',
                      m.known = session.revision \/ (IsOf(m.page) /\ m.local > session.local)
               PROVE  Agrees(m.page, m.text)
    BY <1>1 DEF RequestsAgree, Agrees, Others, IsOf
  <2>1. CASE m = r
    BY <1>2, <1>5, <2>1 DEF Kept, PagesAgree
  <2> QED
    BY <1>1, <2>1 DEF Kept, RequestsAgree
<1>15. PullsAgree'
  BY <1>1, <1>4, <1>5, <1>6 DEF Kept, PullsAgree, Agrees, Others, IsOf
<1> QED
  BY <1>7, <1>8, <1>9, <1>10, <1>11, <1>12, <1>13, <1>14, <1>15 DEF Kept

\* An answer that arrives is of the session it agrees with, or of one that is past.
LEMMA KeptReceive ==
  ASSUME TypeOK, TypeOK', Kept, NEW b \in Page, Receive(b)
  PROVE  Kept'
<1> DEFINE r == page[b].reply
           known == IF r.accepted THEN r.revision ELSE page[b].known
           build1 == IF r.accepted /\ page[b].inflight = page[b].local
                     THEN r.build ELSE page[b].build
           w == [page |-> b, cause |-> page[b].inflight, answer |-> NoSession, done |-> FALSE]
<1>1. /\ r # NoReply /\ UNCHANGED <<session, build, disk, requests, saves, base, edits>>
      /\ pulls' = pulls \/ pulls' = pulls \cup {w}
      /\ page' = [page EXCEPT ![b].inflight = 0, ![b].reply = NoReply, ![b].known = known,
                              ![b].build = build1]
  BY DEF Receive, server
<1>2. r.build = 1 /\ page[b].on
  BY <1>1 DEF Kept, OneBuild, ClosedPages
<1> HIDE DEF r, known, build1, w
<1>3. /\ page'[b].on = page[b].on /\ page'[b].text = page[b].text /\ page'[b].local = page[b].local
      /\ page'[b].timer = page[b].timer /\ page'[b].told = page[b].told
      /\ page'[b].loop = page[b].loop /\ page'[b].inflight = 0 /\ page'[b].reply = NoReply
      /\ page'[b].known = known /\ page'[b].build = build1
  BY <1>1, Fields DEF TypeOK, PageType
<1>4. \A c \in Page : c # b => page'[c] = page[c]
  BY <1>1 DEF TypeOK
<1>5. w.page = b /\ w.answer = NoSession
  BY DEF w
<1>6. /\ page[b].known \in Nat /\ page[b].local \in Nat /\ session.revision \in Nat
      /\ r.revision \in Nat
      /\ \A m \in requests : m.page \in Page /\ m.known \in Nat
      /\ \A m \in pulls : m.page \in Page /\ m.answer.revision \in Nat
  BY DEF TypeOK, PageType, ASession, AReply, r
<1>7. r.accepted => /\ r.revision <= session.revision
                    /\ r.revision = session.revision <=> IsOf(b)
                    /\ \A m \in requests : m.page = b => m.known < r.revision
  BY <1>1 DEF Kept, RepliesInOrder, r
<1>8. OneBuild'
  <2>1. page[b].loop # "first" => build1 = 1
    BY <1>2 DEF Kept, OneBuild, build1
  <2> SUFFICES ASSUME NEW c \in Page
               PROVE  /\ page'[c].on => page'[c].told = 1
                                       /\ (page'[c].loop # "first" => page'[c].build = 1)
                      /\ page'[c].reply # NoReply => page'[c].reply.build = 1
    BY <1>1 DEF Kept, OneBuild
  <2>2. CASE c = b
    BY <1>3, <2>1, <2>2 DEF Kept, OneBuild
  <2>3. CASE c # b
    BY <1>4, <2>3 DEF Kept, OneBuild
  <2> QED
    BY <2>2, <2>3
<1>17. page'[b].on
  BY <1>2, <1>3
<1>9. ClosedPages'
  <2> SUFFICES ASSUME NEW c \in Page, c # b, ~page[c].on
               PROVE  /\ ~page[c].timer /\ page[c].reply = NoReply /\ page[c].loop = "poll"
                      /\ \A m \in requests \cup pulls' : m.page # c
                      /\ session # NoSession => session.client # c
    BY <1>1, <1>4, <1>17 DEF ClosedPages
  <2>1. \A m \in pulls' : m \in pulls \/ m.page = b
    BY <1>1, <1>5
  <2> QED
    BY <2>1 DEF Kept, ClosedPages
<1>10. TextsAreMade'
  <2>1. Made(NoSession.text)
    BY DEF NoSession, Made
  <2>2. \A c \in Page : page'[c].text = page[c].text
    BY <1>3, <1>4
  <2>3. \A m \in pulls' : Made(m.answer.text)
    BY <1>1, <1>5, <2>1 DEF Kept, TextsAreMade
  <2> QED
    BY <1>1, <2>2, <2>3 DEF Kept, TextsAreMade, Made
<1>11. Revisions'
  <2>1. known <= session.revision
    BY <1>7 DEF known, Kept, Revisions
  <2> QED
    BY <1>1, <1>3, <1>4, <1>5, <2>1 DEF Kept, Revisions, Remembered
<1>12. RequestsInOrder'
  <2>1. ASSUME NEW m \in requests, m.known = session.revision
        PROVE  page'[m.page].known = session.revision
    <3>1. page[m.page].known = session.revision /\ m.page \in Page
      BY <1>6, <2>1 DEF Kept, RequestsInOrder
    <3>2. CASE m.page # b
      BY <1>4, <3>1, <3>2
    <3>3. CASE m.page = b
      <4>1. ~r.accepted
        BY <1>6, <1>7, <2>1, <3>3
      <4> QED
        BY <1>3, <3>1, <3>3, <4>1 DEF known
    <3> QED
      BY <3>2, <3>3
  <2>2. ASSUME NEW m \in requests
        PROVE  /\ m.local \in 1 .. page'[m.page].local
               /\ page'[m.page].inflight # 0 => m.local <= page'[m.page].inflight
    BY <1>3, <1>4, <1>6 DEF Kept, RequestsInOrder
  <2> QED
    BY <1>1, <2>1, <2>2 DEF Kept, RequestsInOrder
<1>13. RepliesInOrder'
  <2> SUFFICES ASSUME NEW c \in Page
               PROVE  LET q == page'[c].reply IN
                      /\ page'[c].inflight <= page'[c].local
                      /\ q # NoReply => page'[c].inflight # 0
                      /\ q # NoReply /\ q.accepted =>
                           /\ q.revision <= session.revision
                           /\ q.revision = session.revision <=> IsOf(c)
                           /\ IsOf(c) => session.local = page'[c].inflight
                           /\ \A m \in requests : m.page = c => m.known < q.revision
    BY <1>1 DEF RepliesInOrder, IsOf
  <2>1. CASE c = b
    BY <1>3, <1>6, <2>1
  <2>2. CASE c # b
    BY <1>4, <2>2 DEF Kept, RepliesInOrder
  <2> QED
    BY <2>1, <2>2
<1>14. PagesAgree'
  <2>1. known = session.revision => page[b].known = session.revision \/ IsOf(b)
    BY <1>7 DEF known
  <2> QED
    BY <1>1, <1>3, <1>4, <2>1 DEF Kept, PagesAgree, Agrees, Others, IsOf
<1>15. RequestsAgree'
  BY <1>1 DEF Kept, RequestsAgree, Agrees, Others, IsOf
<1>16. PullsAgree'
  <2> SUFFICES ASSUME NEW m \in pulls, m.answer # NoSession, IsOf(m.page),
                      m.answer.revision >= page'[m.page].known
               PROVE  Agrees(m.page, m.answer.text)
    BY <1>1, <1>5 DEF PullsAgree, Agrees, Others, IsOf
  <2>1. CASE m.page = b /\ r.accepted
    <3>1. m.answer.revision >= session.revision
      BY <1>3, <1>7, <2>1 DEF known
    <3>2. m.answer = session
      BY <1>6, <3>1 DEF Kept, Revisions, Remembered
    <3> QED
      BY <3>2 DEF Agrees
  <2>2. CASE ~(m.page = b /\ r.accepted)
    <3>1. page'[m.page].known = page[m.page].known
      BY <1>3, <1>4, <1>6, <2>2 DEF known
    <3> QED
      BY <3>1 DEF Kept, PullsAgree
  <2> QED
    BY <2>1, <2>2
<1> QED
  BY <1>8, <1>9, <1>10, <1>11, <1>12, <1>13, <1>14, <1>15, <1>16 DEF Kept

LEMMA KeptSync ==
  ASSUME TypeOK, TypeOK', Kept, NEW m \in pulls, Sync(m)
  PROVE  Kept'
<1> DEFINE b == m.page
           local == IF page[b].local < m.answer.local THEN m.answer.local ELSE page[b].local
<1>1. /\ pulls' = pulls \ {m} /\ UNCHANGED <<session, build, disk, requests, saves, base, edits>>
      /\ \/ page' = page
         \/ /\ m.answer # NoSession /\ ~(m.answer.revision < page[b].known)
            /\ page' = [page EXCEPT ![b].known = m.answer.revision, ![b].text = m.answer.text,
                                    ![b].local = local, ![b].build = build]
  BY DEF Sync, server
<1>2. b \in Page /\ page[b].on
  BY DEF TypeOK, Kept, ClosedPages
<1> HIDE DEF local
<1>3. CASE page' = page
  <2>1. OneBuild'
    BY <1>1, <1>3 DEF Kept, OneBuild
  <2>2. Made(disk') /\ (\A text \in saves' : Made(text))
    BY <1>1 DEF Kept, TextsAreMade
  <2> QED
    BY <1>1, <1>3, <2>1, <2>2, Calm DEF Kept, ClosedPages
<1>4. CASE /\ m.answer # NoSession /\ ~(m.answer.revision < page[b].known)
           /\ page' = [page EXCEPT ![b].known = m.answer.revision, ![b].text = m.answer.text,
                                   ![b].local = local, ![b].build = build]
  <2>1. /\ page'[b].on = page[b].on /\ page'[b].timer = page[b].timer
        /\ page'[b].told = page[b].told /\ page'[b].loop = page[b].loop
        /\ page'[b].inflight = page[b].inflight /\ page'[b].reply = page[b].reply
        /\ page'[b].known = m.answer.revision /\ page'[b].text = m.answer.text
        /\ page'[b].local = local /\ page'[b].build = build
    BY <1>2, <1>4, Fields DEF TypeOK, PageType
  <2>2. \A c \in Page : c # b => page'[c] = page[c]
    BY <1>4 DEF TypeOK
  <2>3. /\ page[b].known \in Nat /\ session.revision \in Nat /\ m.answer.revision \in Nat
        /\ page[b].local \in Nat /\ m.answer.local \in Nat /\ page[b].inflight \in Nat
        /\ \A n \in requests : n.page \in Page /\ n.known \in Nat /\ n.local \in Nat
        /\ \A n \in pulls : n.page \in Page /\ n.answer.revision \in Nat
    BY <1>2 DEF TypeOK, PageType, ASession
  <2>4. local \in Nat /\ local >= page[b].local /\ m.answer.revision >= page[b].known
    BY <1>4, <2>3 DEF local
  <2>5. Remembered(m.answer)
    BY <1>4 DEF Kept, Revisions
  <2>6. OneBuild'
    BY <1>1, <2>1, <2>2 DEF Kept, OneBuild
  <2>7. ClosedPages'
    BY <1>1, <1>2, <2>1, <2>2 DEF Kept, ClosedPages
  <2>8. TextsAreMade'
    BY <1>1, <2>1, <2>2 DEF Kept, TextsAreMade, Made
  <2>9. Revisions'
    BY <1>1, <2>1, <2>2, <2>5 DEF Kept, Revisions, Remembered
  <2>10. RequestsInOrder'
    <3>1. ASSUME NEW n \in requests
          PROVE  /\ n.local \in 1 .. page'[n.page].local
                 /\ page'[n.page].inflight # 0 => n.local <= page'[n.page].inflight
                 /\ n.known = session.revision => page'[n.page].known = session.revision
      <4>1. CASE n.page = b
        BY <2>1, <2>3, <2>4, <2>5, <4>1 DEF Kept, RequestsInOrder, Remembered
      <4>2. CASE n.page # b
        BY <2>2, <2>3, <4>2 DEF Kept, RequestsInOrder
      <4> QED
        BY <4>1, <4>2
    <3> QED
      BY <1>1, <3>1 DEF Kept, RequestsInOrder
  <2>11. RepliesInOrder'
    <3> SUFFICES ASSUME NEW c \in Page
                 PROVE  LET q == page'[c].reply IN
                        /\ page'[c].inflight <= page'[c].local
                        /\ q # NoReply => page'[c].inflight # 0
                        /\ q # NoReply /\ q.accepted =>
                             /\ q.revision <= session.revision
                             /\ q.revision = session.revision <=> IsOf(c)
                             /\ IsOf(c) => session.local = page'[c].inflight
                             /\ \A n \in requests : n.page = c => n.known < q.revision
      BY <1>1 DEF RepliesInOrder, IsOf
    <3>1. CASE c = b
      BY <2>1, <2>3, <2>4, <3>1 DEF Kept, RepliesInOrder
    <3>2. CASE c # b
      BY <2>2, <3>2 DEF Kept, RepliesInOrder
    <3> QED
      BY <3>1, <3>2
  <2>12. PagesAgree'
    <3>1. m.answer.revision = session.revision \/ IsOf(b) => Agrees(b, m.answer.text)
      BY <1>4, <2>4, <2>5 DEF Kept, PullsAgree, Remembered, Agrees
    <3> QED
      BY <1>1, <2>1, <2>2, <3>1 DEF Kept, PagesAgree, Agrees, Others, IsOf
  <2>13. RequestsAgree'
    BY <1>1 DEF Kept, RequestsAgree, Agrees, Others, IsOf
  <2>14. PullsAgree'
    <3> SUFFICES ASSUME NEW n \in pulls, n.answer # NoSession, IsOf(n.page),
                        n.answer.revision >= page'[n.page].known
                 PROVE  Agrees(n.page, n.answer.text)
      BY <1>1 DEF PullsAgree, Agrees, Others, IsOf
    <3>1. n.answer.revision >= page[n.page].known
      BY <2>1, <2>2, <2>3, <2>4
    <3> QED
      BY <3>1 DEF Kept, PullsAgree
  <2> QED
    BY <2>6, <2>7, <2>8, <2>9, <2>10, <2>11, <2>12, <2>13, <2>14 DEF Kept
<1> QED
  BY <1>1, <1>3, <1>4

-----------------------------------------------------------------------------
(* What changes the session.                                               *)

\* What a compile changes of its page: an answer to the one in flight.
LEMMA Answered ==
  ASSUME TypeOK, NEW m \in requests, Observe(m)
  PROVE  /\ \A c \in Page :
              /\ page'[c].on = page[c].on /\ page'[c].text = page[c].text
              /\ page'[c].known = page[c].known /\ page'[c].local = page[c].local
              /\ page'[c].inflight = page[c].inflight /\ page'[c].timer = page[c].timer
              /\ page'[c].told = page[c].told /\ page'[c].loop = page[c].loop
              /\ page'[c].build = page[c].build
         /\ \A c \in Page : c # m.page => page'[c].reply = page[c].reply
         /\ page[m.page].inflight # m.local => page'[m.page].reply = page[m.page].reply
         /\ page[m.page].inflight = m.local =>
              /\ page'[m.page].reply.accepted = Accepts(m)
              /\ page'[m.page].reply.revision = session'.revision
              /\ page'[m.page].reply.build = build
<1> DEFINE r == [accepted |-> Accepts(m), revision |-> session'.revision, build |-> build,
                 undoes |-> ~(session.text \subseteq m.text)]
           q == IF page[m.page].inflight = m.local THEN r ELSE page[m.page].reply
<1>1. page' = [page EXCEPT ![m.page].reply = q]
  BY DEF Observe
<1>2. r.accepted = Accepts(m) /\ r.revision = session'.revision /\ r.build = build
  OBVIOUS
<1>3. /\ page[m.page].inflight # m.local => q = page[m.page].reply
      /\ page[m.page].inflight = m.local => q = r
  OBVIOUS
<1>4. m.page \in Page
  BY DEF TypeOK
<1> HIDE DEF r, q
<1>5. page'[m.page].reply = q
  BY <1>1, <1>4, Fields DEF TypeOK, PageType
<1>6. \A c \in Page : c # m.page => page'[c] = page[c]
  BY <1>1, <1>4 DEF TypeOK
<1>7. LET p == page[m.page] IN
      /\ page'[m.page].on = p.on /\ page'[m.page].text = p.text
      /\ page'[m.page].known = p.known /\ page'[m.page].local = p.local
      /\ page'[m.page].inflight = p.inflight /\ page'[m.page].timer = p.timer
      /\ page'[m.page].told = p.told /\ page'[m.page].loop = p.loop
      /\ page'[m.page].build = p.build
  BY <1>1, <1>4, Fields DEF TypeOK, PageType
<1> QED
  BY <1>2, <1>3, <1>5, <1>6, <1>7

\* A compile that is turned down changes nothing but its page's answer.
LEMMA KeptRejected ==
  ASSUME TypeOK, TypeOK', Kept, NEW m \in requests, Observe(m), ~Accepts(m)
  PROVE  Kept'
<1> DEFINE b == m.page
<1>1. /\ requests' = requests \ {m}
      /\ UNCHANGED <<session, build, disk, pulls, saves, base, edits>>
  BY DEF Observe
<1>2. \A c \in Page :
        /\ page'[c].on = page[c].on /\ page'[c].text = page[c].text
        /\ page'[c].known = page[c].known /\ page'[c].local = page[c].local
        /\ page'[c].inflight = page[c].inflight /\ page'[c].timer = page[c].timer
        /\ page'[c].told = page[c].told /\ page'[c].loop = page[c].loop
        /\ page'[c].build = page[c].build
  BY Answered
<1>3. \A c \in Page : \/ page'[c].reply = page[c].reply
                      \/ /\ c = b /\ page[c].inflight = m.local
                         /\ ~page'[c].reply.accepted /\ page'[c].reply.build = build
  BY Answered
<1>4. b \in Page /\ page[b].on /\ m.local \in 1 .. page[b].local /\ page[b].local \in Nat
  BY DEF TypeOK, PageType, Kept, ClosedPages, RequestsInOrder
<1>5. OneBuild'
  BY <1>1, <1>2, <1>3 DEF Kept, OneBuild
<1>6. ClosedPages'
  <2>1. \A c \in Page : ~page[c].on => page'[c].reply = page[c].reply
    BY <1>3, <1>4
  <2> QED
    BY <1>1, <1>2, <2>1 DEF Kept, ClosedPages
<1>7. TextsAreMade'
  BY <1>1, <1>2 DEF Kept, TextsAreMade, Made
<1>8. Revisions'
  BY <1>1, <1>2 DEF Kept, Revisions, Remembered
<1>9. RequestsInOrder'
  BY <1>1, <1>2 DEF Kept, RequestsInOrder, TypeOK
<1>10. RepliesInOrder'
  <2> SUFFICES ASSUME NEW c \in Page
               PROVE  LET q == page'[c].reply IN
                      /\ page'[c].inflight <= page'[c].local
                      /\ q # NoReply => page'[c].inflight # 0
                      /\ q # NoReply /\ q.accepted =>
                           /\ q.revision <= session.revision
                           /\ q.revision = session.revision <=> IsOf(c)
                           /\ IsOf(c) => session.local = page'[c].inflight
                           /\ \A n \in requests' : n.page = c => n.known < q.revision
    BY <1>1 DEF RepliesInOrder, IsOf
  <2>1. CASE page'[c].reply = page[c].reply
    BY <1>1, <1>2, <2>1 DEF Kept, RepliesInOrder
  <2>2. CASE c = b /\ page[c].inflight = m.local /\ ~page'[c].reply.accepted
    BY <1>2, <1>4, <2>2 DEF Kept, RepliesInOrder
  <2> QED
    BY <1>3, <2>1, <2>2
<1>11. PagesAgree' /\ RequestsAgree'
  BY <1>1, <1>2 DEF Kept, PagesAgree, RequestsAgree, Agrees, Others, IsOf
<1>12. PullsAgree'
  <2>1. \A n \in pulls : n.page \in Page
    BY DEF TypeOK
  <2> QED
    BY <1>1, <1>2, <2>1 DEF Kept, PullsAgree, Agrees, Others, IsOf
<1> QED
  BY <1>5, <1>6, <1>7, <1>8, <1>9, <1>10, <1>11, <1>12 DEF Kept

\* Whoever is accepted, and all that its page has or is still to get, agrees with
\* the session; and no older answer is on its way to the page.
LEMMA AcceptedAgrees ==
  ASSUME TypeOK, Kept, NEW m \in requests, Accepts(m)
  PROVE  /\ Agrees(m.page, m.text) /\ Agrees(m.page, page[m.page].text)
         /\ \A n \in requests : n.page = m.page /\ n.local > m.local => Agrees(m.page, n.text)
         /\ \A n \in pulls : /\ n.page = m.page /\ n.answer # NoSession
                             /\ n.answer.revision >= page[m.page].known
                             => Agrees(m.page, n.answer.text)
         /\ LET r == page[m.page].reply IN
            r # NoReply /\ r.accepted => page[m.page].inflight = m.local
<1> DEFINE b == m.page
           r == page[b].reply
<1>1. /\ b \in Page /\ m.known \in Nat /\ m.local \in Nat /\ session.revision \in Nat
      /\ session.local \in Nat /\ page[b].known \in Nat /\ page[b].inflight \in Nat
      /\ r.revision \in Nat
      /\ \A n \in requests : n.known \in Nat /\ n.local \in Nat
      /\ \A n \in pulls : n.answer.revision \in Nat
  BY DEF TypeOK, PageType, ASession, AReply
<1>2. \/ m.known = session.revision
      \/ IsOf(b) /\ m.local > session.local
  BY DEF Accepts, IsOf, NoSession
<1>3. r # NoReply /\ r.accepted =>
        /\ r.revision <= session.revision /\ page[b].inflight # 0
        /\ IsOf(b) => session.local = page[b].inflight
        /\ m.known < r.revision
  BY <1>1 DEF Kept, RepliesInOrder
<1>4. page[b].inflight # 0 => m.local <= page[b].inflight
  BY DEF Kept, RequestsInOrder
<1>5. ~(r # NoReply /\ r.accepted)
  BY <1>1, <1>2, <1>3, <1>4
<1>6. Agrees(b, m.text)
  BY <1>2 DEF Kept, RequestsAgree
<1>7. CASE m.known = session.revision
  <2>1. page[b].known = session.revision
    BY <1>7 DEF Kept, RequestsInOrder
  <2>2. Agrees(b, page[b].text)
    BY <1>1, <2>1 DEF Kept, PagesAgree
  <2>3. ASSUME NEW n \in requests, n.page = b, n.local > m.local
        PROVE  Agrees(b, n.text)
    <3>1. n.known = session.revision
      BY <1>1, <1>7, <2>3 DEF Kept, RequestsInOrder
    <3> QED
      BY <2>3, <3>1 DEF Kept, RequestsAgree
  <2>4. ASSUME NEW n \in pulls, n.page = b, n.answer # NoSession,
               n.answer.revision >= page[b].known
        PROVE  Agrees(b, n.answer.text)
    <3>1. n.answer = session
      BY <1>1, <2>1, <2>4 DEF Kept, Revisions, Remembered
    <3> QED
      BY <3>1 DEF Agrees
  <2> QED
    BY <1>5, <1>6, <2>2, <2>3, <2>4
<1>8. CASE IsOf(b) /\ m.local > session.local
  <2>1. Agrees(b, page[b].text)
    BY <1>1, <1>8 DEF Kept, PagesAgree
  <2>2. ASSUME NEW n \in requests, n.page = b, n.local > m.local
        PROVE  Agrees(b, n.text)
    <3>1. n.local > session.local
      BY <1>1, <1>8, <2>2
    <3> QED
      BY <1>8, <2>2, <3>1 DEF Kept, RequestsAgree
  <2>3. ASSUME NEW n \in pulls, n.page = b, n.answer # NoSession,
               n.answer.revision >= page[b].known
        PROVE  Agrees(b, n.answer.text)
    BY <1>8, <2>3 DEF Kept, PullsAgree
  <2> QED
    BY <1>5, <1>6, <2>1, <2>2, <2>3
<1> QED
  BY <1>2, <1>7, <1>8

\* A compile that is accepted makes a revision that nobody knows.
LEMMA KeptAccepted ==
  ASSUME TypeOK, TypeOK', Kept, NEW m \in requests, Observe(m), Accepts(m)
  PROVE  Kept'
<1> DEFINE b == m.page
<1>1. /\ requests' = requests \ {m} /\ UNCHANGED <<build, disk, pulls, saves, base, edits>>
      /\ session'.revision = session.revision + 1 /\ session'.text = m.text
      /\ session'.local = m.local /\ session'.client = b /\ ~session'.agentWritten
  BY DEF Observe
<1>2. \A c \in Page :
        /\ page'[c].on = page[c].on /\ page'[c].text = page[c].text
        /\ page'[c].known = page[c].known /\ page'[c].local = page[c].local
        /\ page'[c].inflight = page[c].inflight /\ page'[c].timer = page[c].timer
        /\ page'[c].told = page[c].told /\ page'[c].loop = page[c].loop
        /\ page'[c].build = page[c].build
  BY Answered
<1>3. /\ \A c \in Page : c # b => page'[c].reply = page[c].reply
      /\ page[b].inflight # m.local => page'[b].reply = page[b].reply
      /\ page[b].inflight = m.local => /\ page'[b].reply.revision = session'.revision
                                       /\ page'[b].reply.build = build
  BY Answered
<1>4. /\ b \in Page /\ session.revision \in Nat
      /\ m.local \in 1 .. page[b].local /\ page[b].local \in Nat
      /\ \A c \in Page : page[c].known \in Nat /\ page[c].known <= session.revision
      /\ \A n \in requests : /\ n.page \in Page /\ n.known \in Nat /\ n.local \in Nat
                             /\ n.known <= session.revision
      /\ \A n \in pulls : n.page \in Page
  BY DEF TypeOK, PageType, ASession, Kept, RequestsInOrder, Revisions
<1>5. page[b].on
  BY <1>4 DEF Kept, ClosedPages
<1>6. /\ \A c \in Page : page'[c].known # session'.revision
      /\ \A n \in requests : n.known # session'.revision
      /\ session'.revision # 0
  BY <1>1, <1>2, <1>4
<1>7. \A c \in Page : session'.client = c /\ ~session'.agentWritten <=> c = b
  BY <1>1
<1>8. OneBuild'
  <2>1. \A c \in Page : page'[c].reply # NoReply => page'[c].reply.build = 1
    BY <1>3 DEF Kept, OneBuild
  <2> QED
    BY <1>1, <1>2, <2>1 DEF Kept, OneBuild
<1>9. ClosedPages'
  <2> SUFFICES ASSUME NEW c \in Page, c # b, ~page[c].on
               PROVE  /\ ~page'[c].timer /\ page'[c].reply = NoReply /\ page'[c].loop = "poll"
                      /\ \A n \in requests' \cup pulls' : n.page # c
                      /\ session'.client # c
    BY <1>2, <1>5 DEF ClosedPages
  <2> QED
    BY <1>1, <1>2, <1>3 DEF Kept, ClosedPages
<1>10. TextsAreMade'
  BY <1>1, <1>2 DEF Kept, TextsAreMade, Made
<1>11. Revisions'
  <2>1. \A s \in ASession : Remembered(s) => s.revision <= session'.revision
                                             /\ s.revision # session'.revision
    BY <1>1, <1>4 DEF ASession, Remembered
  <2>2. \A n \in pulls : n.answer # NoSession => /\ n.answer.revision <= session'.revision
                                                 /\ n.answer.revision # session'.revision
    BY <2>1 DEF Kept, Revisions, TypeOK
  <2>3. \A a \in Agent : base[a] # NoSession => /\ base[a].revision <= session'.revision
                                                /\ base[a].revision # session'.revision
    BY <2>1 DEF Kept, Revisions, TypeOK
  <2>4. \A c \in Page : page'[c].known <= session'.revision
    BY <1>1, <1>2, <1>4
  <2>5. \A n \in requests : n.known <= session'.revision
    BY <1>1, <1>4
  <2> QED
    BY <1>1, <1>6, <2>2, <2>3, <2>4, <2>5 DEF Revisions, Remembered
<1>12. RequestsInOrder'
  <2>1. \A n \in requests : /\ n.local \in 1 .. page'[n.page].local
                            /\ page'[n.page].inflight # 0 => n.local <= page'[n.page].inflight
    BY <1>2, <1>4 DEF Kept, RequestsInOrder
  <2> QED
    BY <1>1, <1>6, <2>1 DEF RequestsInOrder
<1>13. RepliesInOrder'
  <2> SUFFICES ASSUME NEW c \in Page
               PROVE  LET q == page'[c].reply IN
                      /\ page'[c].inflight <= page'[c].local
                      /\ q # NoReply => page'[c].inflight # 0
                      /\ q # NoReply /\ q.accepted =>
                           /\ q.revision <= session'.revision
                           /\ q.revision = session'.revision <=> c = b
                           /\ c = b => session'.local = page'[c].inflight
                           /\ \A n \in requests' : n.page = c => n.known < q.revision
    BY <1>7 DEF RepliesInOrder, IsOf
  <2>1. CASE c # b
    <3>1. page'[c].reply = page[c].reply /\ page[c].reply.revision \in Nat
      BY <1>3, <2>1 DEF TypeOK, PageType, AReply
    <3>2. page[c].reply # NoReply /\ page[c].reply.accepted
            => /\ page[c].reply.revision <= session.revision
               /\ \A n \in requests : n.page = c => n.known < page[c].reply.revision
      BY DEF Kept, RepliesInOrder
    <3>3. /\ page[c].inflight <= page[c].local
          /\ page[c].reply # NoReply => page[c].inflight # 0
      BY DEF Kept, RepliesInOrder
    <3> QED
      BY <1>1, <1>2, <1>4, <2>1, <3>1, <3>2, <3>3
  <2>2. CASE c = b /\ page[b].inflight # m.local
    <3>1. page'[b].reply = page[b].reply
          /\ ~(page[b].reply # NoReply /\ page[b].reply.accepted)
      BY <1>3, <2>2, AcceptedAgrees
    <3>2. /\ page[b].inflight <= page[b].local
          /\ page[b].reply # NoReply => page[b].inflight # 0
      BY <1>4 DEF Kept, RepliesInOrder
    <3> QED
      BY <1>2, <2>2, <3>1, <3>2
  <2>3. CASE c = b /\ page[b].inflight = m.local
    <3>1. page'[b].inflight = m.local /\ page'[b].reply.revision = session'.revision
          /\ page'[b].inflight <= page'[b].local /\ m.local # 0
      BY <1>2, <1>3, <1>4, <2>3
    <3>2. \A n \in requests' : n.known < session'.revision
      BY <1>1, <1>4
    <3> QED
      BY <1>1, <1>4, <2>3, <3>1, <3>2
  <2> QED
    BY <2>1, <2>2, <2>3
<1>14. PagesAgree'
  <2>1. Others(b, page[b].text) = Others(b, m.text)
    BY AcceptedAgrees DEF Agrees
  <2> QED
    BY <1>1, <1>2, <1>6, <1>7, <2>1 DEF PagesAgree, Agrees, Others, IsOf
<1>15. RequestsAgree'
  <2> SUFFICES ASSUME NEW n \in requests, n.page = b, n.local > m.local
               PROVE  Others(b, n.text) = Others(b, m.text)
    BY <1>1, <1>6, <1>7 DEF RequestsAgree, Agrees, Others, IsOf
  <2> QED
    BY AcceptedAgrees DEF Agrees
<1>16. PullsAgree'
  <2> SUFFICES ASSUME NEW n \in pulls, n.page = b, n.answer # NoSession,
                      n.answer.revision >= page[b].known
               PROVE  Others(b, n.answer.text) = Others(b, m.text)
    BY <1>1, <1>2, <1>4, <1>7 DEF PullsAgree, Agrees, Others, IsOf
  <2> QED
    BY AcceptedAgrees DEF Agrees
<1> QED
  BY <1>8, <1>9, <1>10, <1>11, <1>12, <1>13, <1>14, <1>15, <1>16 DEF Kept

\* An agent's edit is of the session, not of what the agent once read.
LEMMA Edited ==
  ASSUME TypeOK, Kept, NEW a \in Agent, Edit(a), session.revision # 0
  PROVE  /\ base[a] = session /\ session'.revision = session.revision + 1
         /\ session'.text = session.text \cup {NewEdit(a)} /\ session'.agentWritten
         /\ session'.client = session.client
<1>1. session \in ASession /\ session.revision # 0 /\ NoSession.revision = 0
  BY DEF TypeOK, NoSession
<1>2. base[a].revision = session.revision
  BY DEF Edit
<1>3. base[a] = session
  BY <1>1, <1>2 DEF Kept, Revisions, Remembered
<1>4. session' = [session EXCEPT !.revision = @ + 1, !.local = @ + 1, !.agentWritten = TRUE,
                                 !.text = base[a].text \cup {NewEdit(a)}]
  BY DEF Edit
<1> QED
  BY <1>1, <1>3, <1>4 DEF ASession

LEMMA KeptEdit ==
  ASSUME TypeOK, TypeOK', Kept, NEW a \in Agent, Edit(a)
  PROVE  Kept'
<1> DEFINE Later(text) == \A x \in text : x.n \in 1 .. edits'[x.by]
<1>1. /\ UNCHANGED <<build, page, requests, pulls, saves>>
      /\ edits' = [edits EXCEPT ![a] = @ + 1] /\ session # NoSession
      /\ base' = [base EXCEPT ![a] = session'] /\ disk' = session'.text
  BY DEF Edit, network
<1>2. session.revision # 0 /\ session.revision \in Nat
  BY <1>1 DEF Kept, Revisions, TypeOK, ASession
<1>3. /\ session'.revision = session.revision + 1 /\ session'.agentWritten
      /\ session'.text = session.text \cup {NewEdit(a)} /\ session'.client = session.client
  BY <1>2, Edited
<1>4. \A text \in SUBSET AnEdit : Made(text) => Later(text) /\ Later(text \cup {NewEdit(a)})
  BY <1>1, StillMade
<1> HIDE DEF Later
<1>5. /\ \A c \in Page : page[c].known \in Nat /\ page[c].known <= session.revision
      /\ \A n \in requests : /\ n.page \in Page /\ n.known \in Nat /\ n.local \in Nat
                             /\ n.known <= session.revision
      /\ \A n \in pulls : n.page \in Page
  BY DEF TypeOK, PageType, ASession, Kept, Revisions
<1>6. \A c \in Agent : base'[c] = base[c] \/ base'[c] = session'
  BY <1>1 DEF TypeOK
<1>7. OneBuild'
  BY <1>1 DEF Kept, OneBuild
<1>8. ClosedPages'
  BY <1>1, <1>3 DEF Kept, ClosedPages
<1>9. TextsAreMade'
  <2>1. Later(session'.text)
    BY <1>3, <1>4 DEF Kept, TextsAreMade, TypeOK, ASession
  <2>2. \A c \in Page : Later(page[c].text)
    BY <1>4 DEF Kept, TextsAreMade, TypeOK, PageType
  <2>3. (\A m \in requests : Later(m.text)) /\ (\A m \in pulls : Later(m.answer.text))
    BY <1>4 DEF Kept, TextsAreMade, TypeOK, ASession
  <2>4. \A text \in saves : Later(text)
    BY <1>4 DEF Kept, TextsAreMade, TypeOK
  <2>5. \A c \in Agent : Later(base[c].text)
    BY <1>4 DEF Kept, TextsAreMade, TypeOK, ASession
  <2>6. \A c \in Agent : Later(base'[c].text)
    BY <1>6, <2>1, <2>5
  <2> QED
    BY <1>1, <2>1, <2>2, <2>3, <2>4, <2>6 DEF TextsAreMade, Made, Later
<1>10. Revisions'
  <2>1. \A s \in ASession : Remembered(s) => s.revision <= session'.revision
                                             /\ s.revision # session'.revision
    BY <1>2, <1>3 DEF ASession, Remembered
  <2>2. \A n \in pulls : n.answer # NoSession => /\ n.answer.revision <= session'.revision
                                                 /\ n.answer.revision # session'.revision
    BY <2>1 DEF Kept, Revisions, TypeOK
  <2>3. \A c \in Agent : base[c] # NoSession => /\ base[c].revision <= session'.revision
                                                /\ base[c].revision # session'.revision
    BY <2>1 DEF Kept, Revisions, TypeOK
  <2>4. \A c \in Agent : base'[c] # NoSession =>
          /\ base'[c].revision <= session'.revision
          /\ base'[c].revision = session'.revision => base'[c] = session'
    BY <1>2, <1>3, <1>6, <2>3
  <2>5. /\ \A c \in Page : page[c].known <= session'.revision
        /\ \A n \in requests : n.known <= session'.revision
        /\ session'.revision # 0
    BY <1>2, <1>3, <1>5
  <2> QED
    BY <1>1, <2>2, <2>4, <2>5 DEF Revisions, Remembered
<1>11. /\ \A c \in Page : page[c].known # session'.revision
       /\ \A n \in requests : n.known # session'.revision
  BY <1>2, <1>3, <1>5
<1>12. RequestsInOrder'
  BY <1>1, <1>11 DEF Kept, RequestsInOrder
<1>13. RepliesInOrder'
  <2> SUFFICES ASSUME NEW c \in Page
               PROVE  LET q == page[c].reply IN
                      /\ page[c].inflight <= page[c].local
                      /\ q # NoReply => page[c].inflight # 0
                      /\ q # NoReply /\ q.accepted =>
                           /\ q.revision <= session'.revision
                           /\ q.revision # session'.revision
                           /\ \A n \in requests : n.page = c => n.known < q.revision
    BY <1>1, <1>3 DEF RepliesInOrder, IsOf
  <2>1. page[c].reply.revision \in Nat
    BY DEF TypeOK, PageType, AReply
  <2> QED
    BY <1>2, <1>3, <2>1 DEF Kept, RepliesInOrder
<1>14. PagesAgree' /\ RequestsAgree' /\ PullsAgree'
  BY <1>1, <1>3, <1>11 DEF PagesAgree, RequestsAgree, PullsAgree, IsOf
<1> QED
  BY <1>7, <1>8, <1>9, <1>10, <1>12, <1>13, <1>14 DEF Kept

-----------------------------------------------------------------------------
(* The theorem.                                                            *)

LEMMA KeptStep == SessionInv /\ [Next]_vars => SessionInv'
<1> SUFFICES ASSUME SessionInv, [Next]_vars, Undisturbed' PROVE Kept'
  BY TypeStep DEF SessionInv
<1>1. TypeOK /\ TypeOK'
  BY TypeStep DEF SessionInv
<1>2. CASE UNCHANGED vars
  <2>1. Kept
    BY <1>2 DEF SessionInv, Undisturbed, vars, state
  <2> QED
    BY <1>2, <2>1 DEF vars, state, Kept, OneBuild, ClosedPages, TextsAreMade, Made, Revisions,
       Remembered, RequestsInOrder, RepliesInOrder, IsOf, PagesAgree, RequestsAgree, PullsAgree,
       Agrees, Others
<1>3. CASE Next
  <2>1. plan' = plan
    BY <1>3 DEF Next
  <2>2. ~Restart
    <3>1. restarts \in Nat
      BY <1>1 DEF TypeOK
    <3>2. Restart => restarts' = restarts + 1
      BY DEF Restart
    <3>3. restarts' = 0
      BY DEF Undisturbed
    <3> QED
      BY <3>1, <3>2, <3>3
  <2>3. restarts' = restarts
    BY <1>3, <2>2 DEF Next, Going, Serving, Open, Type, CompileNow, SaveNow, Receive, Poll, Event,
       Rejoin, Rejoined, Observe, Shared, Sync, Write, Read, Edit, server
  <2>4. Kept /\ ~plan.late
    BY <2>1, <2>3 DEF SessionInv, Undisturbed
  <2>5. ASSUME NEW b \in Page, Open(b) \/ Type(b) \/ Going(b)
        PROVE  Kept'
    BY <1>1, <2>4, <2>5, KeptOpen, KeptType, KeptCompileNow, KeptSaveNow, KeptReceive, KeptPoll,
       KeptEvent, KeptRejoin DEF Going
  <2>6. ASSUME NEW a \in Agent, Read(a) \/ Edit(a)
        PROVE  Kept'
    BY <1>1, <2>4, <2>6, KeptServed, KeptEdit
  <2>7. CASE Serving
    BY <1>1, <2>4, <2>7, KeptRejected, KeptAccepted, KeptServed, KeptSync DEF Serving
  <2> QED
    BY <1>3, <2>2, <2>5, <2>6, <2>7 DEF Next
<1> QED
  BY <1>2, <1>3

LEMMA Invariance == Spec => []SessionInv
<1>1. Init => SessionInv
  BY TypeInit, Initially DEF SessionInv, Undisturbed, Init
<1> QED
  BY <1>1, KeptStep, PTL DEF Spec

\* Nothing of the session that somebody else wrote is dropped: by a step that keeps
\* the session, by an agent's edit, which is of the session, and by a compile that is
\* accepted, which agrees with it.
LEMMA StepKeeps ==
  ASSUME SessionInv, Next, restarts = 0, ~plan.late, session # NoSession, session' # NoSession,
         NEW e \in session.text \ session'.text
  PROVE  ~session'.agentWritten /\ e.by = session'.client
<1>1. TypeOK /\ Kept
  BY DEF SessionInv, Undisturbed
<1>2. session' # session
  OBVIOUS
<1>3. CASE \E a \in Agent : Edit(a)
  <2>1. session.revision # 0
    BY <1>1 DEF Kept, Revisions
  <2> QED
    BY <1>1, <1>3, <2>1, Edited
<1>4. ASSUME NEW m \in requests, Observe(m)
      PROVE  ~session'.agentWritten /\ e.by = session'.client
  <2>1. Accepts(m)
    BY <1>2, <1>4 DEF Observe
  <2>2. session'.text = m.text /\ session'.client = m.page /\ ~session'.agentWritten
    BY <1>4, <2>1 DEF Observe
  <2>3. Agrees(m.page, m.text)
    BY <1>1, <2>1, AcceptedAgrees
  <2> QED
    BY <2>2, <2>3 DEF Agrees, Others
<1>5. ~Restart
  BY DEF Restart
<1> QED
  BY <1>2, <1>3, <1>4, <1>5 DEF Next, Going, Serving, Open, Type, CompileNow, SaveNow, Receive, Poll,
     Event, Rejoin, Rejoined, Shared, Sync, Write, Read, server

\* "stale browser compiles cannot undo them": for any number of pages, agents, edits and
\* compiles on their way, whoever replaces the shared text drops no edit of anyone
\* else, as long as the server runs and of pages that were open before the first edit
\* (Store::observe and edit_session, debug/src/session.rs).
THEOREM OthersKept == Spec => OthersAreKept
<1>1. SessionInv /\ [Next]_vars =>
        [restarts = 0 /\ ~plan.late /\ session # NoSession /\ session' # NoSession =>
           \A e \in session.text \ session'.text :
             ~session'.agentWritten /\ e.by = session'.client]_vars
  BY StepKeeps
<1> QED
  BY <1>1, Invariance, PTL DEF Spec, OthersAreKept
=============================================================================
