---------------------------- MODULE DebugSession ----------------------------
(***************************************************************************)
(* The session browsers and agents share in the debugger: the server's     *)
(* store (debug/src/session.rs) and handlers (debug/src/server.rs), and    *)
(* the pages' compile, poll and save loops (debug/web/app.js).             *)
(*                                                                         *)
(* A text is the set of the edits it has incorporated, so that one text is *)
(* stale with respect to another exactly if it lacks an edit of it.  Each  *)
(* page has one document with one file open.                               *)
(***************************************************************************)
EXTENDS Integers, FiniteSets, Sequences, FiniteSetsExt

CONSTANTS
  Page,        \* browser tabs, each with its CLIENT_ID
  Agent,       \* clients that read /session and write it back
  Keep,        \* KEEP
  Plan         \* what may happen in a behaviour: the "pages" that are opened, and
               \* bounds on the edits "typed" in each and "written" by each agent,
               \* on the "saves" under way and on the "restarts" of the server; if
               \* a page may be opened "late", when others have edited; and if the
               \* server is "supervised", or else always is build 1

ASSUME PagesAreNotAgents == Page \cap Agent = {}
ASSUME KeepIsPositive == Keep \in Nat \ {0}
ASSUME PlansAreBounded ==
  \A x \in Plan :
    /\ x.pages \subseteq Page /\ {x.late, x.supervised} \subseteq BOOLEAN
    /\ {x.typed, x.written, x.saves, x.restarts} \subseteq Nat

VARIABLES
  plan,     \* one of Plan
  \* The server.
  session,  \* Store::current
  log,      \* revisions of the session-changed events sent; seq is its length
  build, restarts,
  disk,     \* the document
  \* The pages.
  page,
  \* The network.
  requests, \* compile requests not yet handled
  pulls,    \* syncSharedSession: requests and responses of GET /session
  saves,    \* texts of PUT /docs not yet handled
  \* The agents.
  base,     \* the session each has read
  edits     \* how many edits each page and agent has made

state == <<session, log, build, restarts, disk, page, requests, pulls, saves, base, edits>>
vars == <<plan, state>>
server == <<session, log, build, restarts, disk>>
network == <<requests, pulls, saves>>

NoSession == [revision |-> 0, text |-> {}, local |-> 0, client |-> "nobody", agentWritten |-> FALSE]
\* undoes: the compile would have undone an edit; no code computes it.
NoReply == [accepted |-> TRUE, revision |-> 0, build |-> 0, undoes |-> FALSE]
Never == -1

Closed ==
  [on |-> FALSE, text |-> {}, known |-> 0, local |-> 0, build |-> 0,
   timer |-> FALSE, unsaved |-> FALSE,             \* compileTimer, saveTimer
   inflight |-> 0, reply |-> NoReply,              \* the compile in flight, by its local revision
   since |-> 0, inbox |-> << >>, told |-> 0,   \* seq, update.events, update.build
   loop |-> "poll", awaited |-> 0]                 \* where connect() is

Init ==
  /\ plan \in Plan
  /\ session = NoSession /\ log = << >> /\ build = 1 /\ restarts = 0 /\ disk = {}
  /\ page = [b \in Page |-> Closed]
  /\ requests = {} /\ pulls = {} /\ saves = {}
  /\ base = [a \in Agent |-> NoSession]
  /\ edits = [x \in Page \cup Agent |-> 0]

NewEdit(x) == [by |-> x, n |-> edits[x] + 1]

-----------------------------------------------------------------------------
(* The page's compile loop *)

\* compileNow, of a page in state s: the request in flight is aborted, though the
\* server may still handle it.
Compiling(s) ==
  [s EXCEPT !.local = @ + 1, !.inflight = s.local + 1, !.reply = NoReply, !.timer = FALSE]
Sent(b, s) ==
  [page |-> b, known |-> s.known, local |-> s.local + 1, text |-> s.text]

\* Top level of app.js: the revision is the session's, the text the disk's.  What
\* was read of the session is taken over when the first compile is through.  The
\* first poll is sent before anything else and taken to be answered first; it
\* learns the sequence and the build, and no events.
Open(b) ==
  /\ b \in plan.pages /\ ~page[b].on
  /\ plan.late \/ \A x \in Page \cup Agent : edits[x] = 0
  /\ LET s == [page[b] EXCEPT !.on = TRUE, !.text = disk, !.known = session.revision,
                               !.since = Len(log), !.told = build, !.loop = "first"] IN
       /\ page' = [page EXCEPT ![b] = Compiling(s)]
       /\ requests' = requests \cup {Sent(b, s)}
  /\ pulls' = pulls \cup {[page |-> b, cause |-> Never, answer |-> session, done |-> TRUE]}
  /\ UNCHANGED <<server, saves, base, edits>>

Type(b) ==
  /\ page[b].on /\ edits[b] < plan.typed
  /\ page' = [page EXCEPT ![b].text = @ \cup {NewEdit(b)}, ![b].timer = TRUE,
                          ![b].unsaved = TRUE]
  /\ edits' = [edits EXCEPT ![b] = @ + 1]
  /\ UNCHANGED <<server, network, base>>

CompileNow(b) ==
  /\ page[b].timer
  /\ page' = [page EXCEPT ![b] = Compiling(@)]
  /\ requests' = requests \cup {Sent(b, page[b])}
  /\ UNCHANGED <<server, pulls, saves, base, edits>>

SaveNow(b) ==
  /\ page[b].unsaved /\ Cardinality(saves) < plan.saves
  /\ page' = [page EXCEPT ![b].unsaved = FALSE]
  /\ saves' = saves \cup {page[b].text}
  /\ UNCHANGED <<server, requests, pulls, base, edits>>

\* The response of the compile in flight.  A rejected one pulls the winner.  The
\* build is that of the snapshot shown, and one older than the page is not shown.
Receive(b) ==
  LET r == page[b].reply IN
  /\ r # NoReply
  /\ page' = [page EXCEPT ![b].inflight = 0, ![b].reply = NoReply,
                ![b].known = IF r.accepted THEN r.revision ELSE @,
                ![b].build = IF r.accepted /\ page[b].inflight = page[b].local
                             THEN r.build ELSE @]
  /\ pulls' = IF r.accepted THEN pulls
              ELSE pulls \cup {[page |-> b, cause |-> page[b].inflight, answer |-> NoSession,
                                done |-> FALSE]}
  /\ UNCHANGED <<server, requests, saves, base, edits>>

-----------------------------------------------------------------------------
(* The server's handlers *)

\* Mutant: only agents are protected.
AcceptsAnyBrowser(m) ==
  \/ session = NoSession /\ m.known = 0
  \/ session # NoSession /\ (session.revision = m.known \/ ~session.agentWritten)

\* Store::observe.  A page's later compile may supersede its own earlier one.
Accepts(m) ==
  \/ session = NoSession /\ m.known = 0
  \/ /\ session # NoSession
     /\ \/ session.revision = m.known
        \/ ~session.agentWritten /\ session.client = m.page /\ m.local > session.local

\* POST /compile; the response is for nobody if the page has aborted it.
Observe(m) ==
  /\ requests' = requests \ {m}
  /\ session' = IF Accepts(m)
                THEN [revision |-> session.revision + 1, text |-> m.text, local |-> m.local,
                      client |-> m.page, agentWritten |-> FALSE]
                ELSE session
  /\ page' = [page EXCEPT ![m.page].reply =
       IF page[m.page].inflight = m.local
       THEN [accepted |-> Accepts(m), revision |-> session'.revision, build |-> build,
             undoes |-> ~(session.text \subseteq m.text)]
       ELSE @]
  /\ UNCHANGED <<log, build, restarts, disk, pulls, saves, base, edits>>

\* GET /session of a page.
Shared(m) ==
  /\ ~m.done
  /\ pulls' = (pulls \ {m}) \cup {[m EXCEPT !.answer = session, !.done = TRUE]}
  /\ UNCHANGED <<server, page, requests, saves, base, edits>>

\* PUT /docs.
Write(text) ==
  /\ saves' = saves \ {text}
  /\ disk' = text
  /\ UNCHANGED <<session, log, build, restarts, page, requests, pulls, base, edits>>

\* GET /session of an agent.
Read(a) ==
  /\ session # NoSession /\ base[a] # session
  /\ base' = [base EXCEPT ![a] = session]
  /\ UNCHANGED <<server, page, network, edits>>

\* PUT /session: edit_session checks, writes the document and tells the pages.
Edit(a) ==
  /\ session # NoSession /\ base[a].revision = session.revision
  /\ edits[a] < plan.written
  /\ session' = [session EXCEPT !.revision = @ + 1, !.local = @ + 1, !.agentWritten = TRUE,
                                !.text = base[a].text \cup {NewEdit(a)}]
  /\ disk' = session'.text
  /\ log' = Append(log, session'.revision)
  /\ base' = [base EXCEPT ![a] = session']
  /\ edits' = [edits EXCEPT ![a] = @ + 1]
  /\ UNCHANGED <<build, restarts, page, network>>

-----------------------------------------------------------------------------
(* Pulling, and the page's poll loop *)

\* A pull the page waits for: 0 stands for the poll loop, r for its compile r.
Pulling(b, r) == \E m \in pulls : m.page = b /\ m.cause = r
\* Compile r of the page, and the pull it may have led to, are through.
Settled(b, r) == page[b].inflight # r /\ ~Pulling(b, r)

\* syncSharedSession.
Sync(m) ==
  LET b == m.page IN
  /\ m.done /\ (m.cause = Never => Settled(b, 1))
  /\ pulls' = pulls \ {m}
  /\ page' = IF m.answer = NoSession \/ m.answer.revision < page[b].known THEN page
             ELSE [page EXCEPT ![b].known = m.answer.revision, ![b].text = m.answer.text,
                     ![b].local = IF @ < m.answer.local THEN m.answer.local ELSE @,
                     ![b].build = build]
  /\ UNCHANGED <<server, requests, saves, base, edits>>

\* GET /events returns at once if there is news, and otherwise after a while.
Poll(b) ==
  LET after == Max({page[b].since, Len(log) - Keep}) IN
  /\ page[b].on /\ page[b].loop = "poll"
  /\ page[b].since # Len(log) \/ page[b].build # build
  /\ page' = [page EXCEPT ![b].since = Len(log), ![b].told = build, ![b].loop = "events",
                           ![b].inbox = SubSeq(log, after + 1, Len(log))]
  /\ UNCHANGED <<server, network, base, edits>>

\* Mutant: events are taken for news of the page's own doing.
EventIgnored(b) ==
  /\ page[b].loop = "events" /\ page[b].inbox # << >>
  /\ page' = [page EXCEPT ![b].inbox = Tail(@)]
  /\ UNCHANGED <<server, network, base, edits>>

\* A session-changed event; the loop waits for the pull.
Event(b) ==
  /\ page[b].loop = "events" /\ page[b].inbox # << >> /\ ~Pulling(b, 0)
  /\ page' = [page EXCEPT ![b].inbox = Tail(@)]
  /\ pulls' = IF Head(page[b].inbox) > page[b].known
              THEN pulls \cup {[page |-> b, cause |-> 0, answer |-> NoSession, done |-> FALSE]}
              ELSE pulls
  /\ UNCHANGED <<server, requests, saves, base, edits>>

\* Mutant: a page does not start again from zero.
RejoinAsItWas(b) ==
  LET s == [page[b] EXCEPT !.build = page[b].told, !.loop = "poll"] IN
  /\ page[b].loop \in {"first", "events"} /\ page[b].inbox = << >> /\ ~Pulling(b, 0)
  /\ IF page[b].loop = "events" /\ page[b].told # page[b].build
     THEN /\ page' = [page EXCEPT ![b] = Compiling([s EXCEPT !.loop = "rejoin",
                                                             !.awaited = s.local + 1])]
          /\ requests' = requests \cup {Sent(b, s)}
     ELSE page' = [page EXCEPT ![b] = s] /\ UNCHANGED requests
  /\ UNCHANGED <<server, pulls, saves, base, edits>>

\* The end of a round: another build means another server, which is joined anew.
Rejoin(b) ==
  LET s == [page[b] EXCEPT !.known = 0, !.loop = "rejoin", !.awaited = page[b].local + 1] IN
  /\ page[b].loop \in {"first", "events"} /\ page[b].inbox = << >> /\ ~Pulling(b, 0)
  /\ IF page[b].loop = "events" /\ page[b].told # page[b].build
     THEN page' = [page EXCEPT ![b] = Compiling(s)] /\ requests' = requests \cup {Sent(b, s)}
     ELSE /\ page' = [page EXCEPT ![b].build = page[b].told, ![b].loop = "poll"]
          /\ UNCHANGED requests
  /\ UNCHANGED <<server, pulls, saves, base, edits>>

Rejoined(b) ==
  /\ page[b].loop = "rejoin" /\ Settled(b, page[b].awaited)
  /\ page' = [page EXCEPT ![b].build = page[b].told, ![b].loop = "poll", ![b].awaited = 0]
  /\ UNCHANGED <<server, network, base, edits>>

\* watch_sources ends the process; the supervisor builds and starts another.
\* What was under way is lost, and what pages awaited fails.
Restart ==
  /\ restarts < plan.restarts
  /\ restarts' = restarts + 1
  /\ build' = IF plan.supervised THEN build + 1 ELSE build
  /\ session' = NoSession /\ log' = << >>
  /\ page' = [b \in Page |-> [page[b] EXCEPT !.inflight = 0, !.reply = NoReply]]
  /\ requests' = {} /\ pulls' = {} /\ saves' = {}
  /\ UNCHANGED <<disk, base, edits>>

Going(b) ==
  \/ CompileNow(b) \/ SaveNow(b) \/ Receive(b)
  \/ Poll(b) \/ Event(b) \/ Rejoin(b) \/ Rejoined(b)
Serving ==
  \/ \E m \in requests : Observe(m)
  \/ \E m \in pulls : Shared(m) \/ Sync(m)
  \/ \E text \in saves : Write(text)

Next ==
  /\ \/ \E b \in Page : Open(b) \/ Type(b) \/ Going(b)
     \/ \E a \in Agent : Read(a) \/ Edit(a)
     \/ Serving \/ Restart
  /\ UNCHANGED plan

\* Timers fire, polls end and what is sent is handled.
Spec == Init /\ [][Next]_vars
FairSpec == Spec /\ (\A b \in Page : WF_state(Going(b))) /\ WF_state(Serving)

-----------------------------------------------------------------------------
(* Properties *)

\* "stale browser compiles cannot undo them" (tests/src/session.rs:17): whoever
\* replaces the shared text drops no edit of anyone else.  It may once the server has
\* been restarted, when pages start again from zero, and when a page is opened late.
OthersAreKept ==
  [][restarts = 0 /\ ~plan.late /\ session # NoSession /\ session' # NoSession =>
       \A e \in session.text \ session'.text :
         ~session'.agentWritten /\ e.by = session'.client]_vars

\* A compile is rejected "instead of letting an in-flight compile undo a human or
\* agent edit" (debug/web/app.js:474), and not when it would undo none.
RejectionsSaveEdits ==
  \A b \in Page : page[b].reply.accepted \/ page[b].reply.undoes

\* An agent's edit reaches every open page that looks on, and stays there, through as
\* many missed events as KEEP lets go.  (The late answer to a compile of its own can
\* make a page take an older session over again.)
AgentEditsArrive ==
  \A a \in Agent, n \in 1..3, b \in Page :
    plan.typed = 0 /\ [by |-> a, n |-> n] \in session.text /\ page[b].on
      ~> [by |-> a, n |-> n] \in page[b].text \/ session = NoSession

\* What is typed in the only page is shared in the end, or gives way to what is, although the server
\* restarts: "a restart is noticed by the first poll that gets through afterwards:
\* the same snippet is re-run" (debug/web/app.js:494).
TypingIsShared ==
  \A b \in Page : page[b].timer /\ plan.pages = {b}
                 ~> session # NoSession /\ page[b].text = session.text
=============================================================================
