-------------------------- MODULE DebugSessionInv --------------------------
(***************************************************************************)
(* Why no compile of a page and no edit of an agent drops what somebody    *)
(* else has written: whoever the server would accept has, of the others'   *)
(* edits, exactly those of the session.  It is an invariant of the first   *)
(* server and of pages that were open when it began.                       *)
(***************************************************************************)
EXTENDS DebugSession

AnEdit == [by : Page \cup Agent, n : Nat]
ASession == [revision : Nat, text : SUBSET AnEdit, local : Nat,
             client : Page \cup {"nobody"}, agentWritten : BOOLEAN]
AReply == [accepted : BOOLEAN, revision : Nat, build : Nat, undoes : BOOLEAN]

PageType(s) ==
  /\ DOMAIN s = DOMAIN Closed
  /\ s.on \in BOOLEAN /\ s.timer \in BOOLEAN /\ s.text \subseteq AnEdit
  /\ s.known \in Nat /\ s.local \in Nat /\ s.inflight \in Nat
  /\ s.build \in Nat /\ s.told \in Nat
  /\ s.reply \in AReply

TypeOK ==
  /\ plan \in Plan /\ session \in ASession /\ disk \subseteq AnEdit
  /\ build \in Nat /\ restarts \in Nat
  /\ page = [b \in Page |-> page[b]] /\ \A b \in Page : PageType(page[b])
  /\ requests \subseteq [page : Page, known : Nat, local : Nat, text : SUBSET AnEdit]
  /\ pulls \subseteq [page : Page, cause : Int, answer : ASession, done : BOOLEAN]
  /\ saves \subseteq SUBSET AnEdit
  /\ base \in [Agent -> ASession] /\ edits \in [Page \cup Agent -> Nat]

\* Nobody has met another server, or come late.
Undisturbed == restarts = 0 /\ ~plan.late

\* There is one build, which every page knows from its first poll on.
OneBuild ==
  /\ build = 1
  /\ \A b \in Page :
       /\ page[b].on => page[b].told = 1 /\ (page[b].loop # "first" => page[b].build = 1)
       /\ page[b].reply # NoReply => page[b].reply.build = 1

\* A page that is not open has done nothing.
ClosedPages ==
  \A b \in Page : ~page[b].on =>
    /\ ~page[b].timer /\ page[b].reply = NoReply /\ page[b].loop = "poll"
    /\ \A m \in requests \cup pulls : m.page # b
    /\ session # NoSession => session.client # b

\* All texts consist of edits that were made.
Made(text) == \A e \in text : e.n \in 1 .. edits[e.by]
TextsAreMade ==
  /\ Made(session.text) /\ Made(disk)
  /\ \A b \in Page : Made(page[b].text)
  /\ \A m \in requests : Made(m.text)
  /\ \A m \in pulls : Made(m.answer.text)
  /\ \A text \in saves : Made(text)
  /\ \A a \in Agent : Made(base[a].text)

\* Revisions name the states of the session.
Remembered(s) == s.revision <= session.revision /\ (s.revision = session.revision => s = session)
Revisions ==
  /\ session.revision = 0 => session = NoSession
  /\ \A b \in Page : page[b].known <= session.revision
  /\ \A m \in requests : m.known <= session.revision
  /\ \A m \in pulls : m.answer # NoSession => Remembered(m.answer)
  /\ \A a \in Agent : base[a] # NoSession => Remembered(base[a])

\* Of a page's requests the newest counts, and the page knows no less than it.
RequestsInOrder ==
  /\ \A m \in requests :
       /\ m.local \in 1 .. page[m.page].local
       /\ page[m.page].inflight # 0 => m.local <= page[m.page].inflight
       /\ m.known = session.revision => page[m.page].known = session.revision
  /\ \A m, n \in requests :
       m.page = n.page /\ m.local < n.local /\ m.known = session.revision
         => n.known = session.revision

\* The session is what page b compiled last.
IsOf(b) == session.client = b /\ ~session.agentWritten

\* An answer that has not arrived is newer than what the page still sends.
RepliesInOrder ==
  \A b \in Page :
    LET r == page[b].reply IN
    /\ page[b].inflight <= page[b].local
    /\ r # NoReply => page[b].inflight # 0
    /\ r # NoReply /\ r.accepted =>
         /\ r.revision <= session.revision
         /\ r.revision = session.revision <=> IsOf(b)
         /\ IsOf(b) => session.local = page[b].inflight
         /\ \A m \in requests : m.page = b => m.known < r.revision

\* Whom the server would accept agrees with the session about the others' edits.
Others(b, text) == {e \in text : e.by # b}
Agrees(b, text) == Others(b, text) = Others(b, session.text)
PagesAgree ==
  \A b \in Page : page[b].known = session.revision \/ IsOf(b) => Agrees(b, page[b].text)
RequestsAgree ==
  \A m \in requests :
    m.known = session.revision \/ (IsOf(m.page) /\ m.local > session.local)
      => Agrees(m.page, m.text)
PullsAgree ==
  \A m \in pulls :
    m.answer # NoSession /\ IsOf(m.page) /\ m.answer.revision >= page[m.page].known
      => Agrees(m.page, m.answer.text)

Kept ==
  /\ OneBuild /\ ClosedPages /\ TextsAreMade /\ Revisions
  /\ RequestsInOrder /\ RepliesInOrder
  /\ PagesAgree /\ RequestsAgree /\ PullsAgree
SessionInv == TypeOK /\ (Undisturbed => Kept)
=============================================================================
