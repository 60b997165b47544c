--------------------------- MODULE DependencyMemo ---------------------------
(***************************************************************************)
(* The dependency graphs a debugger process remembers                      *)
(* (debug/src/dependency_cache.rs).  Compile requests run on several       *)
(* threads.  Each looks its request up, compiles what it misses without    *)
(* the lock, digests the directories the graph was read from and remembers *)
(* graph and digest.  A graph is the contents its projects had when they   *)
(* were read; a digest is the contents they had when it was taken.         *)
(***************************************************************************)
EXTENDS Naturals, FiniteSets

CONSTANTS
  Thread,        \* WORKERS
  Request,       \* what key() tells apart
  Project,       \* project directories, and the lockfile
  Reads,         \* [Request -> the projects of its graph]
  Capacity,      \* CAPACITY
  Version        \* contents the sources of a project may have

VARIABLES
  disk,    \* contents of each project
  memo,    \* CACHE: from requests to [graph, digest]
  pc,      \* what a thread does
  asked,   \* its request
  graph,   \* what it has read or been handed
  digest,  \* what it digested
  \* What no code records.
  since,   \* contents of each project since it was asked
  raced    \* projects edited between being read for its graph and the digest

vars == <<disk, memo, pc, asked, graph, digest, since, raced>>

Contents(k) == [p \in Reads[k] |-> disk[p]]
GoTo(t, step) == pc' = [pc EXCEPT ![t] = step]

Init ==
  /\ disk \in [Project -> Version]
  /\ memo = << >>
  /\ pc = [t \in Thread |-> "idle"]
  /\ asked \in [Thread -> {CHOOSE k \in Request : TRUE}]
  /\ graph = [t \in Thread |-> << >>]
  /\ digest = [t \in Thread |-> << >>]
  /\ since = [t \in Thread |-> [p \in Project |-> {}]]
  /\ raced = [t \in Thread |-> {}]

Ask(t, k) ==
  /\ pc[t] = "idle"
  /\ asked' = [asked EXCEPT ![t] = k]
  /\ since' = [since EXCEPT ![t] = [p \in Project |-> {disk[p]}]]
  /\ GoTo(t, "lookup")
  /\ UNCHANGED <<disk, memo, graph, digest, raced>>

Found(t) ==
  /\ graph' = [graph EXCEPT ![t] = memo[asked[t]].graph]
  /\ raced' = [raced EXCEPT ![t] = memo[asked[t]].raced]
  /\ GoTo(t, "answered")

\* Mutant: what is remembered is handed back as it is.
LookupTrusting(t) ==
  /\ pc[t] = "lookup"
  /\ IF asked[t] \in DOMAIN memo THEN Found(t) ELSE GoTo(t, "read") /\ UNCHANGED <<graph, raced>>
  /\ UNCHANGED <<disk, memo, asked, digest, since>>

\* The digest is compared under the lock.
Lookup(t) ==
  /\ pc[t] = "lookup"
  /\ IF asked[t] \in DOMAIN memo /\ memo[asked[t]].digest = Contents(asked[t])
     THEN Found(t)
     ELSE GoTo(t, "read") /\ UNCHANGED <<graph, raced>>
  /\ UNCHANGED <<disk, memo, asked, digest, since>>

\* Compiling reads one project after another, without the lock.
Read(t, p) ==
  /\ pc[t] = "read" /\ p \in Reads[asked[t]] \ DOMAIN graph[t]
  /\ graph' = [graph EXCEPT ![t] = [q \in DOMAIN @ \cup {p} |->
                                     IF q = p THEN disk[p] ELSE @[q]]]
  /\ UNCHANGED <<disk, memo, pc, asked, digest, since, raced>>

\* The digest is taken when the graph is complete.
Digest(t) ==
  /\ pc[t] = "read" /\ DOMAIN graph[t] = Reads[asked[t]]
  /\ digest' = [digest EXCEPT ![t] = Contents(asked[t])]
  /\ GoTo(t, "remember")
  /\ UNCHANGED <<disk, memo, asked, graph, since, raced>>

\* A full memo is emptied, also to replace what it holds.
Remember(t) ==
  LET kept == IF Cardinality(DOMAIN memo) >= Capacity THEN {} ELSE DOMAIN memo IN
  /\ pc[t] = "remember"
  /\ memo' = [k \in kept \cup {asked[t]} |->
       IF k = asked[t] THEN [graph |-> graph[t], digest |-> digest[t], raced |-> raced[t]]
       ELSE memo[k]]
  /\ GoTo(t, "answered")
  /\ UNCHANGED <<disk, asked, graph, digest, since, raced>>

\* A thread keeps nothing of a request it has answered.
Finish(t) ==
  /\ graph' = [graph EXCEPT ![t] = << >>]
  /\ digest' = [digest EXCEPT ![t] = << >>]
  /\ since' = [since EXCEPT ![t] = [p \in Project |-> {}]]
  /\ raced' = [raced EXCEPT ![t] = {}]
  /\ GoTo(t, "idle")
  /\ UNCHANGED <<disk, memo, asked>>

Reply(t) == pc[t] = "answered" /\ Finish(t)

\* A graph that does not compile is not remembered.
Fail(t) == pc[t] = "read" /\ Finish(t)

\* The user saves a source file at any moment, also with contents it had before.
Edit(p) ==
  /\ \E v \in Version \ {disk[p]} :
       /\ disk' = [disk EXCEPT ![p] = v]
       /\ since' = [t \in Thread |->
                     IF pc[t] = "idle" THEN since[t] ELSE [since[t] EXCEPT ![p] = @ \cup {v}]]
  /\ raced' = [t \in Thread |->
                raced[t] \cup IF pc[t] = "read" /\ p \in DOMAIN graph[t] THEN {p} ELSE {}]
  /\ UNCHANGED <<memo, pc, asked, graph, digest>>

Next ==
  \/ \E t \in Thread :
       \/ Lookup(t) \/ Fail(t) \/ Digest(t) \/ Remember(t) \/ Reply(t)
       \/ \E k \in Request : Ask(t, k)
       \/ \E p \in Project : Read(t, p)
  \/ \E p \in Project : Edit(p)

Spec == Init /\ [][Next]_vars

-----------------------------------------------------------------------------
(* Properties *)

\* CAPACITY bounds what the process remembers however many threads answer
\* different requests; every graph is whole and is one of the request it is
\* filed under.
MemoIsBounded ==
  /\ Cardinality(DOMAIN memo) <= Capacity
  /\ \A k \in DOMAIN memo : DOMAIN memo[k].graph = Reads[k]

\* Whatever is edited and undone meanwhile, an answer is made of contents the
\* projects had while its request was at work, remembered or not, except for
\* projects that were edited just when the remembered graph was compiled: after
\* they were read and before the digest was taken (debug/src/dependency_cache.rs:85).
StaleOnlyIfEdited ==
  \A t \in Thread : pc[t] = "answered" =>
    \A p \in DOMAIN graph[t] \ raced[t] : graph[t][p] \in since[t][p]

\* Both, for whoever asks.
MemoIsRight == MemoIsBounded /\ StaleOnlyIfEdited

\* Without the exception ("compiled only when the request or the sources it reads
\* have changed since this process last answered it",
\* debug/src/dependency_cache.rs:45).  The code does not keep this.
AnswersAreOfTheirTime ==
  \A t \in Thread : pc[t] = "answered" =>
    \A p \in DOMAIN graph[t] : graph[t][p] \in since[t][p]

-----------------------------------------------------------------------------
(* What is inductive. *)

\* What the code makes of the constants: requests read projects, and a memo
\* has room for one answer.
Sensible ==
  /\ Request # {} /\ Reads \in [Request -> SUBSET Project]
  /\ Capacity \in Nat \ {0}

Steps == {"idle", "lookup", "read", "remember", "answered"}

\* The memo holds at most Capacity graphs, each whole and of its request.
Bounded ==
  /\ DOMAIN memo \subseteq Request
  /\ IsFiniteSet(DOMAIN memo)
  /\ MemoIsBounded
  /\ asked \in [Thread -> Request]
  /\ pc \in [Thread -> Steps]
  /\ graph = [t \in Thread |-> graph[t]] /\ digest = [t \in Thread |-> digest[t]]
  /\ \A t \in Thread :
       /\ pc[t] \in {"idle", "lookup"} => graph[t] = << >>
       /\ pc[t] = "read" => DOMAIN graph[t] \subseteq Reads[asked[t]]
       /\ pc[t] \in {"remember", "answered"} => DOMAIN graph[t] = Reads[asked[t]]

\* What has been read is of its time, and is what the digest says or will say,
\* but for the projects that raced; the same of what is remembered.
Functions ==
  /\ disk = [p \in Project |-> disk[p]]
  /\ since = [t \in Thread |-> [p \in Project |-> since[t][p]]]
  /\ raced = [t \in Thread |-> raced[t]]

OfItsTime(t) ==
  /\ pc[t] # "idle" => \A p \in Project : disk[p] \in since[t][p]
  /\ pc[t] \in {"read", "remember"} => \A p \in DOMAIN graph[t] : graph[t][p] \in since[t][p]
  /\ pc[t] = "read" => \A p \in DOMAIN graph[t] \ raced[t] : graph[t][p] = disk[p]
  /\ pc[t] = "remember" => \A p \in DOMAIN graph[t] \ raced[t] : graph[t][p] = digest[t][p]
  /\ pc[t] = "answered" => \A p \in DOMAIN graph[t] \ raced[t] : graph[t][p] \in since[t][p]

AsDigested ==
  \A k \in DOMAIN memo : \A p \in DOMAIN memo[k].graph \ memo[k].raced :
    memo[k].graph[p] = memo[k].digest[p]

Fresh == Functions /\ AsDigested /\ \A t \in Thread : OfItsTime(t)
=============================================================================
