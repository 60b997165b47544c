----------------------------- MODULE WorkspaceInv -----------------------------
(***************************************************************************)
(* Two inductive invariants of Workspace: of what the editor holds, in     *)
(* Quiet behaviours, and of what the persistent cache holds, in Steady     *)
(* ones.                                                                   *)
(***************************************************************************)
EXTENDS WorkspaceKeys

\* Somebody may close a buffer.
Closes == \E path \in Files : None \in script.typings[path]

\* What is cacheable is like the standard library: it depends on nothing, reads
\* only its own directory, and nobody changes it.  Without cacheable projects
\* anything may happen; with them buffers stay open (see the README).
Quiet ==
    /\ Closes => Cacheable = {}
    /\ \A p \in Cacheable :
         /\ script.deps[p] = {}
         /\ Inputs(p, script.disk[Main[p]]) \subseteq In(p)
         /\ \A path \in In(p) : /\ script.saves[path] = {}
                                /\ script.typings[path] = {}
                                /\ script.overlays[path] = None

\* What such a project always is.
Standard(p) == Loaded(p, script.disk)
StandardInterface(p) == Interface(Standard(p), [q \in {} |-> None])

-----------------------------------------------------------------------------
(* Types.                                                                  *)

Held(p) == {projects[q] : q \in {p} \cap DOMAIN projects}
             \cup {previous[q] : q \in {p} \cap DOMAIN previous}

Kinds == {"idle", "visit", "load", "lower"}
Message == [kind : {"edit", "files"}, path : Files \cup {None},
            text : Texts \cup {None}, paths : SUBSET Files]
Sources == [Files -> Contents \cup {Unread}]

FilesOK(fs) ==
    /\ fs = [disk |-> fs.disk, observed |-> fs.observed, acquired |-> fs.acquired,
             pending |-> fs.pending, listings |-> fs.listings,
             fingerprints |-> fs.fingerprints]
    /\ fs.disk \in Sources /\ fs.observed \in Sources
    /\ fs.acquired \subseteq Files /\ fs.pending \subseteq Files
    /\ \A p \in Cacheable : \A path \in In(p) :
         fs.disk[path] \in {Unread, script.disk[path]}

CacheOK(kept) ==
    /\ kept = [interfaces |-> kept.interfaces, inputs |-> kept.inputs,
               artifacts |-> kept.artifacts]
    /\ \A e \in kept.interfaces \cup kept.artifacts :
         /\ e.key.project \in Cacheable
         /\ script.disk[Main[e.key.project]] # Absent
         /\ e.interface = StandardInterface(e.key.project)
    /\ \A e \in kept.inputs : /\ e.key.project \in Cacheable
                              /\ e.paths = DOMAIN Standard(e.key.project)

\* Messages are about files, and edits are those of the script.
MessagesOK ==
    /\ inbox \in Seq(Message)
    /\ \A i \in DOMAIN inbox :
         inbox[i].kind = "edit" => /\ inbox[i].path \in Files
                                   /\ inbox[i].text \in script.typings[inbox[i].path]

\* The disk, the buffers and the messages about them.
OutsideOK ==
    /\ disk \in [Files -> Contents]
    /\ overlays \in [Files -> Texts \cup {None}]
    /\ \A p \in Cacheable : \A path \in In(p) :
         disk[path] = script.disk[path] /\ overlays[path] = None
    /\ MessagesOK

SessionOK ==
    /\ hosts \in [Projects -> Nat] /\ revision \in Nat
    /\ projects = [p \in DOMAIN projects |-> projects[p]]
    /\ previous = [p \in DOMAIN previous |-> previous[p]]
    /\ DOMAIN projects \cup DOMAIN previous \subseteq Graph

WorkerOK ==
    /\ {dirty, needsRefresh, failed, background} \subseteq BOOLEAN
    /\ work = [kind |-> work.kind, for |-> work.for, at |-> work.at]
    /\ work.kind \in Kinds /\ work.at \in Nat
    /\ work.kind = "visit" => /\ work.at \in 1..(Len(Order) + 1)
                              /\ work.for \in {"edit", "ask", "check", "lower"}

TypeInv ==
    /\ script \in Scripts /\ Quiet
    /\ OutsideOK /\ SessionOK /\ WorkerOK /\ FilesOK(files) /\ CacheOK(cache)

-----------------------------------------------------------------------------
(* Analyses.                                                               *)

\* What makes two analyses the same to consumers and to the next refresh.
Like(a, b) ==
    /\ a.inputs = b.inputs /\ a.interface = b.interface /\ a.deps = b.deps
    /\ a.revision = b.revision /\ a.generation = b.generation /\ a.key = b.key

\* An analysis is of all a project's sources, as they were at one time, and
\* older than the latest revision.
AnalysisOK(p, a, latest) ==
    /\ DOMAIN a = {"generation", "interface", "focus", "deps", "inputs",
                   "revision", "key", "artifact", "linked"}
    /\ Main[p] \in DOMAIN a.inputs /\ a.inputs[Main[p]] # Absent
    /\ a.inputs \in [Inputs(p, a.inputs[Main[p]]) -> Contents]
    /\ a.generation = None \/ a.generation \in Nat
    /\ a.generation = None => p \in Cacheable
    /\ p \in Cacheable => a.inputs = Standard(p) /\ a.interface = StandardInterface(p)
    /\ a.revision \in Nat /\ a.revision <= latest
    /\ a.deps \in [Deps[p] -> Nat] /\ \A q \in Deps[p] : a.deps[q] <= latest
    /\ a.key.project = p

AnalysesOK == \A p \in Graph : \A a \in Held(p) : AnalysisOK(p, a, revision)

\* Of one project a revision says the interface.
Revised ==
    \A p \in Graph : \A a, b \in Held(p) :
      a.revision = b.revision => a.interface = b.interface

\* Interfaces that are held under the revisions an analysis was made against.
Against(p, a, imported) ==
    \A q \in Deps[p] : \E b \in Held(q) :
      b.revision = a.deps[q] /\ imported[q] = b.interface
Interfaces == {b.interface : b \in UNION {Held(q) : q \in Graph}}

\* The interface of an analysis follows from its inputs and the interfaces of
\* these revisions, whatever became of the analyses it was made against.
Sound ==
    \A p \in Graph : \A a \in Held(p) : \A imported \in [Deps[p] -> Interfaces] :
      Against(p, a, imported) => a.interface = Interface(a.inputs, imported)

Knowledge == AnalysesOK /\ Revised /\ Sound

-----------------------------------------------------------------------------
(* The refresh.                                                            *)

Before(n) == {Order[i] : i \in 1..(n - 1)}
Holding(fs, path) == path \in fs.acquired /\ fs.disk[path] # Unread
Linking(p) == /\ projects[p].deps = Revisions(p)
              /\ IsCurrent(p, projects[p])

\* What is due, and for whom a refresh runs.
Control ==
    /\ work.kind # "visit" => previous = NoProjects
    /\ work.kind = "visit" => DOMAIN projects = Before(work.at)
    /\ work.kind = "visit" => (work.for = "edit" <=> dirty)
    /\ work.kind \in {"load", "lower"} => ~dirty /\ ~needsRefresh
    /\ ~dirty /\ (needsRefresh \/ work.kind = "visit") => ~Closes /\ ~failed
    /\ ~dirty /\ failed => DOMAIN projects = {}
    /\ work.kind # "visit" \/ ~dirty => files.pending = {}

\* What a refresh has visited is of the texts now kept.
Visited ==
    work.kind = "visit" =>
      \A p \in DOMAIN projects :
        /\ projects[p].inputs = Loaded(p, Snapshot)
        /\ \A path \in DOMAIN projects[p].inputs :
             Holding(files, path) /\ files.observed[path] # Unread
        /\ Linking(p)

\* When nothing is due every analysis is.
Current ==
    ~dirty /\ ~failed =>
      /\ Graph \subseteq DOMAIN projects \cup DOMAIN previous
      /\ \A p \in Graph : \A a \in Held(p) :
           /\ a.inputs = Loaded(p, Snapshot)
           /\ ~Closes => \A path \in DOMAIN a.inputs : Holding(files, path)
      /\ work.kind # "visit" /\ ~needsRefresh => \A p \in Graph : Linking(p)

\* The background check.
Lowering ==
    /\ work.kind = "visit" /\ work.for = "lower" =>
         /\ \A p \in DOMAIN previous \ DOMAIN projects :
              /\ IsCurrent(p, previous[p])
              /\ previous[p].generation = None /\ previous[p].artifact = {}
                   => p \in required
         /\ \A p \in DOMAIN projects :
              projects[p].generation = None => projects[p].artifact # {}
    /\ work.kind = "lower" =>
         \A p \in DOMAIN projects :
           projects[p].generation = None => projects[p].artifact # {}

-----------------------------------------------------------------------------
(* The watcher.                                                            *)

Command == [kind : {"event"}, path : Files] \cup [kind : {"inputs"}, inputs : Sources]

WatcherOK ==
    /\ watcher = [inputs |-> watcher.inputs, paths |-> watcher.paths, watches |-> watcher.watches]
    /\ watcher.inputs \in Sources
    /\ commands \in Seq(Command)

\* There is a last command with inputs, or there is none.
LastSent(n) ==
    /\ n \in 0..Len(commands) /\ (n # 0 => commands[n].kind = "inputs")
    /\ \A i \in (n + 1)..Len(commands) : commands[i].kind = "event"

Watching ==
    /\ \E n \in 0..Len(commands) : LastSent(n)
    /\ ~dirty => files.acquired \subseteq Watched(Sent)

WorkspaceInv ==
    /\ TypeInv /\ Knowledge /\ Control /\ Visited /\ Current /\ Lowering
    /\ WatcherOK /\ Watching

-----------------------------------------------------------------------------
(* The persistent cache.                                                   *)

\* What a file or an open buffer may come to hold.
DiskTexts(path) == {script.disk[path]} \cup script.saves[path]
BufferTexts(path) == {script.overlays[path], None} \cup script.typings[path]

\* Cacheable projects depend on such projects only and have their modules in
\* their own directory, and nobody removes a file there: they are edited,
\* saved and closed as one likes.
Steady ==
    \A p \in Cacheable :
      /\ script.deps[p] \subseteq Cacheable
      /\ \A path \in In(p) : Absent \notin script.saves[path]
      /\ \A main \in (DiskTexts(Main[p]) \cup BufferTexts(Main[p])) \cap Texts :
           Modules[main] \subseteq In(p)

\* A directory whose files nobody removes: what a kept listing leaves out of
\* the acquired files is missing, and a kept fingerprint has their texts.
DirectoryOK(fs, p, ov, dk) ==
    /\ \A path \in In(p) : dk[path] = Absent => fs.disk[path] \in {Absent, Unread}
    /\ \A path \in In(p) \cap fs.acquired :
         /\ fs.listings[p] # None /\ path \notin fs.listings[p]
              => fs.disk[path] = Absent \/ ov[path] # None
         /\ fs.fingerprints[p] # None
              => Effective(fs.disk[path], ov[path]) = Says(fs.fingerprints[p], path)

DirectoriesOK(fs, ov, dk) ==
    /\ fs = [disk |-> fs.disk, observed |-> fs.observed, acquired |-> fs.acquired,
             pending |-> fs.pending, listings |-> fs.listings,
             fingerprints |-> fs.fingerprints]
    /\ fs.disk = [path \in Files |-> fs.disk[path]]
    /\ fs.listings = [p \in Projects |-> fs.listings[p]]
    /\ fs.fingerprints = [p \in Projects |-> fs.fingerprints[p]]
    /\ \A path \in Files : fs.disk[path] \in DiskTexts(path) \cup {Unread}
    /\ \A path \in Files \cap fs.acquired : fs.disk[path] # Unread
    /\ \A p \in Cacheable : DirectoryOK(fs, p, ov, dk)

\* A disk and buffers hold what the script has for them.
Allowed(ov, dk) ==
    /\ script \in Scripts /\ Steady
    /\ dk = [path \in Files |-> dk[path]] /\ ov = [path \in Files |-> ov[path]]
    /\ \A path \in Files : /\ dk[path] \in DiskTexts(path)
                            /\ ov[path] \in BufferTexts(path)

\* A refresh visits the projects in order.
InOrder ==
    /\ DOMAIN projects \cup DOMAIN previous \subseteq Graph
    /\ work = [kind |-> work.kind, for |-> work.for, at |-> work.at]
    /\ work.kind = "visit" => /\ work.at \in 1..(Len(Order) + 1)
                              /\ DOMAIN projects = Before(work.at)

\* What the keys of the dependencies stand for.
ImportsOf(meaning, key) == [q \in DOMAIN key.deps |-> meaning[key.deps[q]]]

\* `meaning` gives the interface a key stands for: the one the texts it digests
\* have over what the keys of the dependencies stand for.
Interprets(meaning) ==
    \A key \in DOMAIN meaning :
      /\ key.project \in Graph /\ DOMAIN key.deps = Deps[key.project]
      /\ \A q \in DOMAIN key.deps : /\ key.deps[q] \in DOMAIN meaning
                                     /\ key.deps[q].project = q
      /\ meaning[key] = Interface(KeyInputs(key), ImportsOf(meaning, key))

\* Analyses and entries have the interfaces their keys stand for.
AnalysisKeyed(meaning, p, a) ==
    /\ DOMAIN a = {"generation", "interface", "focus", "deps", "inputs",
                   "revision", "key", "artifact", "linked"}
    /\ a.key \in DOMAIN meaning /\ a.key.project = p
    /\ a.interface = meaning[a.key]
AnalysesKeyed(meaning) ==
    \A p \in Cacheable : \A a \in Held(p) : AnalysisKeyed(meaning, p, a)
CacheKeyed(meaning, kept) ==
    /\ kept = [interfaces |-> kept.interfaces, inputs |-> kept.inputs,
               artifacts |-> kept.artifacts]
    /\ \A e \in kept.interfaces \cup kept.artifacts :
         e.key \in DOMAIN meaning /\ e.interface = meaning[e.key]

KeysInv ==
    /\ Allowed(overlays, disk) /\ MessagesOK /\ InOrder
    /\ DirectoriesOK(files, overlays, disk)
    /\ \E meaning : /\ Interprets(meaning) /\ AnalysesKeyed(meaning)
                     /\ CacheKeyed(meaning, cache)
=============================================================================
