----------------------------- MODULE Workspace -----------------------------
(***************************************************************************)
(* An editor's view of a root project and the projects it depends on       *)
(* (cli/src/workspace.rs), driven by the language server's worker          *)
(* (cli/src/lsp.rs) and told of changes on disk by its file watcher        *)
(* (cli/src/lsp/watcher.rs).                                               *)
(*                                                                         *)
(* A refresh visits the projects in dependency order and reuses, takes     *)
(* from the persistent cache, or analyses each.  Any step of it can be     *)
(* cancelled: the projects visited so far are then kept with the others'   *)
(* earlier analyses.  When nothing else is to be done a background check   *)
(* lowers every project and stores the cacheable artifacts.                *)
(*                                                                         *)
(* Manifests, the lockfile and the build are constant here, so the set and *)
(* order of projects is; analyses are complete (a request's partial one is *)
(* not followed), and modules are named one level deep.                    *)
(***************************************************************************)
EXTENDS EditorFiles, SequencesExt, Naturals

CONSTANTS Main,       \* [Projects -> Files], each project's root module
          Modules,    \* [Texts -> SUBSET Files], the modules a text names
          Sig,        \* [Texts -> ...], what a text exports
          Opens,      \* [Texts -> BOOLEAN]: what a text exports has a type
                      \* its dependencies decide
          Scripts     \* what may happen in a behaviour: the projects of the
                      \* build in the "order" it visits them, the last the root,
                      \* with their direct dependencies ("deps"); those that
                      \* are "cacheable" in the persistent cache; the "disk" and
                      \* the "overlays" at first, what others save in each file
                      \* ("saves") and is typed into it ("typings"), and how
                      \* often that and the rest may happen ("budget")

ASSUME WorkspaceAssumption ==
    /\ None \notin Nat
    /\ Main \in [Projects -> Files] /\ Modules \in [Texts -> SUBSET Files]
    /\ \A p \in Projects : ProjectOf[Main[p]] = p
    /\ \A s \in Scripts :
         /\ s.order \in Seq(Projects) /\ s.order # <<>>
         /\ \A i, j \in 1..Len(s.order) : s.order[i] = s.order[j] => i = j
         /\ s.disk \in [Files -> Contents]
         /\ s.overlays \in [Files -> Texts \cup {None}]
         /\ \A path \in Files : /\ s.saves[path] \subseteq Contents
                               /\ s.typings[path] \subseteq Texts \cup {None}
         /\ \A i \in 1..Len(s.order) :
              s.deps[s.order[i]] \subseteq {s.order[j] : j \in 1..(i - 1)}
         /\ s.cacheable \subseteq Projects \ {Last(s.order)}

VARIABLES
    script,       \* one of Scripts
    disk,         \* [Files -> Contents]
    overlays,     \* open buffers: [Files -> Texts \cup {None}]
    files,        \* the Files of EditorFiles
    hosts,        \* [Projects -> Nat]: the generation of each Host
    projects,     \* self.projects: from projects to records of their analyses
    previous,     \* the projects of before the refresh that runs
    revision,     \* next_interface_revision
    cache,        \* the persistent cache: interfaces, inputs and artifacts
    required,     \* source_required
    focus,        \* the project the editor looks into
    needsRefresh, \* needs_refresh
    dirty,        \* the worker's: a refresh is due
    background,   \* the worker's: the background check has been done
    failed,       \* the worker's project_error
    work,         \* what the worker does: [kind, for, at]
    inbox,        \* messages the worker has not handled
    watcher,      \* the watcher's thread: inputs, paths, watches
    commands,     \* what the watcher has not drained
    budget        \* what is left of each bound
unscripted == <<disk, overlays, files, hosts, projects, previous, revision, cache,
          required, focus, needsRefresh, dirty, background, failed, work,
          inbox, watcher, commands, budget>>
vars == <<script, unscripted>>
session == <<hosts, projects, previous, revision, required>>
schedule == <<needsRefresh, dirty, background, failed>>
outside == <<disk, watcher, commands>>

NoProjects == <<>>
Idle == [kind |-> "idle", for |-> None, at |-> 0]
NoEntries == [interfaces |-> {}, inputs |-> {}, artifacts |-> {}]

Cacheable == script.cacheable
Order == script.order
Deps == script.deps
Graph == Range(Order)
Root == Last(Order)

Init ==
    /\ script \in Scripts
    /\ disk = script.disk
    /\ overlays = script.overlays
    /\ files = NothingRead
    /\ hosts = [p \in Projects |-> 0]
    /\ projects = NoProjects /\ previous = NoProjects
    /\ revision = 0
    /\ cache = NoEntries
    /\ required = {}
    /\ focus = Last(script.order)
    /\ needsRefresh = FALSE
    /\ dirty = TRUE /\ background = FALSE /\ failed = FALSE
    /\ work = Idle
    /\ inbox = <<>>
    /\ watcher = [inputs |-> [path \in Files |-> Unread], paths |-> {},
                  watches |-> {}]
    /\ commands = <<>>
    /\ budget = script.budget

Spend(kind) == budget[kind] > 0 /\ budget' = [budget EXCEPT ![kind] = @ - 1]

-----------------------------------------------------------------------------
(* What an analysis of some texts is.                                      *)

\* The files loading a project reads, the candidates that are absent too,
\* by what its root module says.
Inputs(p, main) == {Main[p]} \cup IF main = Absent THEN {} ELSE Modules[main]

\* What it reads where `text` gives what reading a path returns.
Loaded(p, text) == [path \in Inputs(p, text[Main[p]]) |-> text[path]]

\* A module that is named and missing is a diagnostic.
Clean(inputs) == \A path \in DOMAIN inputs : inputs[path] # Absent

\* An interface is what each module exports, with the interfaces of the
\* dependencies when a type is inferred from them.
Interface(inputs, imported) ==
    [exports |-> [path \in DOMAIN inputs |->
                    IF inputs[path] = Absent THEN Absent ELSE Sig[inputs[path]]],
     imports |-> IF \E path \in DOMAIN inputs :
                      inputs[path] # Absent /\ Opens[inputs[path]]
                 THEN imported ELSE None]

-----------------------------------------------------------------------------
(* A refresh.                                                              *)

Visiting == Order[work.at]
Busy(kind) == work.kind = kind /\ work.at \in 1..Len(Order)

\* refresh() takes the projects; refresh_projects() forgets what the last
\* one observed.
StartRefresh(for) ==
    /\ previous' = projects
    /\ projects' = NoProjects
    /\ files' = [files EXCEPT !.observed = [path \in Files |-> Unread]]
    /\ work' = [kind |-> "visit", for |-> for, at |-> 1]

Linked == [q \in {Order[i] : i \in 1..(work.at - 1)} |-> projects[q].interface]
Imported(p) == [q \in Deps[p] |-> projects[q].interface]
Revisions(p) == [q \in Deps[p] |-> projects[q].revision]
Keys(p) == [q \in Deps[p] |-> projects[q].key]
KeyOf(p, fs) == [project |-> p, print |-> Fingerprint(fs, p, overlays, disk),
                 deps |-> Keys(p)]

\* The editor's cursor, or where it was when the project was last visited.
Focused(p) == focus = p \/ (p \in DOMAIN previous /\ previous[p].focus)

IsCurrent(p, project) ==
    project.generation = None \/ project.generation = hosts[p]

\* Mutants of the reuse test: whatever the dependencies' interfaces, whether
\* or not sources are asked for.
ReuseWhateverIsImported(p) ==
    /\ p \in DOMAIN previous
    /\ previous[p].generation # None \/ p \notin required
    /\ IsCurrent(p, previous[p])
ReuseUnasked(p) ==
    /\ p \in DOMAIN previous
    /\ IsCurrent(p, previous[p])
    /\ previous[p].deps = Revisions(p)

\* The part of the reuse test that reads no source.
ReuseThought(p) ==
    /\ p \in DOMAIN previous
    /\ previous[p].generation # None \/ p \notin required
    /\ IsCurrent(p, previous[p])
    /\ previous[p].deps = Revisions(p)

SourcesOf(fs) == [path \in Files |-> Source(fs, path, overlays, disk)]
Same(p) == {path \in DOMAIN previous[p].inputs :
              SourcesOf(files)[path] = previous[p].inputs[path]}
Reusable(p) == ReuseThought(p) /\ Same(p) = DOMAIN previous[p].inputs

\* The test reads the inputs in any order and stops at the first that
\* changed.
ReadBy(fs, paths) == Read(fs, paths, overlays, disk)
TestedReuse(p) ==
    IF ~ReuseThought(p) THEN {files}
    ELSE UNION {{ReadBy(files, same \cup {path}) : same \in SUBSET Same(p)} :
                  path \in DOMAIN previous[p].inputs \ Same(p)}

\* Whether the persistent cache may stand in for a project's sources.
MayUseCache(p) ==
    /\ p \in Cacheable
    /\ ~Focused(p) /\ p \notin required
    /\ \A path \in In(p) : overlays[path] = None

Stored(kind, key) == {e \in cache[kind] : e.key = key}
\* An interface stored on its own, or the header of an artifact.
StoredInterfaces(key) ==
    IF Stored("interfaces", key) # {}
    THEN {e.interface : e \in Stored("interfaces", key)}
    ELSE {e.interface : e \in Stored("artifacts", key)}

\* The inputs recorded with a key, or, when none are, those loading finds.
Acquire(p, key, fs) ==
    IF Stored("inputs", key) # {}
    THEN UNION {e.paths : e \in Stored("inputs", key)}
    ELSE Inputs(p, SourcesOf(fs)[Main[p]])

Printed(p, fs) == Fingerprinted(fs, p, overlays, disk)

\* The ways the project that is visited can fail the reuse test and have its
\* interface looked up: the files and the cache that leaves, and the interface
\* found, or None when the sources are to be analysed.  An interface taken
\* from an artifact is stored on its own; one under a key that acquiring the
\* inputs changes is not used.
Looked(p) ==
    {LET tested == Printed(p, fs)
         key == KeyOf(p, tested)
         found == IF MayUseCache(p) THEN StoredInterfaces(key) ELSE {}
         paths == Acquire(p, key, tested)
         read == ReadBy(tested, paths)
         migrated == {[key |-> key, interface |-> i] : i \in found}
     IN IF found = {}
        THEN [files |-> tested, cache |-> cache, interface |-> None,
              key |-> key, paths |-> {}]
        ELSE [files |-> Printed(p, read),
              cache |-> [cache EXCEPT !.interfaces = @ \cup migrated],
              interface |-> IF KeyOf(p, read) = key
                            THEN CHOOSE i \in found : TRUE ELSE None,
              key |-> key, paths |-> paths] : fs \in TestedReuse(p)}

\* A project's consumers keep their analyses while its interface stays.
RevisionFor(p, interface) ==
    IF p \in DOMAIN previous /\ previous[p].interface = interface
    THEN previous[p].revision ELSE revision + 1

Publish(p, project, fs) ==
    /\ projects' = [q \in DOMAIN projects \cup {p} |->
                     IF q = p THEN project ELSE projects[q]]
    /\ revision' = IF project.revision > revision THEN project.revision
                   ELSE revision
    /\ files' = fs
    /\ work' = [work EXCEPT !.at = @ + 1]

Reuse(p) ==
    /\ Reusable(p)
    /\ LET old == previous[p]
       IN Publish(p, [old EXCEPT !.focus =
                        @ \/ (Focused(p) /\ old.generation # None)],
                  ReadBy(files, DOMAIN old.inputs))
    /\ previous' = [q \in DOMAIN previous \ {p} |-> previous[q]]
    /\ UNCHANGED <<hosts, cache, required, focus, schedule, overlays, inbox,
                   outside, budget>>

Store(kept, kind, entry) ==
    [kept EXCEPT ![kind] = {e \in @ : e.key # entry.key} \cup {entry}]
StoreFrontend(kept, key, interface, paths) ==
    Store(Store(kept, "interfaces", [key |-> key, interface |-> interface]),
          "inputs", [key |-> key, paths |-> paths])

Admit(p) ==
    /\ ~Reusable(p)
    /\ \E look \in Looked(p) :
         /\ look.interface # None
         /\ Publish(p, [generation |-> None, interface |-> look.interface,
                        focus |-> FALSE, deps |-> Revisions(p),
                        inputs |-> [path \in look.paths |->
                                     SourcesOf(look.files)[path]],
                        revision |-> RevisionFor(p, look.interface),
                        key |-> look.key, artifact |-> {},
                        linked |-> Linked],
                    look.files)
         /\ cache' = Store(look.cache, "inputs",
                           [key |-> look.key, paths |-> look.paths])
    /\ UNCHANGED <<hosts, previous, required, focus, schedule, overlays,
                   inbox, outside, budget>>

\* Mutant: the key is the one of before the sources were acquired.
AnalysedUnderFirstKey(p, fs) ==
    LET inputs == Loaded(p, SourcesOf(fs))
        read == ReadBy(fs, DOMAIN inputs)
    IN [inputs |-> inputs, files |-> Printed(p, read), key |-> KeyOf(p, fs)]

\* What analysing the sources reads and finds, from the files `fs` leaves.
Analysed(p, fs) ==
    LET inputs == Loaded(p, SourcesOf(fs))
        read == ReadBy(fs, DOMAIN inputs)
    IN [inputs |-> inputs, files |-> Printed(p, read), key |-> KeyOf(p, read)]

Rebuild(p) ==
    /\ ~Reusable(p)
    /\ \E look \in Looked(p) :
         LET new == Analysed(p, look.files)
             interface == Interface(new.inputs, Imported(p))
         IN /\ look.interface = None
            /\ new.inputs[Main[p]] # Absent
            /\ Publish(p, [generation |-> hosts[p] + 1,
                           interface |-> interface, focus |-> Focused(p),
                           deps |-> Revisions(p), inputs |-> new.inputs,
                           revision |-> RevisionFor(p, interface),
                           key |-> new.key, artifact |-> {},
                           linked |-> Linked],
                       new.files)
            /\ hosts' = [hosts EXCEPT ![p] = @ + 1]
            /\ cache' =
                 IF p \in Cacheable /\ ~Focused(p) /\ Clean(new.inputs)
                 THEN StoreFrontend(look.cache, new.key, interface,
                                    DOMAIN new.inputs)
                 ELSE look.cache
    /\ UNCHANGED <<previous, required, focus, schedule, overlays, inbox,
                   outside, budget>>

Visit == Busy("visit") /\ (Reuse(Visiting) \/ Admit(Visiting) \/ Rebuild(Visiting))

\* What a refresh does when it ends: the worker's own tells the watcher what
\* was observed, the others do not.
Ended(fs, wrong) ==
    /\ files' = RetainAcquired(fs)
    /\ previous' = NoProjects
    /\ needsRefresh' = FALSE
    /\ work' = IF ~wrong /\ work.for = "check" THEN [Idle EXCEPT !.kind = "load"]
               ELSE IF ~wrong /\ work.for = "lower"
                    THEN [Idle EXCEPT !.kind = "lower", !.at = 1]
                    ELSE Idle
    /\ IF work.for = "edit"
       THEN /\ failed' = wrong /\ dirty' = FALSE /\ background' = FALSE
            /\ commands' = Append(commands, [kind |-> "inputs",
                                             inputs |-> fs.observed])
       ELSE /\ background' = (background \/ (wrong /\ work.for # "ask"))
            /\ UNCHANGED <<failed, dirty, commands>>
    /\ UNCHANGED <<hosts, revision, required, focus, overlays, inbox, disk,
                   watcher, budget>>

\* A root module that cannot be read fails the refresh, and every project of
\* before is dropped.
Fail ==
    /\ Busy("visit") /\ ~Reusable(Visiting)
    /\ \E look \in Looked(Visiting) :
         /\ look.interface = None
         /\ Analysed(Visiting, look.files).inputs[Main[Visiting]] = Absent
         /\ cache' = look.cache
         /\ Ended(ReadBy(look.files, {Main[Visiting]}), TRUE)
    /\ projects' = NoProjects

Finish ==
    /\ work.kind = "visit" /\ work.at = Len(Order) + 1
    /\ Ended(files, FALSE)
    /\ UNCHANGED <<projects, cache>>

\* The unwinding of a cancelled refresh.
Unwound(fs) ==
    /\ files' = AbandonAcquired(fs)
    /\ projects' = [p \in DOMAIN projects \cup DOMAIN previous |->
                     IF p \in DOMAIN projects THEN projects[p] ELSE previous[p]]
    /\ previous' = NoProjects
    /\ needsRefresh' = TRUE
    /\ work' = Idle

Untouched == <<revision, required, focus, dirty, background, failed,
               overlays, inbox, outside>>

\* Cancelled before a project is visited, or while it is analysed: its host
\* has then begun a generation no analysis has.
CancelVisit ==
    /\ Busy("visit") /\ Spend("cancels")
    /\ \/ Unwound(files) /\ UNCHANGED <<hosts, cache>>
       \/ /\ ~Reusable(Visiting)
          /\ \E look \in Looked(Visiting) :
               LET new == Analysed(Visiting, look.files)
               IN /\ look.interface = None
                  /\ new.inputs[Main[Visiting]] # Absent
                  /\ Unwound(ReadBy(look.files, DOMAIN new.inputs))
                  /\ cache' = look.cache
          /\ hosts' = [hosts EXCEPT ![Visiting] = @ + 1]
    /\ UNCHANGED Untouched

CancelLowering ==
    /\ work.kind = "lower" /\ Spend("cancels")
    /\ work' = Idle
    /\ UNCHANGED <<files, session, cache, needsRefresh, dirty, background,
                   failed, focus, overlays, inbox, outside>>

-----------------------------------------------------------------------------
(* The background check.                                                   *)

StartCheck ==
    /\ work = Idle /\ inbox = <<>> /\ ~dirty /\ ~background
    /\ IF needsRefresh THEN StartRefresh("check")
       ELSE work' = [Idle EXCEPT !.kind = "load"]
            /\ UNCHANGED <<previous, projects, files>>
    /\ UNCHANGED <<hosts, revision, required, cache, focus, schedule,
                   overlays, inbox, outside, budget>>

\* Projects taken from the cache need their artifacts; those the cache does
\* not have are to be analysed after all.
Wanting == {p \in DOMAIN projects : /\ projects[p].generation = None
                                    /\ projects[p].artifact = {}}
Found(p) == {e \in Stored("artifacts", projects[p].key) :
               e.interface = projects[p].interface}

LoadArtifacts ==
    /\ work.kind = "load"
    /\ LET missing == {p \in Wanting : Found(p) = {}}
           loaded == [p \in DOMAIN projects |->
              IF p \in Wanting \ missing
              THEN [projects[p] EXCEPT !.artifact =
                      {(CHOOSE e \in Found(p) : TRUE).artifact}]
              ELSE projects[p]]
       IN IF missing = {}
          THEN /\ projects' = loaded
               /\ work' = [Idle EXCEPT !.kind = "lower", !.at = 1]
               /\ UNCHANGED <<required, previous, files>>
          ELSE /\ required' = required \cup missing
               /\ previous' = loaded /\ projects' = NoProjects
               /\ files' = [files EXCEPT !.observed =
                              [path \in Files |-> Unread]]
               /\ work' = [kind |-> "visit", for |-> "lower", at |-> 1]
    /\ UNCHANGED <<hosts, revision, cache, focus, schedule, overlays, inbox,
                   outside, budget>>

\* Whether lowering accepts the analysis: no diagnostics, and artifacts with
\* the very interfaces it was made against, for all the projects before it.
Lowers(p) ==
    /\ Clean(projects[p].inputs)
    /\ \A q \in DOMAIN projects[p].linked :
         /\ projects[q].artifact # {}
         /\ projects[q].interface = projects[p].linked[q]

\* The artifact a project has, of the one at most.
Lowered(project) == CHOOSE artifact \in project.artifact : TRUE

Artifact(inputs, deps) == [inputs |-> inputs, deps |-> deps]

Lower ==
    /\ Busy("lower")
    /\ LET p == Visiting
           new == Artifact(projects[p].inputs,
                           [q \in Deps[p] |-> Lowered(projects[q])])
       IN IF p \in DOMAIN projects /\ projects[p].artifact = {} /\ Lowers(p)
          THEN /\ projects' = [projects EXCEPT ![p].artifact = {new}]
               /\ cache' = IF p \in Cacheable
                           THEN Store(cache, "artifacts",
                                      [key |-> projects[p].key, artifact |-> new,
                                       interface |-> projects[p].interface])
                           ELSE cache
          ELSE UNCHANGED <<projects, cache>>
    /\ work' = [work EXCEPT !.at = @ + 1]
    /\ UNCHANGED <<files, hosts, previous, revision, required, focus, schedule,
                   overlays, inbox, outside, budget>>

EndCheck ==
    /\ work.kind = "lower" /\ work.at = Len(Order) + 1
    /\ work' = Idle /\ background' = TRUE
    /\ UNCHANGED <<files, session, cache, focus, needsRefresh, dirty, failed,
                   overlays, inbox, outside, budget>>

-----------------------------------------------------------------------------
(* The worker's messages.                                                  *)

\* Focusing a project that was taken from the cache asks for its sources.
Focus(p) ==
    /\ focus' = p
    /\ required' = IF p \in DOMAIN projects /\ projects[p].generation = None
                   THEN required \cup {p} ELSE required

\* set_overlay: the text before and after, and the files that leaves.
Overlaid(path, text) ==
    LET opened == IF text = None THEN Invalidate(files, {path}) ELSE files
        before == Effective(Kept(opened, path, disk), overlays[path])
        read == IF overlays[path] = None \/ text = None
                THEN ReadDisk(opened, path, disk) ELSE opened
        after == Effective(Kept(read, path, disk), text)
    IN [changed |-> before # after,
        files |-> IF before # after THEN ChangedOverlay(read, path) ELSE read]

Handle ==
    /\ work = Idle /\ inbox # <<>>
    /\ LET message == Head(inbox)
           edit == Overlaid(message.path, message.text)
           closed == message.text = None /\ overlays[message.path] = None
       IN IF message.kind = "files"
          THEN /\ files' = Invalidate(files, message.paths)
               /\ dirty' = TRUE
               /\ UNCHANGED <<overlays, focus, required>>
          ELSE IF closed
          THEN UNCHANGED <<files, dirty, overlays, focus, required>>
          ELSE /\ files' = edit.files
               /\ dirty' = (dirty \/ edit.changed
                            \/ (overlays[message.path] = None
                                  /\ message.text # None))
               /\ overlays' = [overlays EXCEPT ![message.path] = message.text]
               /\ IF message.text = None THEN UNCHANGED <<focus, required>>
                  ELSE Focus(ProjectOf[message.path])
    /\ inbox' = Tail(inbox)
    /\ UNCHANGED <<hosts, projects, previous, revision, cache, needsRefresh,
                   background, failed, work, outside, budget>>

StartEdit ==
    /\ work = Idle /\ inbox = <<>> /\ dirty
    /\ StartRefresh("edit")
    /\ UNCHANGED <<hosts, revision, required, cache, focus, schedule,
                   overlays, inbox, outside, budget>>

\* A request looks into a project, after a refresh if one is due.
Ask(p) ==
    /\ work = Idle /\ Spend("asks")
    /\ Focus(p)
    /\ IF dirty \/ needsRefresh
       THEN StartRefresh(IF dirty THEN "edit" ELSE "ask")
       ELSE UNCHANGED <<previous, projects, files, work>>
    /\ UNCHANGED <<hosts, revision, cache, schedule, overlays, inbox, outside>>

\* Going to a definition in a project taken from the cache asks for the
\* sources of all of these.
FollowDefinition ==
    /\ work = Idle /\ ~dirty /\ Spend("asks")
    /\ LET cached == {p \in DOMAIN projects : projects[p].generation = None}
       IN /\ cached # {}
          /\ required' = required \cup cached
    /\ StartRefresh("ask")
    /\ UNCHANGED <<hosts, revision, cache, focus, schedule, overlays, inbox,
                   outside>>

-----------------------------------------------------------------------------
(* The editor, the disk and the watcher.                                   *)

Worker == <<files, session, cache, focus, schedule, work>>

Type(path, text) ==
    /\ Spend("typings")
    /\ inbox' = Append(inbox, [kind |-> "edit", path |-> path, text |-> text,
                               paths |-> {}])
    /\ UNCHANGED <<Worker, overlays, outside>>

\* Another program replaces or removes a file; a watch on it reports that,
\* or the event is lost.
Save(path, text) ==
    /\ disk[path] # text
    /\ disk' = [disk EXCEPT ![path] = text]
    /\ \/ /\ Spend("saves")
          /\ commands' = IF path \in watcher.watches
                         THEN Append(commands, [kind |-> "event", path |-> path])
                         ELSE commands
       \/ /\ path \in watcher.watches
          /\ budget.saves > 0 /\ budget.losses > 0
          /\ budget' = [budget EXCEPT !.saves = @ - 1, !.losses = @ - 1]
          /\ UNCHANGED commands
    /\ UNCHANGED <<Worker, overlays, inbox, watcher>>

Watched(inputs) == {path \in Files : inputs[path] # Unread}

\* The inputs the watcher has when it has taken the first n commands.
Known(n) ==
    LET sent == {i \in 1..n : commands[i].kind = "inputs"}
    IN IF sent = {} THEN watcher.inputs
       ELSE commands[CHOOSE i \in sent : \A j \in sent : j <= i].inputs
\* The inputs it was last sent.
Sent == Known(Len(commands))

\* Mutant: new inputs are taken without reading them.
SelectedOnTrust(command, known) ==
    IF command.kind = "event" THEN {command.path} \cap Watched(known) ELSE {}

\* The paths a command selects: of new inputs all where they differ from what
\* the watcher knows; an event its own.
Selected(command, known) ==
    IF command.kind = "event" THEN {command.path} \cap Watched(known)
    ELSE {path \in Watched(command.inputs) : command.inputs[path] # known[path]}

\* All commands are taken.  The watches are in place before a file is read.
Drain ==
    /\ commands # <<>> /\ watcher.paths = {}
    /\ watcher' = [inputs |-> Sent,
                   paths |-> UNION {Selected(commands[i], Known(i - 1)) :
                                      i \in DOMAIN commands},
                   watches |-> Watched(Sent)]
    /\ commands' = <<>>
    /\ UNCHANGED <<Worker, disk, overlays, inbox, budget>>

Differing(paths) == {path \in paths \cap Watched(watcher.inputs) :
                       watcher.inputs[path] # disk[path]}

Report(paths) ==
    /\ watcher' = [watcher EXCEPT
         !.inputs = [path \in Files |-> IF path \in Differing(paths)
                                        THEN disk[path] ELSE @[path]],
         !.paths = {}, !.watches = Watched(watcher.inputs)]
    /\ inbox' = IF Differing(paths) = {} THEN inbox
                ELSE Append(inbox, [kind |-> "files", path |-> None,
                                    text |-> None, paths |-> Differing(paths)])
    /\ UNCHANGED <<Worker, disk, overlays, commands, budget>>

ReadChanged == watcher.paths # {} /\ Report(watcher.paths)

\* Every thirty seconds all the inputs are read.
Reconcile ==
    /\ watcher.paths = {} /\ commands = <<>> /\ Differing(Files) # {}
    /\ Report(Files)

\* The editor starts its language server again and opens its buffers in it.
Restart ==
    /\ Spend("restarts") /\ inbox = <<>>
    /\ files' = NothingRead
    /\ hosts' = [p \in Projects |-> 0]
    /\ projects' = NoProjects /\ previous' = NoProjects
    /\ revision' = 0 /\ required' = {} /\ focus' = Root
    /\ needsRefresh' = FALSE
    /\ dirty' = TRUE /\ background' = FALSE /\ failed' = FALSE
    /\ work' = Idle
    /\ watcher' = [inputs |-> [path \in Files |-> Unread], paths |-> {},
                   watches |-> {}]
    /\ commands' = <<>>
    /\ UNCHANGED <<disk, overlays, cache, inbox>>

WorkerStep == \/ Visit \/ Fail \/ Finish
              \/ StartCheck \/ LoadArtifacts \/ Lower \/ EndCheck
              \/ Handle \/ StartEdit
WatcherStep == Drain \/ ReadChanged

Step ==
    \/ WorkerStep \/ CancelVisit \/ CancelLowering
    \/ \E p \in Graph : Ask(p)
    \/ FollowDefinition
    \/ WatcherStep \/ Reconcile
    \/ \E path \in Files : \E text \in script.saves[path] : Save(path, text)
    \/ \E path \in Files : \E text \in script.typings[path] : Type(path, text)
    \/ Restart

Next == Step /\ UNCHANGED script

-----------------------------------------------------------------------------
(* What must hold.                                                         *)

Settled == work = Idle /\ ~dirty /\ ~needsRefresh
Snapshot == [path \in Files |-> Effective(files.disk[path], overlays[path])]

\* Whatever was reused, taken from the cache or left by cancelled refreshes,
\* a workspace with nothing due holds what analysing its files from scratch
\* gives: each project has the inputs loading it would read, with their
\* texts, and the interface these and its dependencies' interfaces have.
Coherent ==
    Settled /\ ~failed =>
      \A p \in Graph :
        /\ p \in DOMAIN projects
        /\ projects[p].inputs = Loaded(p, Snapshot)
        /\ projects[p].interface = Interface(projects[p].inputs, Imported(p))

\* The background check finds the sources of every project it has to lower,
\* analysed in the generation their host is in: the code expects the one and
\* asserts the other.
LoweringFindsItsAnalyses ==
    work.kind = "lower" =>
      \A p \in DOMAIN projects :
        projects[p].artifact = {} => projects[p].generation = hosts[p]

\* A text that is kept as acquired is a text that is watched, or about to be.
AcquiredAreWatched ==
    Settled => files.acquired \subseteq Watched(Sent)

Spec == Init /\ [][Next]_vars
\* The two threads run.  Events are enough, unless some are lost; then the timer
\* must run too.
FairSpec ==
    /\ Spec
    /\ WF_unscripted(WorkerStep) /\ WF_unscripted(WatcherStep)
    /\ WF_unscripted(script.budget.losses > 0 /\ Reconcile)
=============================================================================
