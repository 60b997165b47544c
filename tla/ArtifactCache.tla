---------------------------- MODULE ArtifactCache ----------------------------
(***************************************************************************)
(* The cache of compiled dependencies (cli/src/cache.rs) as builds         *)
(* (GraphCompiler::visit of cli/src/lib.rs) and editors (Workspace::visit  *)
(* of cli/src/workspace.rs) share it.  Projects form a chain: project 1    *)
(* has no dependency, project i depends on project i - 1, and the root,    *)
(* which is never cached, depends on the last.                             *)
(*                                                                         *)
(* A key digests the compiler, the sources of the project and the key of   *)
(* its dependency; an artifact is a function of the compiler, the sources  *)
(* it was compiled from and the artifact it was compiled against.  Both    *)
(* are the sequence of compilers and sources that went into them, from the *)
(* bottom of the chain, so an entry is right exactly if it is equal to its *)
(* key.  That the digest has no collisions is assumed.                     *)
(***************************************************************************)
EXTENDS Naturals, Sequences

CONSTANTS
  Process,      \* builds and editors; one that has ended may start again
  Role,         \* what processes do: "build" or "editor"
  Compiler,     \* compilers a user has installed
  Depth,        \* length of the chain of dependencies
  Version,      \* contents the sources of a project may have, 1..n
  MaxEdits      \* a bound on edits

ASSUME RolesAreKnown == Role \subseteq {"build", "editor"}
ASSUME DepthIsPositive == Depth \in Nat \ {0}
ASSUME VersionsAreNumbers == Version \subseteq Nat
ASSUME EditsAreBounded == MaxEdits \in Nat

VARIABLES
  disk,       \* [Project -> contents of its sources]
  edits,
  directories,\* compilers whose directory in the cache exists
  entries,    \* the files: from paths to what they hold
  \* The state of a process.
  pc, role, compiler,
  keys,       \* keys of the projects visited so far, the current one's last
  got,        \* their artifacts
  acquired,   \* the contents an editor has read of the current project
  pruned,     \* ArtifactCache::pruned
  pruning,    \* what it is doing to the directories of other compilers
  temporary,  \* its temporary file exists
  \* What no code records.
  seen,       \* contents of each project since a process started
  undercut    \* keys of builds whose sources were edited before they were
              \* looked up or compiled

mine == <<role, compiler, keys, got, acquired, pruned>>
vars == <<disk, edits, directories, entries, pc, mine, pruning, temporary, seen, undercut>>

Project == 1..Depth
Unread == 0

\* The key or artifact of the dependency, with the compiler and the sources.
Digest(c, source, dependency) == Append(dependency, [compiler |-> c, source |-> source])
Torn == <<[compiler |-> "none", source |-> 0]>>   \* what no compiler wrote
CompilerOf(key) == key[Len(key)].compiler
Path(kind, key) == [kind |-> kind, key |-> key]

At(p) == Len(keys[p])                  \* the project p is at
Key(p) == keys[p][At(p)]
Child(s, i) == IF i = 1 THEN << >> ELSE s[i - 1]
Kind(p) == IF role[p] = "editor" THEN "interface" ELSE "artifact"
GoTo(p, step) == pc' = [pc EXCEPT ![p] = step]
Put(path, content) == [x \in DOMAIN entries \cup {path} |->
                        IF x = path THEN content ELSE entries[x]]
Spared == [c \in Compiler |-> "no"]
Without(paths) == [x \in DOMAIN entries \ paths |-> entries[x]]

Init ==
  /\ disk = [i \in Project |-> 1]
  /\ edits = 0
  /\ directories = {}
  /\ entries = << >>
  /\ pc = [p \in Process |-> "idle"]
  /\ role = [p \in Process |-> "build"]
  /\ compiler \in [Process -> Compiler]
  /\ keys = [p \in Process |-> << >>]
  /\ got = [p \in Process |-> << >>]
  /\ acquired = [p \in Process |-> Unread]
  /\ pruned = [p \in Process |-> FALSE]
  /\ pruning = [p \in Process |-> Spared]
  /\ temporary = [p \in Process |-> FALSE]
  /\ seen = [p \in Process |-> [i \in Project |-> {}]]
  /\ undercut = {}

Start(p, r) ==
  /\ pc[p] = "idle"
  /\ role' = [role EXCEPT ![p] = r]
  /\ seen' = [seen EXCEPT ![p] = [i \in Project |-> {disk[i]}]]
  /\ GoTo(p, "fingerprint")
  /\ UNCHANGED <<disk, edits, directories, entries, compiler, keys, got, acquired, pruned,
                 pruning, temporary>>

-----------------------------------------------------------------------------
(* Looking up *)

\* fingerprint reads the sources.  An editor keeps what it has read; a build
\* reads them again to compile them.
Fingerprint(p) ==
  LET i == At(p) + 1 IN
  /\ pc[p] = "fingerprint"
  /\ keys' = [keys EXCEPT
                ![p] = Append(@, Digest(compiler[p], disk[i], Child(keys[p], i)))]
  /\ acquired' = [acquired EXCEPT ![p] = IF role[p] = "editor" THEN disk[i] ELSE Unread]
  /\ GoTo(p, "load")
  /\ UNCHANGED <<disk, edits, directories, entries, role, compiler, got, pruned, pruning,
                 temporary, seen>>

\* What a path yields to the parser and the check of the header.
Readable(path) ==
  path \in DOMAIN entries /\ entries[path] # Torn /\ CompilerOf(entries[path]) = CompilerOf(path.key)

Hit(p, artifact, step) ==
  /\ got' = [got EXCEPT ![p] = Append(@, artifact)]
  /\ GoTo(p, step)
  /\ UNCHANGED <<disk, edits, directories, entries, role, compiler, keys, acquired,
                 pruned, pruning, temporary, seen>>

\* An editor is content with the interface.
Load(p) ==
  /\ pc[p] = "load" /\ Readable(Path(Kind(p), Key(p)))
  /\ Hit(p, entries[Path(Kind(p), Key(p))], "next")

\* It reads the artifact if there is none, and leaves the interface for next time.
LoadOlder(p) ==
  /\ pc[p] = "load" /\ role[p] = "editor"
  /\ ~Readable(Path("interface", Key(p))) /\ Readable(Path("artifact", Key(p)))
  /\ Hit(p, entries[Path("artifact", Key(p))], "prepare")

\* A miss; a file that cannot be read is one, too.
Miss(p) ==
  /\ pc[p] = "load"
  /\ GoTo(p, "compile")
  /\ UNCHANGED <<disk, edits, directories, entries, mine, pruning, temporary, seen>>

\* Mutant: an editor reads the sources again as well.
CompileRereading(p) ==
  /\ pc[p] = "compile"
  /\ got' = [got EXCEPT ![p] =
       Append(@, Digest(compiler[p], disk[At(p)], Child(got[p], At(p))))]
  /\ GoTo(p, "prepare")
  /\ UNCHANGED <<disk, edits, directories, entries, role, compiler, keys, acquired,
                 pruned, pruning, temporary, seen>>

\* compile_one, or the analysis of the files an editor has acquired.
Compile(p) ==
  LET i == At(p)
      source == IF role[p] = "editor" THEN acquired[p] ELSE disk[i]
  IN
  /\ pc[p] = "compile"
  /\ got' = [got EXCEPT ![p] = Append(@, Digest(compiler[p], source, Child(got[p], i)))]
  /\ acquired' = [acquired EXCEPT ![p] = Unread]
  /\ GoTo(p, "prepare")
  /\ UNCHANGED <<disk, edits, directories, entries, role, compiler, keys, pruned, pruning,
                 temporary, seen>>

-----------------------------------------------------------------------------
(* Storing *)

\* The directory of this compiler is created; the first time, those of other
\* compilers are listed and then removed.
Prepare(p) ==
  /\ pc[p] = "prepare"
  /\ directories' = directories \cup {compiler[p]}
  /\ pruned' = [pruned EXCEPT ![p] = TRUE]
  /\ pruning' = [pruning EXCEPT ![p] = [c \in Compiler |->
       IF ~pruned[p] /\ c \in directories \ {compiler[p]} THEN "listed" ELSE "no"]]
  /\ GoTo(p, "prune")
  /\ UNCHANGED <<disk, edits, entries, role, compiler, keys, got, acquired, temporary, seen>>

\* Files of another compiler are removed, among them one a process is writing.
PruneFiles(p, c) ==
  /\ pc[p] = "prune" /\ pruning[p][c] = "listed"
  /\ entries' = Without({x \in DOMAIN entries : CompilerOf(x.key) = c})
  /\ temporary' = [q \in Process |-> temporary[q] /\ compiler[q] # c]
  /\ pruning' = [pruning EXCEPT ![p][c] = "emptied"]
  /\ UNCHANGED <<disk, edits, directories, pc, mine, seen>>

\* The directory goes if nothing has appeared in it; an error is ignored.
PruneDirectory(p, c) ==
  /\ pc[p] = "prune" /\ pruning[p][c] = "emptied"
  /\ pruning' = [pruning EXCEPT ![p][c] = "no"]
  /\ \/ /\ \A x \in DOMAIN entries : CompilerOf(x.key) # c
        /\ \A q \in Process : temporary[q] => compiler[q] # c
        /\ directories' = directories \ {c}
     \/ UNCHANGED directories
  /\ UNCHANGED <<disk, edits, entries, pc, mine, temporary, seen>>

\* Mutant: the file is written in place.
CreateInPlace(p) ==
  /\ pc[p] = "prune" /\ pruning[p] = Spared
  /\ IF compiler[p] \in directories
     THEN /\ entries' = Put(Path(Kind(p), Key(p)), Torn)
          /\ temporary' = [temporary EXCEPT ![p] = TRUE]
          /\ GoTo(p, "rename")
     ELSE GoTo(p, "next") /\ UNCHANGED <<entries, temporary>>
  /\ UNCHANGED <<disk, edits, directories, mine, pruning, seen>>

\* replace_file writes a file of its own beside the destination.  Without the
\* directory it fails, and the cache is left alone.
Create(p) ==
  /\ pc[p] = "prune" /\ pruning[p] = Spared
  /\ IF compiler[p] \in directories
     THEN temporary' = [temporary EXCEPT ![p] = TRUE] /\ GoTo(p, "rename")
     ELSE GoTo(p, "next") /\ UNCHANGED temporary
  /\ UNCHANGED <<disk, edits, directories, entries, mine, pruning, seen>>

\* It is renamed into place, unless somebody has removed it.
Rename(p) ==
  /\ pc[p] = "rename"
  /\ entries' = IF temporary[p] THEN Put(Path(Kind(p), Key(p)), got[p][At(p)]) ELSE entries
  /\ temporary' = [temporary EXCEPT ![p] = FALSE]
  /\ GoTo(p, "next")
  /\ UNCHANGED <<disk, edits, directories, mine, pruning, seen>>

\* The directory or the file cannot be written: the cache is left alone.
StoreFails(p) ==
  /\ pc[p] \in {"prepare", "prune", "rename"}
  /\ pruning' = [pruning EXCEPT ![p] = Spared]
  /\ temporary' = [temporary EXCEPT ![p] = FALSE]
  /\ GoTo(p, "next")
  /\ UNCHANGED <<disk, edits, directories, entries, mine, seen>>

\* The next project of the chain, or the root.
Advance(p) ==
  /\ pc[p] = "next"
  /\ GoTo(p, IF At(p) < Depth THEN "fingerprint" ELSE "done")
  /\ UNCHANGED <<disk, edits, directories, entries, mine, pruning, temporary, seen>>

\* The process ends, or is killed; its temporary file stays and is never looked at.
Quit(p) ==
  /\ pc[p] # "idle"
  /\ GoTo(p, "idle")
  /\ role' = [role EXCEPT ![p] = "build"]
  /\ keys' = [keys EXCEPT ![p] = << >>]
  /\ got' = [got EXCEPT ![p] = << >>]
  /\ acquired' = [acquired EXCEPT ![p] = Unread]
  /\ pruned' = [pruned EXCEPT ![p] = FALSE]
  /\ pruning' = [pruning EXCEPT ![p] = Spared]
  /\ temporary' = [temporary EXCEPT ![p] = FALSE]
  /\ seen' = [seen EXCEPT ![p] = [i \in Project |-> {}]]
  /\ UNCHANGED <<disk, edits, directories, entries, compiler>>

-----------------------------------------------------------------------------
\* A build has read the sources of project i for its key and not for compiling.
Exposed(p, i) == pc[p] \in {"load", "compile"} /\ role[p] = "build" /\ At(p) = i

\* The user saves a source file at any moment, also with contents it had before.
Edit(i) ==
  /\ edits < MaxEdits
  /\ \E v \in Version :
       /\ v # disk[i]
       /\ disk' = [disk EXCEPT ![i] = v]
       /\ seen' = [p \in Process |->
                    IF pc[p] = "idle" THEN seen[p] ELSE [seen[p] EXCEPT ![i] = @ \cup {v}]]
  /\ edits' = edits + 1
  /\ undercut' = undercut \cup {Key(p) : p \in {q \in Process : Exposed(q, i)}}
  /\ UNCHANGED <<directories, entries, pc, mine, pruning, temporary>>

Work(p) ==
  \/ Fingerprint(p) \/ Load(p) \/ LoadOlder(p) \/ Miss(p) \/ Compile(p)
  \/ Prepare(p) \/ Create(p) \/ Rename(p) \/ StoreFails(p) \/ Advance(p)
  \/ \E c \in Compiler : PruneFiles(p, c) \/ PruneDirectory(p, c)

Next ==
  \/ (\E p \in Process : Work(p) \/ Quit(p) \/ \E r \in Role : Start(p, r)) /\ UNCHANGED undercut
  \/ \E i \in Project : Edit(i)

Spec == Init /\ [][Next]_vars

-----------------------------------------------------------------------------
(* Properties *)

\* An artifact is of the compiler and the sources its key says, one by one, but
\* for projects that were edited while a build was between its two readings of
\* them, under that very key.
Upto(key, i) == SubSeq(key, 1, i)
Follows(artifact, key) ==
  /\ Len(artifact) = Len(key)
  /\ \A i \in 1..Len(key) :
       /\ artifact[i].compiler = key[i].compiler
       /\ artifact[i].source = key[i].source \/ Upto(key, i) \in undercut

\* Whoever wrote, removed and replaced entries, and wherever writers died, every
\* entry is whole, is this compiler's, and is of the sources its key says, against
\* the artifact the key of its dependency says; what editors compile always is,
\* and what builds compile is unless somebody edited it just then.
EntriesMatchTheirKeys == \A x \in DOMAIN entries : Follows(entries[x], x.key)

\* Whatever is edited and undone meanwhile, what a process links is of its own
\* compiler and of sources that were there at some time while it ran, except for
\* projects under whose key some build was overtaken by an edit between
\* fingerprint and compile_one (cli/src/lib.rs:2340, 2347).
UsesSourcesUnlessUndercut ==
  \A p \in Process : pc[p] = "done" =>
    LET artifact == got[p][Depth]
    IN  /\ Len(artifact) = Depth
        /\ \A i \in Project :
             /\ artifact[i].compiler = compiler[p]
             /\ artifact[i].source \in seen[p][i] \/ Upto(keys[p][Depth], i) \in undercut

\* "A cached artifact is used only while all four are what they were"
\* (cli/src/cache.rs:6): what a process links is of sources that were there while
\* it ran, without exception.  The code does not keep this.
UsesSourcesOfItsTime ==
  \A p \in Process : pc[p] = "done" =>
    \A i \in Project : got[p][Depth][i].source \in seen[p][i]
=============================================================================
