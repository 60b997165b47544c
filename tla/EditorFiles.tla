---------------------------- MODULE EditorFiles ----------------------------
(***************************************************************************)
(* The files an editor session has read (cli/src/workspace/files.rs): the  *)
(* text of each is kept until a notification drops it, so an edit does not *)
(* touch the disk.  A file is "acquired" once a module has asked for it,   *)
(* and only acquired files are watched; fingerprints also read files       *)
(* nobody watches, whose kept text may therefore be old.                   *)
(*                                                                         *)
(* The state is a record, and an operator returns the record a method of   *)
(* Files leaves.  A fingerprint is the very texts it digests: the hash is  *)
(* taken to be without collisions.  Symbolic links are left out: a path is *)
(* its own identity, and is already normalized.                            *)
(***************************************************************************)
CONSTANTS Files,      \* paths of source files, the absent ones included
          Projects,   \* project directories
          ProjectOf,  \* [Files -> Projects]: the directory a path lies in
          Texts,      \* contents of files
          None        \* no overlay; nothing kept

Absent == "absent"    \* what reading a missing file returns
Unread == "unread"    \* no text is kept

ASSUME FilesAssumption ==
    /\ ProjectOf \in [Files -> Projects]
    /\ {Absent, Unread, None} \cap Texts = {}

Contents == Texts \cup {Absent}
In(project) == {path \in Files : ProjectOf[path] = project}

\* Nothing read yet: what clear() leaves too.
NothingRead ==
    [disk |-> [path \in Files |-> Unread],
     listings |-> [project \in Projects |-> None],
     fingerprints |-> [project \in Projects |-> None],
     acquired |-> {}, pending |-> {},
     observed |-> [path \in Files |-> Unread]]

\* What a reader is given: the open buffer, or else the disk.
Effective(text, overlay) == IF overlay # None THEN overlay ELSE text

\* The text kept for a path, reading it now when none is.
Kept(files, path, disk) ==
    IF files.disk[path] = Unread THEN disk[path] ELSE files.disk[path]

ReadDisk(files, path, disk) ==
    [files EXCEPT !.disk[path] = Kept(files, path, disk)]

ChangedOverlay(files, path) ==
    [files EXCEPT !.fingerprints[ProjectOf[path]] = None]

\* The directory listing, once a first acquisition has seen for itself
\* which of some paths exist.
Relisted(listing, existing, missing) ==
    IF listing = None THEN None ELSE (listing \ missing) \cup existing

\* Reads of paths one after another, in any order: a read touches nothing
\* another path's depends on.  The first acquisition of a path drops the
\* text a fingerprint may have read while nobody watched the path, the
\* fingerprint and what the listing says of the path.
Read(files, paths, overlays, disk) ==
    LET first == paths \ files.acquired
        text(path) == IF path \in first THEN disk[path] ELSE Kept(files, path, disk)
        existing == {path \in first : Effective(disk[path], overlays[path]) # Absent}
    IN [disk |-> [path \in Files |->
                    IF path \in paths THEN text(path) ELSE files.disk[path]],
        observed |-> [path \in Files |->
                    IF path \in paths THEN text(path) ELSE files.observed[path]],
        acquired |-> files.acquired \cup paths,
        pending |-> files.pending \cup first,
        listings |-> [project \in Projects |->
                    Relisted(files.listings[project], existing \cap In(project),
                             (first \ existing) \cap In(project))],
        fingerprints |-> [project \in Projects |->
                    IF first \cap In(project) = {}
                    THEN files.fingerprints[project] ELSE None]]

\* What Read returns.
Source(files, path, overlays, disk) ==
    Effective(IF path \in files.acquired THEN Kept(files, path, disk)
              ELSE disk[path], overlays[path])

\* Mutant: what left the graph stays acquired.
RetainEverything(files) == [files EXCEPT !.pending = {}]

\* A completed refresh: only what it observed stays acquired.
RetainAcquired(files) ==
    [files EXCEPT !.acquired = {path \in @ : files.observed[path] # Unread},
                  !.pending = {}]

\* A cancelled refresh: what it was the first to acquire will be read again.
AbandonAcquired(files) ==
    [files EXCEPT !.acquired = @ \ files.pending, !.pending = {}]

\* What is known of some paths, and of their directories, is dropped.
Invalidate(files, paths) ==
    LET touched == {project \in Projects : paths \cap In(project) # {}}
    IN [files EXCEPT
          !.disk = [path \in Files |-> IF path \in paths THEN Unread ELSE @[path]],
          !.acquired = @ \ paths,
          !.listings = [project \in Projects |->
                          IF project \in touched THEN None ELSE @[project]],
          !.fingerprints = [project \in Projects |->
                          IF project \in touched THEN None ELSE @[project]]]

\* Enumerating a directory finds the files that exist.
Paths(files, project, disk) ==
    IF files.listings[project] # None THEN files.listings[project]
    ELSE {path \in In(project) : disk[path] # Absent}

\* The texts a project's key is a digest of.  One kept from before is
\* returned as it is.
Fingerprint(files, project, overlays, disk) ==
    IF files.fingerprints[project] # None THEN files.fingerprints[project]
    ELSE [path \in Paths(files, project, disk)
                     \cup {p \in In(project) : overlays[p] # None} |->
            Effective(Kept(files, path, disk), overlays[path])]

\* What Fingerprint leaves: it keeps the listing, the texts it read (those
\* without an overlay) and the digest.
Fingerprinted(files, project, overlays, disk) ==
    IF files.fingerprints[project] # None THEN files
    ELSE [files EXCEPT
            !.listings[project] = Paths(files, project, disk),
            !.fingerprints[project] =
                Fingerprint(files, project, overlays, disk),
            !.disk = [path \in Files |->
                        IF path \in Paths(files, project, disk)
                             /\ overlays[path] = None
                        THEN Kept(files, path, disk) ELSE @[path]]]
============================================================================
