---------------------------- MODULE WorkspaceKeys ----------------------------
(***************************************************************************)
(* What Workspace promises whose statement follows the dependencies of     *)
(* projects: of what is stored in the persistent cache, of the background  *)
(* check, and of an editor left alone.                                     *)
(***************************************************************************)
EXTENDS Workspace

\* The keys a key digests, and those these digest.
Digested(key) ==
    LET level[n \in 0..Len(Order)] ==
          IF n = 0 THEN {key} ELSE UNION {Range(k.deps) : k \in level[n - 1]}
    IN UNION {level[n] : n \in 0..Len(Order)}

\* What a key says of a path.
Says(print, path) == IF path \in DOMAIN print THEN print[path] ELSE Absent

\* The texts a key digests decide what is stored under it.
KeyInputs(key) == Loaded(key.project, [path \in Files |-> Says(key.print, path)])
KeyInterface(key) ==
    LET of[k \in Digested(key)] ==
          Interface(KeyInputs(k), [q \in DOMAIN k.deps |-> of[k.deps[q]]])
    IN of[key]
KeyArtifact(key) ==
    LET of[k \in Digested(key)] ==
          Artifact(KeyInputs(k), [q \in DOMAIN k.deps |-> of[k.deps[q]]])
    IN of[key]

\* An interface in the persistent cache is the one of the sources its key
\* digests, however old the texts a fingerprint read or the listing it used.
InterfacesAreKeyed ==
    \A e \in cache.interfaces : e.interface = KeyInterface(e.key)

\* And so is an artifact, with the artifacts of its dependencies: what
\* cache.rs says a key digests.
ArtifactsAreKeyed ==
    \A e \in cache.artifacts : e.artifact = KeyArtifact(e.key)

\* A background check that nothing interrupts has lowered every project when
\* it ends, in a graph without diagnostics.
BackgroundLowersTheGraph ==
    work.kind = "lower" /\ work.at = Len(Order) + 1
      /\ (\A p \in Graph : p \in DOMAIN projects /\ Clean(projects[p].inputs))
    => \A p \in Graph : projects[p].artifact # {}

\* What the disk and the open buffers say of a project.
OnDisk == [path \in Files |-> Effective(disk[path], overlays[path])]
DiskInterface(p) ==
    LET of[q \in Graph] == Interface(Loaded(q, OnDisk), [d \in Deps[q] |-> of[d]])
    IN of[p]
UpToDate ==
    IF \E p \in Graph : OnDisk[Main[p]] = Absent THEN failed
    ELSE /\ ~failed
         /\ \A p \in Graph : p \in DOMAIN projects
                                  /\ projects[p].interface = DiskInterface(p)

\* Once nobody saves, types or asks any more, the editor comes to show what is
\* on the disk and in its buffers, and keeps showing it.
SettlesOnTheDisk == <>[]UpToDate
=============================================================================
