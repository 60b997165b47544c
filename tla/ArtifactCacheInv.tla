-------------------------- MODULE ArtifactCacheInv --------------------------
(***************************************************************************)
(* The inductive invariant of ArtifactCache.  Its heart is a relation      *)
(* between keys and artifacts, which holds of all a process has taken and  *)
(* of all that is cached: they are equal, stamp by stamp, but for the      *)
(* projects under whose key a build was overtaken by an edit.              *)
(***************************************************************************)
EXTENDS ArtifactCache

Content == Version \cup {1}
Stamp == [compiler : Compiler, source : Content]
Steps == {"idle", "fingerprint", "load", "compile", "prepare", "prune", "rename", "next", "done"}

TypeInv ==
  /\ disk \in [Project -> Content]
  /\ pc \in [Process -> Steps]
  /\ role \in [Process -> {"build", "editor"}]
  /\ compiler \in [Process -> Compiler]
  /\ keys \in [Process -> Seq(Seq(Stamp))]
  /\ got \in [Process -> Seq(Seq(Stamp))]
  /\ acquired \in [Process -> Content \cup {Unread}]
  /\ seen \in [Process -> [Project -> SUBSET Content]]
  /\ \A x \in DOMAIN entries :
       /\ x \in [kind : {"artifact", "interface"}, key : Seq(Stamp)]
       /\ entries[x] \in Seq(Stamp)

\* How far a process has come: of the project it is looking up it has a key but
\* no artifact.
Lengths ==
  \A p \in Process :
    /\ Len(keys[p]) <= Depth
    /\ pc[p] \in {"load", "compile"} => Len(keys[p]) = Len(got[p]) + 1
    /\ pc[p] \notin {"load", "compile"} => Len(keys[p]) = Len(got[p])
    /\ pc[p] = "idle" => Len(keys[p]) = 0
    /\ pc[p] = "fingerprint" => Len(keys[p]) < Depth
    /\ pc[p] \in {"prepare", "prune", "rename", "next"} => Len(keys[p]) > 0
    /\ pc[p] = "done" => Len(keys[p]) = Depth

\* A process that runs has seen what is on the disk.
Seen == \A p \in Process : pc[p] # "idle" => \A i \in Project : disk[i] \in seen[p][i]

\* Keys are made of what a process has seen.
Stamped ==
  \A p \in Process : \A i \in 1..Len(keys[p]) :
    /\ Len(keys[p][i]) = i
    /\ \A j \in 1..i : /\ keys[p][i][j].compiler = compiler[p]
                       /\ keys[p][i][j].source \in seen[p][j]

\* The key of the project being looked up extends that of its dependency, with
\* what an editor has read, or with what a build will compile unless somebody
\* edits it first.
Current ==
  \A p \in Process : pc[p] \in {"load", "compile"} =>
    LET source == Key(p)[At(p)].source
    IN  /\ Key(p) = Digest(compiler[p], source, Child(keys[p], At(p)))
        /\ role[p] = "editor" => source = acquired[p]
        /\ role[p] # "editor" => source = disk[At(p)] \/ Key(p) \in undercut

AllFollow ==
  /\ \A p \in Process : \A i \in 1..Len(got[p]) : Follows(got[p][i], keys[p][i])
  /\ \A x \in DOMAIN entries : Len(x.key) \in 1..Depth /\ Follows(entries[x], x.key)

CacheInv == TypeInv /\ Lengths /\ Seen /\ Stamped /\ Current /\ AllFollow
=============================================================================
