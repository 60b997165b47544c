----------------------------- MODULE MC_Caches -----------------------------
(***************************************************************************)
(* Both caches, one run for both.                                          *)
(***************************************************************************)
EXTENDS Caches, FiniteSets, TLC

CONSTANTS k1, k2, k3, p1, p2

\* Three requests that share a project.
MC_Reads == k1 :> {p1} @@ k2 :> {p1, p2} @@ k3 :> {p2}

\* Processes run side by side while one project is cached and edited, and also
\* with two compilers while nothing is; one after another while both projects
\* are cached and one of them is edited twice or either of them once.  Of what
\* the debugger reads, one project is edited.
OneProject ==
  /\ \A p \in Process : At(p) <= 1
  /\ \A x \in DOMAIN entries : Len(x.key) = 1
  /\ \A i \in Project \ {1} : disk[i] = 1
Alone == Cardinality({p \in Process : pc[p] # "idle"}) <= 1
Bounded ==
  /\ memoDisk[p2] = 1
  /\ \/ OneProject /\ OneCompiler
     \/ OneProject /\ edits = 0
     \/ Alone /\ OneCompiler /\ (edits <= 1 \/ disk[2] = 1)

Symmetry == Permutations(Process) \cup Permutations(Compiler) \cup Permutations(Thread)
=============================================================================
