-------------------------------- MODULE Caches --------------------------------
(***************************************************************************)
(* The two caches of compiled dependencies: that of the artifacts on disk, *)
(* and that of the graphs a debugger process remembers.  They share        *)
(* nothing; a behaviour is one of the one or one of the other.             *)
(***************************************************************************)
EXTENDS ArtifactCacheInv

CONSTANTS
  Thread, Request, Source, Reads, Capacity  \* of DependencyMemo

VARIABLES
  side,  \* "artifacts" or "graphs"
  memoDisk, memo, memoPc, asked, graph, digest, since, raced

memoVars == <<memoDisk, memo, memoPc, asked, graph, digest, since, raced>>

Memo == INSTANCE DependencyMemo WITH
  Project <- Source, disk <- memoDisk, pc <- memoPc

OneCompiler == \A p, q \in Process : compiler[p] = compiler[q]

CachesInit == /\ Init /\ Memo!Init
              /\ side \in {"artifacts", "graphs"}
              /\ side = "graphs" => OneCompiler
CachesNext ==
  \/ side = "artifacts" /\ Next /\ UNCHANGED memoVars
  \/ side = "graphs" /\ Memo!Next /\ UNCHANGED vars
CachesSpec == CachesInit /\ [][CachesNext /\ UNCHANGED side]_<<side, vars, memoVars>>

\* CAPACITY bounds what the process remembers, and an answer is of contents its
\* projects had while its request was at work, unless they were edited during the
\* compile that made it.
MemoIsRight == Memo!MemoIsRight

\* The same without the exception, which the memo claims and does not keep.
AnswersAreOfTheirTime == Memo!AnswersAreOfTheirTime
=============================================================================
