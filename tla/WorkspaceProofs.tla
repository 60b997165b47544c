---------------------------- MODULE WorkspaceProofs ----------------------------
(***************************************************************************)
(* Theorems about the workspace, for any graph of projects, any texts and  *)
(* any number of edits, saves, requests, cancellations and restarts:       *)
(* WorkspaceInv is inductive in Quiet behaviours, KeysInv in Steady ones.  *)
(***************************************************************************)
EXTENDS WorkspaceInv, WellFoundedInduction, TLAPS

-----------------------------------------------------------------------------
(* Files.                                                                  *)

\* What reading on leaves of what was read: a path that is acquired and kept
\* stays so, with its text, and what was observed stays observed.
Keeps(fs, gs) ==
    \A path \in Files :
      /\ Holding(fs, path) => Holding(gs, path) /\ gs.disk[path] = fs.disk[path]
      /\ fs.observed[path] # Unread => gs.observed[path] # Unread

\* The paths are read, and the refresh has seen them.
Gathered(fs, paths) ==
    \A path \in paths : Holding(fs, path) /\ fs.observed[path] # Unread

\* No path is acquired anew.
Undisturbed(fs, gs) == gs.acquired = fs.acquired /\ gs.pending = fs.pending

LEMMA KeepsOn ==
  ASSUME NEW fs, NEW gs, NEW hs, Keeps(fs, gs), Keeps(gs, hs)
  PROVE  Keeps(fs, hs)
BY DEF Keeps

LEMMA TextsAreApart ==
  /\ Absent \notin Texts /\ Unread \notin Texts /\ None \notin Texts
  /\ Unread # Absent /\ Unread \notin Contents
BY FilesAssumption DEF Contents, Absent, Unread

\* What reading does, for the texts a disk that serves the cacheable projects
\* has.
Serves(dk) ==
    /\ dk \in [Files -> Contents]
    /\ \A p \in Cacheable : \A path \in In(p) : dk[path] = script.disk[path]

LEMMA ReadFacts ==
  ASSUME NEW fs, FilesOK(fs), NEW dk, Serves(dk), NEW ov \in [Files -> Texts \cup {None}],
         NEW paths \in SUBSET Files,
         NEW gs, gs = Read(fs, paths, ov, dk)
  PROVE  /\ FilesOK(gs) /\ Keeps(fs, gs) /\ Gathered(gs, paths)
         /\ \A path \in paths : Effective(gs.disk[path], ov[path]) = Source(fs, path, ov, dk)
         /\ paths \subseteq fs.acquired => Undisturbed(fs, gs)
<1>1. /\ gs.disk = [path \in Files |->
                     IF path \in paths
                     THEN IF path \in paths \ fs.acquired THEN dk[path] ELSE Kept(fs, path, dk)
                     ELSE fs.disk[path]]
      /\ gs.observed = [path \in Files |->
                     IF path \in paths
                     THEN IF path \in paths \ fs.acquired THEN dk[path] ELSE Kept(fs, path, dk)
                     ELSE fs.observed[path]]
      /\ gs.acquired = fs.acquired \cup paths
      /\ gs.pending = fs.pending \cup (paths \ fs.acquired)
      /\ gs = [disk |-> gs.disk, observed |-> gs.observed, acquired |-> gs.acquired,
               pending |-> gs.pending, listings |-> gs.listings,
               fingerprints |-> gs.fingerprints]
  BY DEF Read
<1>2. \A path \in Files : Kept(fs, path, dk) \in Contents
  BY DEF Kept, FilesOK, Sources, Serves
<1>3. \A path \in Files : dk[path] \in Contents
  BY DEF Serves
<1>4. gs.disk \in Sources /\ gs.observed \in Sources
  BY <1>1, <1>2, <1>3 DEF FilesOK, Sources
<1>5. \A p \in Cacheable : \A path \in In(p) :
        /\ path \in Files /\ dk[path] = script.disk[path]
        /\ fs.disk[path] \in {Unread, script.disk[path]}
  BY DEF FilesOK, Serves, In
<1>6. \A p \in Cacheable : \A path \in In(p) : gs.disk[path] \in {Unread, script.disk[path]}
  BY <1>1, <1>5 DEF Kept
<1>7. gs.acquired \subseteq Files /\ gs.pending \subseteq Files
  BY <1>1 DEF FilesOK
<1>8. FilesOK(gs)
  BY <1>1, <1>4, <1>6, <1>7 DEF FilesOK
<1>9. ASSUME NEW path \in paths
      PROVE  /\ path \in Files /\ path \in gs.acquired
             /\ gs.disk[path] \in Contents /\ gs.observed[path] \in Contents
             /\ gs.disk[path] # Unread /\ gs.observed[path] # Unread
  <2>1. path \in Files /\ path \in gs.acquired
    BY <1>1
  <2>2. gs.disk[path] = gs.observed[path] /\ gs.disk[path] \in {dk[path], Kept(fs, path, dk)}
    BY <1>1, <2>1
  <2> QED
    BY <1>2, <1>3, <2>1, <2>2, TextsAreApart
<1>10. Gathered(gs, paths)
  BY <1>9 DEF Gathered, Holding
<1>11. \A path \in Files : Holding(fs, path) => Holding(gs, path) /\ gs.disk[path] = fs.disk[path]
  BY <1>1 DEF Holding, Kept
<1>12. \A path \in Files : fs.observed[path] # Unread => gs.observed[path] # Unread
  BY <1>1, <1>9
<1>13. Keeps(fs, gs)
  BY <1>11, <1>12 DEF Keeps
<1>14. \A path \in paths : Effective(gs.disk[path], ov[path]) = Source(fs, path, ov, dk)
  BY <1>1 DEF Source
<1>15. paths \subseteq fs.acquired => Undisturbed(fs, gs)
  BY <1>1 DEF Undisturbed, FilesOK
<1> QED
  BY <1>8, <1>10, <1>13, <1>14, <1>15

LEMMA PrintFacts ==
  ASSUME NEW fs, FilesOK(fs), NEW dk, Serves(dk), NEW ov \in [Files -> Texts \cup {None}],
         NEW p, NEW gs, gs = Fingerprinted(fs, p, ov, dk)
  PROVE  /\ FilesOK(gs) /\ Keeps(fs, gs) /\ Undisturbed(fs, gs)
         /\ gs.observed = fs.observed
<1>1. CASE gs = fs
  BY <1>1 DEF Keeps, Undisturbed
<1>2. CASE gs # fs
  <2>1. /\ gs.disk = [path \in Files |-> IF path \in Paths(fs, p, dk) /\ ov[path] = None
                                         THEN Kept(fs, path, dk) ELSE fs.disk[path]]
        /\ gs.observed = fs.observed /\ gs.acquired = fs.acquired /\ gs.pending = fs.pending
        /\ gs = [disk |-> gs.disk, observed |-> gs.observed, acquired |-> gs.acquired,
                 pending |-> gs.pending, listings |-> gs.listings,
                 fingerprints |-> gs.fingerprints]
    BY <1>2 DEF Fingerprinted, FilesOK
  <2>2. \A path \in Files : Kept(fs, path, dk) \in Contents
    BY DEF Kept, FilesOK, Sources, Serves
  <2>3. gs.disk \in Sources
    BY <2>1, <2>2 DEF FilesOK, Sources
  <2>4. \A q \in Cacheable : \A path \in In(q) :
          /\ path \in Files /\ dk[path] = script.disk[path]
          /\ fs.disk[path] \in {Unread, script.disk[path]}
    BY DEF FilesOK, Serves, In
  <2>5. \A q \in Cacheable : \A path \in In(q) : gs.disk[path] \in {Unread, script.disk[path]}
    BY <2>1, <2>4 DEF Kept
  <2>6. FilesOK(gs)
    BY <2>1, <2>3, <2>5 DEF FilesOK
  <2>7. Keeps(fs, gs)
    BY <2>1 DEF Keeps, Holding, Kept
  <2> QED
    BY <2>1, <2>6, <2>7 DEF Undisturbed
<1> QED
  BY <1>1, <1>2

-----------------------------------------------------------------------------
(* The build.                                                              *)

LEMMA OrderFacts ==
  ASSUME script \in Scripts
  PROVE  /\ Order \in Seq(Projects) /\ Len(Order) \in Nat \ {0}
         /\ \A i, j \in 1..Len(Order) : Order[i] = Order[j] => i = j
         /\ Graph = {Order[i] : i \in 1..Len(Order)} /\ Graph \subseteq Projects
         /\ Root \in Graph
         /\ \A i \in 1..Len(Order) : Deps[Order[i]] \subseteq Before(i)
         /\ Cacheable \subseteq Projects
<1>1. /\ Order \in Seq(Projects) /\ Order # << >>
      /\ \A i, j \in 1..Len(Order) : Order[i] = Order[j] => i = j
      /\ \A i \in 1..Len(Order) : Deps[Order[i]] \subseteq Before(i)
      /\ Cacheable \subseteq Projects
  BY WorkspaceAssumption DEF Order, Deps, Before, Cacheable
<1>2. Len(Order) \in Nat \ {0} /\ DOMAIN Order = 1..Len(Order)
  BY <1>1
<1>3. Graph = {Order[i] : i \in 1..Len(Order)}
  BY <1>2 DEF Graph, Range
<1>4. Graph \subseteq Projects
  BY <1>1, <1>3
<1>5. Root \in Graph
  BY <1>1, <1>2, <1>3 DEF Root, Last
<1> QED
  BY <1>1, <1>2, <1>3, <1>4, <1>5

\* The projects visited before the n-th.
LEMMA BeforeFacts ==
  ASSUME script \in Scripts
  PROVE  /\ Before(1) = {} /\ Before(Len(Order) + 1) = Graph
         /\ \A n \in 1..Len(Order) :
              /\ Order[n] \in Graph \ Before(n)
              /\ Before(n + 1) = Before(n) \cup {Order[n]}
              /\ Before(n) \subseteq Graph
              /\ \A p \in Before(n) : Deps[p] \subseteq Before(n)
<1>1. Before(1) = {}
  BY DEF Before
<1>2. Before(Len(Order) + 1) = Graph
  BY OrderFacts DEF Before
<1>3. ASSUME NEW n \in 1..Len(Order)
      PROVE  /\ Order[n] \in Graph \ Before(n)
             /\ Before(n + 1) = Before(n) \cup {Order[n]}
             /\ Before(n) \subseteq Graph
             /\ \A p \in Before(n) : Deps[p] \subseteq Before(n)
  <2>1. n \in Nat /\ Len(Order) \in Nat
    BY OrderFacts
  <2>2. Order[n] \in Graph
    BY OrderFacts
  <2>3. \A i \in 1..(n - 1) : i \in 1..Len(Order) /\ i # n
    BY <2>1
  <2>4. Order[n] \notin Before(n)
    BY <2>3, OrderFacts DEF Before
  <2>5. 1..((n + 1) - 1) = 1..(n - 1) \cup {n}
    BY <2>1
  <2>6. Before(n + 1) = Before(n) \cup {Order[n]}
    BY <2>5 DEF Before
  <2>7. Before(n) \subseteq Graph
    BY <2>3, OrderFacts DEF Before
  <2>8. ASSUME NEW p \in Before(n) PROVE Deps[p] \subseteq Before(n)
    <3>1. PICK i \in 1..(n - 1) : p = Order[i]
      BY DEF Before
    <3>2. Deps[p] \subseteq Before(i)
      BY <3>1, <2>3, OrderFacts
    <3>3. 1..(i - 1) \subseteq 1..(n - 1)
      BY <2>1
    <3> QED
      BY <3>2, <3>3 DEF Before
  <2> QED
    BY <2>2, <2>4, <2>6, <2>7, <2>8
<1> QED
  BY <1>1, <1>2, <1>3

LEMMA DepsFacts ==
  ASSUME script \in Scripts, NEW p \in Graph
  PROVE  Deps[p] \subseteq Graph
<1>1. PICK i \in 1..Len(Order) : p = Order[i]
  BY OrderFacts
<1> QED
  BY <1>1, OrderFacts, BeforeFacts

-----------------------------------------------------------------------------
(* What loading reads.                                                     *)

Text(fs, ov) == [path \in Files |-> Effective(fs.disk[path], ov[path])]

LEMMA InputsFacts ==
  ASSUME NEW p \in Projects, NEW main \in Contents
  PROVE  Main[p] \in Inputs(p, main) /\ Inputs(p, main) \subseteq Files
BY WorkspaceAssumption DEF Inputs, Contents

\* Loading depends on what it reads.
LEMMA LoadedSame ==
  ASSUME NEW p \in Projects, NEW s, NEW t, NEW inputs, inputs = Loaded(p, s),
         \A path \in DOMAIN inputs : t[path] = s[path]
  PROVE  inputs = Loaded(p, t)
BY DEF Loaded, Inputs

LEMMA SourceHeld ==
  ASSUME NEW fs, NEW path \in Files, Holding(fs, path), NEW ov, NEW dk
  PROVE  Source(fs, path, ov, dk) = Text(fs, ov)[path]
BY DEF Source, Holding, Kept, Text

\* What is kept is the same to a reader.
LEMMA TextKept ==
  ASSUME NEW fs, NEW gs, Keeps(fs, gs), NEW path \in Files, Holding(fs, path), NEW ov
  PROVE  Text(gs, ov)[path] = Text(fs, ov)[path]
BY DEF Keeps, Text

LEMMA SourceIsText ==
  ASSUME NEW fs, FilesOK(fs), NEW dk, Serves(dk), NEW ov \in [Files -> Texts \cup {None}],
         NEW path \in Files
  PROVE  Source(fs, path, ov, dk) \in Contents
<1>1. dk[path] \in Contents /\ Kept(fs, path, dk) \in Contents
  BY DEF Kept, FilesOK, Sources, Serves
<1>2. ov[path] # None => ov[path] \in Contents
  BY DEF Contents
<1> QED
  BY <1>1, <1>2 DEF Source, Effective

\* A cacheable project is what it always was.
LEMMA SourceOfStandard ==
  ASSUME script \in Scripts, Quiet, NEW p \in Cacheable, NEW fs, FilesOK(fs), NEW dk, Serves(dk), NEW ov,
         \A path \in In(p) : ov[path] = None
  PROVE  /\ \A path \in In(p) : Source(fs, path, ov, dk) = script.disk[path]
         /\ Main[p] \in In(p) /\ DOMAIN Standard(p) \subseteq In(p)
         /\ DOMAIN Standard(p) = Inputs(p, script.disk[Main[p]])
<1>1. p \in Projects
  BY OrderFacts
<1>2. Main[p] \in In(p)
  BY <1>1, WorkspaceAssumption DEF In
<1>3. DOMAIN Standard(p) = Inputs(p, script.disk[Main[p]])
  BY DEF Standard, Loaded
<1>4. ASSUME NEW path \in In(p) PROVE Source(fs, path, ov, dk) = script.disk[path]
  BY <1>4 DEF FilesOK, Serves, Source, Effective, Kept
<1> QED
  BY <1>2, <1>3, <1>4 DEF Quiet

-----------------------------------------------------------------------------
(* A visit.                                                                *)

LEMMA StateFacts ==
  ASSUME TypeInv
  PROVE  /\ Serves(disk) /\ overlays \in [Files -> Texts \cup {None}] /\ FilesOK(files)
         /\ \A p \in Cacheable : \A path \in In(p) : overlays[path] = None
         /\ script \in Scripts /\ Quiet
BY DEF TypeInv, OutsideOK, SessionOK, WorkerOK, Serves

LEMMA AnalysisFacts ==
  ASSUME NEW p \in Projects, NEW a, NEW n, AnalysisOK(p, a, n)
  PROVE  /\ DOMAIN a.inputs = Inputs(p, a.inputs[Main[p]])
         /\ a.inputs[Main[p]] \in Contents
         /\ Main[p] \in DOMAIN a.inputs /\ DOMAIN a.inputs \subseteq Files
<1>1. a.inputs \in [Inputs(p, a.inputs[Main[p]]) -> Contents] /\ Main[p] \in DOMAIN a.inputs
  BY DEF AnalysisOK
<1>2. a.inputs[Main[p]] \in Contents
  BY <1>1
<1> QED
  BY <1>1, <1>2, InputsFacts

LEMMA VisitingFacts ==
  ASSUME WorkspaceInv, Busy("visit")
  PROVE  /\ Visiting \in Graph /\ Visiting \in Projects /\ Visiting \notin DOMAIN projects
         /\ work.at \in 1..Len(Order) /\ work.at + 1 \in 1..(Len(Order) + 1)
         /\ DOMAIN projects = Before(work.at) /\ DOMAIN projects \subseteq Graph
         /\ DOMAIN projects \cup {Visiting} = Before(work.at + 1)
         /\ Deps[Visiting] \subseteq DOMAIN projects
         /\ \A q \in DOMAIN projects : Deps[q] \subseteq DOMAIN projects
         /\ \A q \in DOMAIN projects : AnalysisOK(q, projects[q], revision)
         /\ \A q \in DOMAIN previous : q \in Graph /\ AnalysisOK(q, previous[q], revision)
<1>1. script \in Scripts /\ DOMAIN projects = Before(work.at) /\ work.at \in 1..Len(Order)
  BY DEF WorkspaceInv, TypeInv, OutsideOK, SessionOK, WorkerOK, Control, Busy
<1>2. /\ Visiting \in Graph /\ Visiting \in Projects /\ Visiting \notin DOMAIN projects
      /\ DOMAIN projects \subseteq Graph
      /\ DOMAIN projects \cup {Visiting} = Before(work.at + 1)
      /\ \A q \in DOMAIN projects : Deps[q] \subseteq DOMAIN projects
  BY <1>1, BeforeFacts, OrderFacts DEF Visiting
<1>3. Deps[Visiting] \subseteq DOMAIN projects
  BY <1>1, OrderFacts DEF Visiting
<1>4. work.at + 1 \in 1..(Len(Order) + 1)
  BY <1>1, OrderFacts
<1>5. \A q \in DOMAIN projects : q \in Graph /\ projects[q] \in Held(q)
  BY <1>2 DEF Held
<1>6. \A q \in DOMAIN previous : q \in Graph /\ previous[q] \in Held(q)
  BY DEF Held, WorkspaceInv, TypeInv, OutsideOK, SessionOK, WorkerOK
<1> QED
  BY <1>1, <1>2, <1>3, <1>4, <1>5, <1>6 DEF WorkspaceInv, Knowledge, AnalysesOK

\* In a refresh without news a visit finds what it found the last time.
LEMMA Calm ==
  ASSUME WorkspaceInv, Busy("visit"), ~dirty
  PROVE  /\ ~Closes /\ ~failed /\ files.pending = {}
         /\ Visiting \in DOMAIN previous
         /\ previous[Visiting].inputs = Loaded(Visiting, Text(files, overlays))
         /\ \A path \in DOMAIN previous[Visiting].inputs : Holding(files, path)
         /\ AnalysisOK(Visiting, previous[Visiting], revision)
<1>1. ~Closes /\ ~failed /\ files.pending = {}
  BY DEF WorkspaceInv, Control, Busy
<1>2. Visiting \in Graph /\ Visiting \in DOMAIN previous
  BY <1>1, VisitingFacts DEF WorkspaceInv, Current
<1>3. previous[Visiting] \in Held(Visiting)
  BY <1>2 DEF Held
<1>4. Text(files, overlays) = Snapshot
  BY DEF Text, Snapshot
<1>5. /\ previous[Visiting].inputs = Loaded(Visiting, Text(files, overlays))
      /\ \A path \in DOMAIN previous[Visiting].inputs : Holding(files, path)
  BY <1>1, <1>2, <1>3, <1>4 DEF WorkspaceInv, Current
<1> QED
  BY <1>1, <1>2, <1>5, VisitingFacts

\* The paths a reuse test reads are among the inputs.
LEMMA TestedFacts ==
  ASSUME WorkspaceInv, Busy("visit"), NEW fs \in TestedReuse(Visiting)
  PROVE  /\ FilesOK(fs) /\ Keeps(files, fs)
         /\ ~dirty => Undisturbed(files, fs)
<1>1. TypeInv
  BY DEF WorkspaceInv
<1>2. CASE fs = files
  BY <1>1, <1>2, StateFacts DEF Keeps, Undisturbed
<1>3. CASE fs # files
  <2>1. PICK path \in DOMAIN previous[Visiting].inputs \ Same(Visiting), same \in SUBSET Same(Visiting) :
          fs = ReadBy(files, same \cup {path})
    BY <1>3 DEF TestedReuse
  <2>2. Visiting \in DOMAIN previous
    BY <1>3 DEF TestedReuse, ReuseThought
  <2>3. DOMAIN previous[Visiting].inputs \subseteq Files
    BY <2>2, VisitingFacts, AnalysisFacts
  <2>4. same \cup {path} \subseteq DOMAIN previous[Visiting].inputs
    BY DEF Same
  <2>5. same \cup {path} \in SUBSET Files
    BY <2>3, <2>4
  <2>6. /\ FilesOK(fs) /\ Keeps(files, fs)
        /\ same \cup {path} \subseteq files.acquired => Undisturbed(files, fs)
    BY <1>1, <2>1, <2>5, StateFacts, ReadFacts DEF ReadBy
  <2>7. ~dirty => same \cup {path} \subseteq files.acquired
    BY <2>4, Calm DEF Holding
  <2> QED
    BY <2>6, <2>7
<1> QED
  BY <1>2, <1>3

\* An interface found in the cache is that of a project that is what it always
\* was.
LEMMA FoundFacts ==
  ASSUME WorkspaceInv, NEW p, MayUseCache(p), NEW key, key.project = p,
         NEW i \in StoredInterfaces(key)
  PROVE  /\ p \in Cacheable /\ p \notin required
         /\ i = StandardInterface(p) /\ script.disk[Main[p]] # Absent
<1>1. PICK e \in cache.interfaces \cup cache.artifacts : e.key = key /\ i = e.interface
  BY DEF StoredInterfaces, Stored
<1>2. e.key.project \in Cacheable /\ script.disk[Main[e.key.project]] # Absent
      /\ e.interface = StandardInterface(e.key.project)
  BY DEF WorkspaceInv, TypeInv, OutsideOK, SessionOK, WorkerOK, CacheOK
<1> QED
  BY <1>1, <1>2 DEF MayUseCache

LEMMA AcquireFacts ==
  ASSUME WorkspaceInv, NEW p \in Cacheable, NEW key, key.project = p, NEW fs, FilesOK(fs)
  PROVE  Acquire(p, key, fs) = DOMAIN Standard(p)
<1>1. TypeInv
  BY DEF WorkspaceInv
<1>2. \A path \in In(p) : Source(fs, path, overlays, disk) = script.disk[path]
  BY <1>1, StateFacts, SourceOfStandard
<1>3. Main[p] \in In(p) /\ DOMAIN Standard(p) = Inputs(p, script.disk[Main[p]])
  BY <1>1, StateFacts, SourceOfStandard
<1>4. Inputs(p, SourcesOf(fs)[Main[p]]) = DOMAIN Standard(p)
  BY <1>2, <1>3 DEF SourcesOf, In
<1>5. \A e \in Stored("inputs", key) : e.paths = DOMAIN Standard(p)
  BY <1>1 DEF TypeInv, OutsideOK, SessionOK, WorkerOK, CacheOK, Stored
<1>6. CASE Stored("inputs", key) # {}
  <2>1. {e.paths : e \in Stored("inputs", key)} = {DOMAIN Standard(p)}
    BY <1>5, <1>6
  <2> QED
    BY <1>6, <2>1 DEF Acquire
<1> QED
  BY <1>4, <1>6 DEF Acquire

LEMMA KeyProject ==
  ASSUME NEW p, NEW fs
  PROVE  KeyOf(p, fs).project = p
BY DEF KeyOf

LEMMA LookFacts ==
  ASSUME WorkspaceInv, Busy("visit"), NEW look \in Looked(Visiting)
  PROVE  /\ FilesOK(look.files) /\ Keeps(files, look.files) /\ CacheOK(look.cache)
         /\ ~dirty => Undisturbed(files, look.files)
         /\ look.key.project = Visiting
         /\ look.interface # None =>
              /\ Visiting \in Cacheable /\ Visiting \notin required
              /\ look.interface = StandardInterface(Visiting)
              /\ look.paths = DOMAIN Standard(Visiting)
              /\ script.disk[Main[Visiting]] # Absent
              /\ Gathered(look.files, look.paths)
<1> DEFINE p == Visiting
<1>1. TypeInv /\ CacheOK(cache)
  BY DEF WorkspaceInv, TypeInv, OutsideOK, SessionOK, WorkerOK
<1>2. PICK fs \in TestedReuse(p) :
        look = LET tested == Printed(p, fs)
                   key == KeyOf(p, tested)
                   found == IF MayUseCache(p) THEN StoredInterfaces(key) ELSE {}
                   paths == Acquire(p, key, tested)
                   read == ReadBy(tested, paths)
                   migrated == {[key |-> key, interface |-> i] : i \in found}
               IN IF found = {}
                  THEN [files |-> tested, cache |-> cache, interface |-> None,
                        key |-> key, paths |-> {}]
                  ELSE [files |-> Printed(p, read),
                        cache |-> [cache EXCEPT !.interfaces = @ \cup migrated],
                        interface |-> IF KeyOf(p, read) = key
                                      THEN CHOOSE i \in found : TRUE ELSE None,
                        key |-> key, paths |-> paths]
  BY DEF Looked
<1>3. PICK tested : tested = Printed(p, fs)
  OBVIOUS
<1>4. PICK key : key = KeyOf(p, tested)
  OBVIOUS
<1>5. PICK found : found = IF MayUseCache(p) THEN StoredInterfaces(key) ELSE {}
  OBVIOUS
<1>6. PICK paths : paths = Acquire(p, key, tested)
  OBVIOUS
<1>7. PICK read : read = ReadBy(tested, paths)
  OBVIOUS
<1>8. PICK migrated : migrated = {[key |-> key, interface |-> i] : i \in found}
  OBVIOUS
<1>9. look = IF found = {}
             THEN [files |-> tested, cache |-> cache, interface |-> None,
                   key |-> key, paths |-> {}]
             ELSE [files |-> Printed(p, read),
                   cache |-> [cache EXCEPT !.interfaces = @ \cup migrated],
                   interface |-> IF KeyOf(p, read) = key
                                 THEN CHOOSE i \in found : TRUE ELSE None,
                   key |-> key, paths |-> paths]
  BY <1>2, <1>3, <1>4, <1>5, <1>6, <1>7, <1>8
<1>10. FilesOK(fs) /\ Keeps(files, fs) /\ (~dirty => Undisturbed(files, fs))
  BY TestedFacts
<1>11. FilesOK(tested) /\ Keeps(fs, tested) /\ Undisturbed(fs, tested)
  BY <1>1, <1>3, <1>10, StateFacts, PrintFacts DEF Printed
<1>12. Keeps(files, tested) /\ (~dirty => Undisturbed(files, tested))
  BY <1>10, <1>11, KeepsOn DEF Undisturbed
<1>13. key.project = p
  BY <1>4, KeyProject
<1>14. CASE found = {}
  BY <1>1, <1>9, <1>11, <1>12, <1>13, <1>14
<1>15. CASE found # {}
  <2>1. MayUseCache(p)
    BY <1>5, <1>15
  <2>2. \A i \in found : i = StandardInterface(p)
    BY <1>5, <1>13, <2>1, FoundFacts
  <2>3. p \in Cacheable /\ p \notin required /\ script.disk[Main[p]] # Absent
    BY <1>5, <1>13, <1>15, <2>1, FoundFacts
  <2>4. paths = DOMAIN Standard(p)
    BY <1>6, <1>11, <1>13, <2>3, AcquireFacts
  <2>5. paths \in SUBSET Files
    BY <1>1, <1>11, <2>3, <2>4, StateFacts, SourceOfStandard DEF In
  <2>6. /\ FilesOK(read) /\ Keeps(tested, read) /\ Gathered(read, paths)
        /\ paths \subseteq tested.acquired => Undisturbed(tested, read)
    BY <1>1, <1>7, <1>11, <2>5, StateFacts, ReadFacts DEF ReadBy
  <2>7. /\ FilesOK(Printed(p, read)) /\ Keeps(read, Printed(p, read))
        /\ Undisturbed(read, Printed(p, read))
    BY <1>1, <2>6, StateFacts, PrintFacts DEF Printed
  <2>8. look = [files |-> Printed(p, read),
                cache |-> [cache EXCEPT !.interfaces = @ \cup migrated],
                interface |-> IF KeyOf(p, read) = key
                              THEN CHOOSE i \in found : TRUE ELSE None,
                key |-> key, paths |-> paths]
    BY <1>9, <1>15
  <2>9. FilesOK(look.files) /\ Keeps(files, look.files)
    BY <1>12, <2>6, <2>7, <2>8, KeepsOn
  <2>10. ~dirty => Undisturbed(files, look.files)
    <3>1. SUFFICES ASSUME ~dirty PROVE Undisturbed(files, look.files)
      OBVIOUS
    <3>2. DOMAIN previous[p].inputs = paths
      BY <3>1, <2>3, <2>4, Calm DEF AnalysisOK
    <3>3. paths \subseteq files.acquired
      BY <3>1, <3>2, Calm DEF Holding
    <3> QED
      BY <3>1, <3>3, <1>12, <2>6, <2>7, <2>8 DEF Undisturbed
  <2>11. CacheOK(look.cache)
    <3>1. look.cache = [interfaces |-> cache.interfaces \cup migrated,
                        inputs |-> cache.inputs, artifacts |-> cache.artifacts]
      BY <1>1, <2>8 DEF CacheOK
    <3>2. \A e \in migrated : /\ e.key.project \in Cacheable
                              /\ script.disk[Main[e.key.project]] # Absent
                              /\ e.interface = StandardInterface(e.key.project)
      BY <1>8, <1>13, <2>2, <2>3
    <3>3. look.cache.interfaces \cup look.cache.artifacts
            = migrated \cup (cache.interfaces \cup cache.artifacts)
      BY <3>1
    <3>4. /\ look.cache = [interfaces |-> look.cache.interfaces,
                           inputs |-> look.cache.inputs, artifacts |-> look.cache.artifacts]
          /\ look.cache.inputs = cache.inputs
      BY <3>1
    <3> QED
      BY <1>1, <3>2, <3>3, <3>4 DEF CacheOK
  <2>12. Gathered(look.files, look.paths)
    BY <2>5, <2>6, <2>7, <2>8 DEF Gathered, Keeps
  <2>13. look.interface # None => look.interface = StandardInterface(p)
    BY <1>15, <2>2, <2>8
  <2> QED
    BY <1>13, <2>3, <2>4, <2>8, <2>9, <2>10, <2>11, <2>12, <2>13
<1> QED
  BY <1>14, <1>15

\* What depends on the script alone stays.
LEMMA ScriptKept ==
  ASSUME UNCHANGED script
  PROVE  /\ Order' = Order /\ Graph' = Graph /\ Deps' = Deps /\ Cacheable' = Cacheable
         /\ Root' = Root
         /\ Closes' <=> Closes
         /\ Quiet' <=> Quiet
         /\ \A n : Before(n)' = Before(n)
         /\ \A p : Standard(p)' = Standard(p) /\ StandardInterface(p)' = StandardInterface(p)
         /\ \A p, a, n : AnalysisOK(p, a, n)' <=> AnalysisOK(p, a, n)
         /\ \A fs : FilesOK(fs)' <=> FilesOK(fs)
         /\ \A kept : CacheOK(kept)' <=> CacheOK(kept)
<1>1. /\ Order' = Order /\ Graph' = Graph /\ Deps' = Deps /\ Cacheable' = Cacheable
      /\ Root' = Root
  BY DEF Order, Graph, Deps, Cacheable, Root
<1>2. (Closes' <=> Closes) /\ (Quiet' <=> Quiet)
  BY DEF Closes, Quiet, Cacheable
<1>3. \A n : Before(n)' = Before(n)
  BY DEF Before, Order
<1>4. \A p : Standard(p)' = Standard(p) /\ StandardInterface(p)' = StandardInterface(p)
  BY DEF Standard, StandardInterface
<1>5. \A p, a, n : AnalysisOK(p, a, n)' <=> AnalysisOK(p, a, n)
  BY <1>1, <1>4 DEF AnalysisOK
<1>6. \A fs : FilesOK(fs)' <=> FilesOK(fs)
  BY <1>1 DEF FilesOK
<1>7. \A kept : CacheOK(kept)' <=> CacheOK(kept)
  BY <1>1, <1>4 DEF CacheOK
<1> QED
  BY <1>1, <1>2, <1>3, <1>4, <1>5, <1>6, <1>7

-----------------------------------------------------------------------------
(* What a visit finds.                                                     *)

\* An analysis reads the project's texts, and they stay read.
LEMMA AnalysedFacts ==
  ASSUME WorkspaceInv, Busy("visit"),
         NEW fs, FilesOK(fs), Keeps(files, fs), ~dirty => Undisturbed(files, fs),
         NEW new, new = Analysed(Visiting, fs),
         NEW read, read = ReadBy(fs, DOMAIN new.inputs)
  PROVE  /\ Main[Visiting] \in DOMAIN new.inputs
         /\ new.inputs \in [Inputs(Visiting, new.inputs[Main[Visiting]]) -> Contents]
         /\ new.inputs = Loaded(Visiting, Text(new.files, overlays))
         /\ Gathered(new.files, DOMAIN new.inputs)
         /\ FilesOK(read) /\ Keeps(files, read) /\ (~dirty => Undisturbed(files, read))
         /\ FilesOK(new.files) /\ Keeps(files, new.files)
         /\ ~dirty => Undisturbed(files, new.files)
         /\ new.key.project = Visiting
         /\ Visiting \in Cacheable => new.inputs = Standard(Visiting)
         /\ ~dirty => new.inputs = previous[Visiting].inputs
<1> DEFINE p == Visiting
<1>1. TypeInv
  BY DEF WorkspaceInv
<1>2. p \in Projects
  BY VisitingFacts
<1>3. /\ new.inputs = Loaded(p, SourcesOf(fs))
      /\ new.files = Printed(p, read)
      /\ new.key = KeyOf(p, read)
  BY DEF Analysed
<1>4. \A path \in Files : SourcesOf(fs)[path] \in Contents
  BY <1>1, StateFacts, SourceIsText DEF SourcesOf
<1>5. Main[p] \in Files
  BY <1>2, WorkspaceAssumption
<1>6. /\ Main[p] \in DOMAIN new.inputs /\ DOMAIN new.inputs \subseteq Files
      /\ DOMAIN new.inputs = Inputs(p, SourcesOf(fs)[Main[p]])
      /\ \A path \in DOMAIN new.inputs : new.inputs[path] = SourcesOf(fs)[path]
      /\ new.inputs = [path \in DOMAIN new.inputs |-> new.inputs[path]]
  BY <1>2, <1>3, <1>4, <1>5, InputsFacts DEF Loaded
<1>7. new.inputs \in [Inputs(p, new.inputs[Main[p]]) -> Contents]
  BY <1>4, <1>6
<1>8. DOMAIN new.inputs \in SUBSET Files
  BY <1>6
<1>9. /\ FilesOK(read) /\ Keeps(fs, read) /\ Gathered(read, DOMAIN new.inputs)
      /\ \A path \in DOMAIN new.inputs :
           Effective(read.disk[path], overlays[path]) = Source(fs, path, overlays, disk)
      /\ DOMAIN new.inputs \subseteq fs.acquired => Undisturbed(fs, read)
  BY <1>1, <1>8, StateFacts, ReadFacts DEF ReadBy
<1>10. /\ FilesOK(new.files) /\ Keeps(read, new.files) /\ Undisturbed(read, new.files)
       /\ new.files.observed = read.observed
  BY <1>1, <1>3, <1>9, StateFacts, PrintFacts DEF Printed
<1>11. Keeps(files, read) /\ Keeps(files, new.files)
  BY <1>9, <1>10, KeepsOn
<1>12. Gathered(new.files, DOMAIN new.inputs)
  BY <1>8, <1>9, <1>10 DEF Gathered, Keeps
<1>13. \A path \in DOMAIN new.inputs : Text(read, overlays)[path] = SourcesOf(fs)[path]
  <2>1. \A path \in DOMAIN new.inputs :
          Text(read, overlays)[path] = Source(fs, path, overlays, disk)
    BY <1>6, <1>9 DEF Text
  <2>2. \A path \in Files : SourcesOf(fs)[path] = Source(fs, path, overlays, disk)
    BY DEF SourcesOf
  <2> QED
    BY <1>6, <2>1, <2>2
<1>14. new.inputs = Loaded(p, Text(read, overlays))
  BY <1>2, <1>3, <1>13, LoadedSame
<1>15. \A path \in DOMAIN new.inputs : Text(new.files, overlays)[path] = Text(read, overlays)[path]
  BY <1>8, <1>9, <1>10, TextKept DEF Gathered
<1>16. new.inputs = Loaded(p, Text(new.files, overlays))
  BY <1>2, <1>14, <1>15, LoadedSame
<1>17. p \in Cacheable => new.inputs = Standard(p)
  <2>1. SUFFICES ASSUME p \in Cacheable PROVE new.inputs = Standard(p)
    OBVIOUS
  <2>2. /\ \A path \in In(p) : Source(fs, path, overlays, disk) = script.disk[path]
        /\ DOMAIN Standard(p) \subseteq In(p)
    BY <1>1, <2>1, StateFacts, SourceOfStandard
  <2>3. \A path \in DOMAIN Standard(p) : SourcesOf(fs)[path] = script.disk[path]
    BY <2>2 DEF SourcesOf, In
  <2>4. PICK standard : standard = Standard(p)
    OBVIOUS
  <2>5. standard = Loaded(p, script.disk)
    BY <2>4 DEF Standard
  <2>6. standard = Loaded(p, SourcesOf(fs))
    BY <1>2, <2>3, <2>4, <2>5, LoadedSame
  <2> QED
    BY <1>3, <2>4, <2>6
<1>18. ASSUME ~dirty
       PROVE  /\ new.inputs = previous[p].inputs
              /\ Undisturbed(files, read) /\ Undisturbed(files, new.files)
  <2>1. PICK old : old = previous[p].inputs
    OBVIOUS
  <2>2. /\ old = Loaded(p, Text(files, overlays)) /\ DOMAIN old \subseteq Files
        /\ \A path \in DOMAIN old : Holding(files, path)
    BY <1>2, <1>18, <2>1, Calm, AnalysisFacts
  <2>3. \A path \in DOMAIN old : Holding(fs, path)
    BY <2>2 DEF Keeps
  <2>4. \A path \in DOMAIN old : SourcesOf(fs)[path] = Text(fs, overlays)[path]
    BY <2>2, <2>3, SourceHeld DEF SourcesOf
  <2>5. \A path \in DOMAIN old : Text(fs, overlays)[path] = Text(files, overlays)[path]
    BY <2>2, TextKept
  <2>6. old = Loaded(p, SourcesOf(fs))
    BY <1>2, <2>2, <2>4, <2>5, LoadedSame
  <2>7. new.inputs = old
    BY <1>3, <2>6
  <2>8. DOMAIN new.inputs \subseteq fs.acquired
    BY <2>3, <2>7 DEF Holding
  <2> QED
    BY <1>9, <1>10, <1>18, <2>1, <2>7, <2>8 DEF Undisturbed
<1> QED
  BY <1>3, <1>6, <1>7, <1>9, <1>10, <1>11, <1>12, <1>16, <1>17, <1>18, KeyProject

\* So does a reused analysis.
LEMMA ReusedFacts ==
  ASSUME WorkspaceInv, Busy("visit"), Reusable(Visiting),
         NEW fs, fs = ReadBy(files, DOMAIN previous[Visiting].inputs)
  PROVE  /\ FilesOK(fs) /\ Keeps(files, fs) /\ (~dirty => Undisturbed(files, fs))
         /\ previous[Visiting].inputs = Loaded(Visiting, Text(fs, overlays))
         /\ Gathered(fs, DOMAIN previous[Visiting].inputs)
<1>1. TypeInv
  BY DEF WorkspaceInv
<1>2. /\ Visiting \in Projects /\ Visiting \in DOMAIN previous
      /\ AnalysisOK(Visiting, previous[Visiting], revision)
  BY VisitingFacts DEF Reusable, ReuseThought
<1>3. PICK old : old = previous[Visiting].inputs
  OBVIOUS
<1>4. DOMAIN old \in SUBSET Files /\ Main[Visiting] \in DOMAIN old
      /\ old \in [Inputs(Visiting, old[Main[Visiting]]) -> Contents]
  BY <1>2, <1>3, AnalysisFacts DEF AnalysisOK
<1>5. /\ FilesOK(fs) /\ Keeps(files, fs) /\ Gathered(fs, DOMAIN old)
      /\ \A path \in DOMAIN old :
           Effective(fs.disk[path], overlays[path]) = Source(files, path, overlays, disk)
      /\ DOMAIN old \subseteq files.acquired => Undisturbed(files, fs)
  BY <1>1, <1>3, <1>4, StateFacts, ReadFacts DEF ReadBy
<1>6. ~dirty => DOMAIN old \subseteq files.acquired
  BY <1>3, Calm DEF Holding
<1>7. \A path \in DOMAIN old : old[path] = Text(fs, overlays)[path]
  <2>1. \A path \in DOMAIN old : old[path] = SourcesOf(files)[path]
    BY <1>3 DEF Reusable, Same
  <2>2. \A path \in DOMAIN old :
          Text(fs, overlays)[path] = Source(files, path, overlays, disk)
    BY <1>4, <1>5 DEF Text
  <2>3. \A path \in Files : SourcesOf(files)[path] = Source(files, path, overlays, disk)
    BY DEF SourcesOf
  <2> QED
    BY <1>4, <2>1, <2>2, <2>3
<1>8. old = Loaded(Visiting, Text(fs, overlays))
  BY <1>4, <1>7 DEF Loaded
<1> QED
  BY <1>3, <1>5, <1>6, <1>8

\* What the three ways to visit a project have in common: `a` is recorded, of
\* texts that are read in `fs`; it is like the analysis of before or its
\* interface follows from what it imports.
Records(a, fs) ==
    /\ Publish(Visiting, a, fs)
    /\ FilesOK(fs) /\ Keeps(files, fs) /\ (~dirty => Undisturbed(files, fs))
    /\ CacheOK(cache')
    /\ hosts' \in [Projects -> Nat]
    /\ \A q \in Projects : q # Visiting => hosts'[q] = hosts[q]
    /\ previous' = [q \in DOMAIN previous' |-> previous[q]]
    /\ DOMAIN previous' \in {DOMAIN previous, DOMAIN previous \ {Visiting}}
    /\ UNCHANGED <<required, focus, schedule, overlays, inbox, outside, budget>>
    /\ a.inputs = Loaded(Visiting, Text(fs, overlays))
    /\ Gathered(fs, DOMAIN a.inputs)
    /\ a.deps = Revisions(Visiting)
    /\ a.generation \in {None, hosts'[Visiting]}
    /\ AnalysisOK(Visiting, a, revision')
    /\ revision' \in Nat /\ revision <= revision'
    /\ \/ Visiting \in DOMAIN previous /\ Like(a, previous[Visiting])
       \/ /\ a.interface = Interface(a.inputs, Imported(Visiting))
          /\ a.revision = RevisionFor(Visiting, a.interface)
    /\ work.for = "lower" /\ a.generation = None => a.artifact # {}

LEMMA ReuseRecords ==
  ASSUME WorkspaceInv, Busy("visit"), Reuse(Visiting)
  PROVE  \E a, fs : Records(a, fs)
<1>1. TypeInv
  BY DEF WorkspaceInv
<1>2. PICK old : old = previous[Visiting]
  OBVIOUS
<1>3. PICK a : a = [old EXCEPT !.focus = @ \/ (Focused(Visiting) /\ old.generation # None)]
  OBVIOUS
<1>4. PICK fs : fs = ReadBy(files, DOMAIN old.inputs)
  OBVIOUS
<1>5. /\ Reusable(Visiting) /\ Publish(Visiting, a, fs)
      /\ previous' = [q \in DOMAIN previous \ {Visiting} |-> previous[q]]
      /\ UNCHANGED <<hosts, cache, required, focus, schedule, overlays, inbox, outside, budget>>
  BY <1>2, <1>3, <1>4 DEF Reuse
<1>6. /\ Visiting \in DOMAIN previous /\ IsCurrent(Visiting, old) /\ old.deps = Revisions(Visiting)
      /\ old.generation # None \/ Visiting \notin required
  BY <1>2, <1>5 DEF Reusable, ReuseThought
<1>7. AnalysisOK(Visiting, old, revision)
  BY <1>2, <1>6, VisitingFacts
<1>8. DOMAIN old = {"generation", "interface", "focus", "deps", "inputs",
                    "revision", "key", "artifact", "linked"}
  BY <1>7 DEF AnalysisOK
<1>9. /\ a.inputs = old.inputs /\ a.interface = old.interface /\ a.deps = old.deps
      /\ a.revision = old.revision /\ a.generation = old.generation /\ a.key = old.key
      /\ a.artifact = old.artifact /\ DOMAIN a = DOMAIN old
  BY <1>3, <1>8
<1>10. Like(a, previous[Visiting])
  BY <1>2, <1>9 DEF Like
<1>11. revision \in Nat /\ revision' = revision
  <2>1. a.revision \in Nat /\ a.revision <= revision /\ revision \in Nat
    BY <1>1, <1>7, <1>9 DEF AnalysisOK, TypeInv, OutsideOK, SessionOK, WorkerOK
  <2> QED
    BY <1>5, <2>1 DEF Publish
<1>12. AnalysisOK(Visiting, a, revision')
  BY <1>7, <1>9, <1>11 DEF AnalysisOK
<1>13. /\ FilesOK(fs) /\ Keeps(files, fs) /\ (~dirty => Undisturbed(files, fs))
       /\ a.inputs = Loaded(Visiting, Text(fs, overlays))
       /\ Gathered(fs, DOMAIN a.inputs)
  BY <1>2, <1>4, <1>5, <1>9, ReusedFacts
<1>14. CacheOK(cache') /\ hosts' \in [Projects -> Nat] /\ hosts' = hosts
  BY <1>1, <1>5 DEF TypeInv, OutsideOK, SessionOK, WorkerOK
<1>15. a.generation \in {None, hosts'[Visiting]}
  BY <1>6, <1>9, <1>14 DEF IsCurrent
<1>16. work.for = "lower" /\ a.generation = None => a.artifact # {}
  BY <1>2, <1>6, <1>9, VisitingFacts DEF WorkspaceInv, Lowering, Busy
<1>17. /\ previous' = [q \in DOMAIN previous' |-> previous[q]]
       /\ DOMAIN previous' = DOMAIN previous \ {Visiting}
  BY <1>5
<1>18. revision' \in Nat /\ revision <= revision'
  BY <1>11
<1>19. a.deps = Revisions(Visiting)
  BY <1>6, <1>9
<1> QED
  BY <1>5, <1>6, <1>10, <1>12, <1>13, <1>14, <1>15, <1>16, <1>17, <1>18, <1>19 DEF Records

\* The revision of a new analysis.
LEMMA RevisionFacts ==
  ASSUME WorkspaceInv, Busy("visit"), NEW interface, NEW n, n = RevisionFor(Visiting, interface)
  PROVE  /\ n \in Nat /\ n <= revision + 1
         /\ n > revision \/ ( /\ Visiting \in DOMAIN previous
                              /\ previous[Visiting].interface = interface
                              /\ n = previous[Visiting].revision )
<1>1. revision \in Nat
  BY DEF WorkspaceInv, TypeInv, OutsideOK, SessionOK, WorkerOK
<1>2. Visiting \in DOMAIN previous =>
        previous[Visiting].revision \in Nat /\ previous[Visiting].revision <= revision
  BY VisitingFacts DEF AnalysisOK
<1> QED
  BY <1>1, <1>2 DEF RevisionFor

LEMMA RevisionsFacts ==
  ASSUME WorkspaceInv, Busy("visit"), NEW n \in Nat, revision <= n
  PROVE  /\ Revisions(Visiting) \in [Deps[Visiting] -> Nat]
         /\ \A q \in Deps[Visiting] : Revisions(Visiting)[q] <= n
<1>1. \A q \in Deps[Visiting] : projects[q].revision \in Nat /\ projects[q].revision <= revision
  BY VisitingFacts DEF AnalysisOK
<1>2. revision \in Nat
  BY DEF WorkspaceInv, TypeInv, OutsideOK, SessionOK, WorkerOK
<1>3. \A q \in Deps[Visiting] : projects[q].revision <= n
  BY <1>1, <1>2
<1> QED
  BY <1>1, <1>3 DEF Revisions

LEMMA PublishedRevision ==
  ASSUME WorkspaceInv, Busy("visit"), NEW a, NEW fs, Publish(Visiting, a, fs), NEW interface,
         a.revision = RevisionFor(Visiting, interface)
  PROVE  /\ a.revision \in Nat /\ a.revision <= revision'
         /\ revision' \in Nat /\ revision <= revision'
<1>1. revision \in Nat /\ a.revision \in Nat
  BY RevisionFacts DEF WorkspaceInv, TypeInv, OutsideOK, SessionOK, WorkerOK
<1>2. revision' = IF a.revision > revision THEN a.revision ELSE revision
  BY DEF Publish
<1> QED
  BY <1>1, <1>2

\* A cacheable project imports nothing.
LEMMA StandardImports ==
  ASSUME script \in Scripts, Quiet, NEW p \in Cacheable, NEW inputs, inputs = Standard(p)
  PROVE  /\ Deps[p] = {}
         /\ StandardInterface(p) = Interface(inputs, Imported(p))
<1>1. Deps[p] = {}
  BY DEF Quiet, Deps
<1>2. Imported(p) = [q \in {} |-> None]
  BY <1>1 DEF Imported
<1> QED
  BY <1>1, <1>2 DEF StandardInterface

\* A background check that comes back for sources does not ask the cache again.
LEMMA NoAdmissionWhileLowering ==
  ASSUME WorkspaceInv, Busy("visit"), work.for = "lower",
         Visiting \in Cacheable, Visiting \notin required
  PROVE  Reusable(Visiting)
<1>1. TypeInv /\ ~dirty
  BY DEF WorkspaceInv, Control, Busy
<1>2. /\ Visiting \in DOMAIN previous /\ Visiting \notin DOMAIN projects
      /\ previous[Visiting].inputs = Loaded(Visiting, Text(files, overlays))
      /\ \A path \in DOMAIN previous[Visiting].inputs : Holding(files, path)
      /\ AnalysisOK(Visiting, previous[Visiting], revision)
  BY <1>1, Calm, VisitingFacts
<1>3. IsCurrent(Visiting, previous[Visiting])
  BY <1>2 DEF WorkspaceInv, Lowering, Busy
<1>4. Deps[Visiting] = {}
  BY <1>1, StateFacts DEF Quiet, Deps
<1>5. previous[Visiting].deps = Revisions(Visiting)
  BY <1>2, <1>4 DEF AnalysisOK, Revisions
<1>6. DOMAIN previous[Visiting].inputs \subseteq Files
  BY <1>2, VisitingFacts, AnalysisFacts
<1>7. ASSUME NEW path \in DOMAIN previous[Visiting].inputs
      PROVE  SourcesOf(files)[path] = previous[Visiting].inputs[path]
  <2>1. SourcesOf(files)[path] = Text(files, overlays)[path]
    BY <1>2, <1>6, SourceHeld DEF SourcesOf
  <2>2. previous[Visiting].inputs[path] = Text(files, overlays)[path]
    BY <1>2 DEF Loaded
  <2> QED
    BY <2>1, <2>2
<1>8. Same(Visiting) = DOMAIN previous[Visiting].inputs
  BY <1>7 DEF Same
<1> QED
  BY <1>2, <1>3, <1>5, <1>8 DEF Reusable, ReuseThought

LEMMA AdmitRecords ==
  ASSUME WorkspaceInv, Busy("visit"), Admit(Visiting)
  PROVE  \E a, fs : Records(a, fs)
<1> DEFINE p == Visiting
<1>1. TypeInv
  BY DEF WorkspaceInv
<1>2. PICK look \in Looked(p) :
        /\ look.interface # None
        /\ Publish(p, [generation |-> None, interface |-> look.interface,
                       focus |-> FALSE, deps |-> Revisions(p),
                       inputs |-> [path \in look.paths |-> SourcesOf(look.files)[path]],
                       revision |-> RevisionFor(p, look.interface),
                       key |-> look.key, artifact |-> {},
                       linked |-> Linked],
                   look.files)
        /\ cache' = Store(look.cache, "inputs", [key |-> look.key, paths |-> look.paths])
  BY DEF Admit
<1>3. /\ ~Reusable(p)
      /\ UNCHANGED <<hosts, previous, required, focus, schedule, overlays,
                     inbox, outside, budget>>
  BY DEF Admit
<1>4. PICK a : a = [generation |-> None, interface |-> look.interface,
                    focus |-> FALSE, deps |-> Revisions(p),
                    inputs |-> [path \in look.paths |-> SourcesOf(look.files)[path]],
                    revision |-> RevisionFor(p, look.interface),
                    key |-> look.key, artifact |-> {},
                    linked |-> Linked]
  OBVIOUS
<1>5. PICK fs : fs = look.files
  OBVIOUS
<1>6. Publish(p, a, fs)
  BY <1>2, <1>4, <1>5
<1>7. /\ FilesOK(fs) /\ Keeps(files, fs) /\ CacheOK(look.cache)
      /\ ~dirty => Undisturbed(files, fs)
      /\ look.key.project = p
      /\ p \in Cacheable /\ p \notin required
      /\ look.interface = StandardInterface(p)
      /\ look.paths = DOMAIN Standard(p)
      /\ script.disk[Main[p]] # Absent
      /\ Gathered(fs, look.paths)
  BY <1>2, <1>5, LookFacts
<1>8. /\ \A path \in In(p) : Source(fs, path, overlays, disk) = script.disk[path]
      /\ Main[p] \in In(p) /\ DOMAIN Standard(p) \subseteq In(p)
      /\ DOMAIN Standard(p) = Inputs(p, script.disk[Main[p]])
  BY <1>1, <1>7, StateFacts, SourceOfStandard
<1>9. \A path \in DOMAIN Standard(p) : path \in Files /\ SourcesOf(fs)[path] = script.disk[path]
  BY <1>8 DEF SourcesOf, In
<1>10. a.inputs = Standard(p)
  BY <1>4, <1>5, <1>7, <1>9 DEF Standard, Loaded
<1>11. DOMAIN a.inputs = DOMAIN Standard(p) /\ DOMAIN a.inputs \subseteq Files
  BY <1>8, <1>10 DEF In
<1>12. Gathered(fs, DOMAIN a.inputs)
  BY <1>7, <1>11
<1>13. \A path \in DOMAIN a.inputs : Text(fs, overlays)[path] = script.disk[path]
  <2>1. SUFFICES ASSUME NEW path \in DOMAIN a.inputs
                 PROVE  Text(fs, overlays)[path] = script.disk[path]
    OBVIOUS
  <2>2. Source(fs, path, overlays, disk) = Text(fs, overlays)[path]
    BY <1>11, <1>12, SourceHeld DEF Gathered
  <2> QED
    BY <1>8, <1>11, <2>2
<1>14. a.inputs = Loaded(p, Text(fs, overlays))
  <2>1. a.inputs = Loaded(p, script.disk)
    BY <1>10 DEF Standard
  <2> QED
    BY <1>13, <2>1, VisitingFacts, LoadedSame
<1>15. Deps[p] = {} /\ StandardInterface(p) = Interface(a.inputs, Imported(p))
  BY <1>1, <1>7, <1>10, StateFacts, StandardImports
<1>16. a.interface = Interface(a.inputs, Imported(p)) /\ a.revision = RevisionFor(p, a.interface)
  BY <1>4, <1>7, <1>15
<1>17. /\ a.revision \in Nat /\ a.revision <= revision'
       /\ revision' \in Nat /\ revision <= revision'
  BY <1>6, <1>16, PublishedRevision
<1>18. a.inputs \in [Inputs(p, a.inputs[Main[p]]) -> Contents] /\ Main[p] \in DOMAIN a.inputs
       /\ a.inputs[Main[p]] # Absent
  <2>1. Main[p] \in DOMAIN Standard(p)
    BY <1>8 DEF Inputs
  <2>2. \A path \in DOMAIN Standard(p) : Standard(p)[path] = script.disk[path]
    BY DEF Standard, Loaded
  <2>3. \A path \in Files : script.disk[path] \in Contents
    BY <1>1, WorkspaceAssumption DEF TypeInv, OutsideOK, SessionOK, WorkerOK
  <2>4. a.inputs[Main[p]] = script.disk[Main[p]]
    BY <1>10, <2>1, <2>2
  <2>5. a.inputs = [path \in Inputs(p, a.inputs[Main[p]]) |-> script.disk[path]]
    BY <1>10, <2>4 DEF Standard, Loaded
  <2> QED
    BY <1>7, <1>9, <1>10, <2>1, <2>3, <2>4, <2>5, <1>8
<1>19. a.deps \in [Deps[p] -> Nat] /\ \A q \in Deps[p] : a.deps[q] <= revision'
  BY <1>4, <1>17, RevisionsFacts
<1>20. AnalysisOK(p, a, revision')
  BY <1>4, <1>7, <1>10, <1>17, <1>18, <1>19 DEF AnalysisOK
<1>21. CacheOK(cache')
  <2>1. cache' = [interfaces |-> look.cache.interfaces,
                  inputs |-> {e \in look.cache.inputs : e.key # look.key}
                               \cup {[key |-> look.key, paths |-> look.paths]},
                  artifacts |-> look.cache.artifacts]
    BY <1>2, <1>7 DEF Store, CacheOK
  <2>2. \A e \in cache'.inputs : e.key.project \in Cacheable /\ e.paths = DOMAIN Standard(e.key.project)
    BY <1>7, <2>1 DEF CacheOK
  <2> QED
    BY <1>7, <2>1, <2>2 DEF CacheOK
<1>22. ~(work.for = "lower")
  BY <1>3, <1>7, NoAdmissionWhileLowering
<1>23. hosts' \in [Projects -> Nat] /\ hosts' = hosts /\ a.generation \in {None, hosts'[p]}
  BY <1>1, <1>3, <1>4 DEF TypeInv, OutsideOK, SessionOK, WorkerOK
<1>24. /\ previous' = [q \in DOMAIN previous' |-> previous[q]]
       /\ DOMAIN previous' = DOMAIN previous
  BY <1>1, <1>3 DEF TypeInv, OutsideOK, SessionOK, WorkerOK
<1>25. a.deps = Revisions(p)
  BY <1>4
<1> QED
  BY <1>3, <1>6, <1>7, <1>12, <1>14, <1>16, <1>17, <1>20, <1>21, <1>22, <1>23, <1>24, <1>25 DEF Records

\* What is stored of a cacheable project is what it always is.
LEMMA StoreFrontendFacts ==
  ASSUME NEW kept, CacheOK(kept), NEW p \in Cacheable, NEW key, key.project = p,
         script.disk[Main[p]] # Absent,
         NEW interface, interface = StandardInterface(p),
         NEW paths, paths = DOMAIN Standard(p)
  PROVE  CacheOK(StoreFrontend(kept, key, interface, paths))
<1>1. PICK gs : gs = StoreFrontend(kept, key, interface, paths)
  OBVIOUS
<1>2. gs = [interfaces |-> {e \in kept.interfaces : e.key # key}
                             \cup {[key |-> key, interface |-> interface]},
            inputs |-> {e \in kept.inputs : e.key # key} \cup {[key |-> key, paths |-> paths]},
            artifacts |-> kept.artifacts]
  BY <1>1 DEF StoreFrontend, Store, CacheOK
<1>3. \A e \in gs.inputs : e.key.project \in Cacheable /\ e.paths = DOMAIN Standard(e.key.project)
  BY <1>2 DEF CacheOK
<1>4. \A e \in gs.interfaces \cup gs.artifacts :
        /\ e.key.project \in Cacheable
        /\ script.disk[Main[e.key.project]] # Absent
        /\ e.interface = StandardInterface(e.key.project)
  BY <1>2 DEF CacheOK
<1> QED
  BY <1>1, <1>2, <1>3, <1>4 DEF CacheOK

LEMMA RebuildRecords ==
  ASSUME WorkspaceInv, Busy("visit"), Rebuild(Visiting)
  PROVE  \E a, fs : Records(a, fs)
<1> DEFINE p == Visiting
<1>1. TypeInv
  BY DEF WorkspaceInv
<1>2. PICK look \in Looked(p) :
        LET new == Analysed(p, look.files)
            interface == Interface(new.inputs, Imported(p))
        IN /\ look.interface = None
           /\ new.inputs[Main[p]] # Absent
           /\ Publish(p, [generation |-> hosts[p] + 1,
                          interface |-> interface, focus |-> Focused(p),
                          deps |-> Revisions(p), inputs |-> new.inputs,
                          revision |-> RevisionFor(p, interface),
                          key |-> new.key, artifact |-> {},
                          linked |-> Linked],
                      new.files)
           /\ hosts' = [hosts EXCEPT ![p] = @ + 1]
           /\ cache' =
                IF p \in Cacheable /\ ~Focused(p) /\ Clean(new.inputs)
                THEN StoreFrontend(look.cache, new.key, interface, DOMAIN new.inputs)
                ELSE look.cache
  BY DEF Rebuild
<1>3. UNCHANGED <<previous, required, focus, schedule, overlays, inbox, outside, budget>>
  BY DEF Rebuild
<1>4. PICK new : new = Analysed(p, look.files)
  OBVIOUS
<1>5. PICK interface : interface = Interface(new.inputs, Imported(p))
  OBVIOUS
<1>6. PICK a : a = [generation |-> hosts[p] + 1,
                    interface |-> interface, focus |-> Focused(p),
                    deps |-> Revisions(p), inputs |-> new.inputs,
                    revision |-> RevisionFor(p, interface),
                    key |-> new.key, artifact |-> {},
                    linked |-> Linked]
  OBVIOUS
<1>7. PICK fs : fs = new.files
  OBVIOUS
<1>8. /\ new.inputs[Main[p]] # Absent
      /\ Publish(p, a, fs)
      /\ hosts' = [hosts EXCEPT ![p] = @ + 1]
      /\ cache' = IF p \in Cacheable /\ ~Focused(p) /\ Clean(new.inputs)
                  THEN StoreFrontend(look.cache, new.key, interface, DOMAIN new.inputs)
                  ELSE look.cache
  BY <1>2, <1>4, <1>5, <1>6, <1>7
<1>9. /\ FilesOK(look.files) /\ Keeps(files, look.files) /\ CacheOK(look.cache)
      /\ ~dirty => Undisturbed(files, look.files)
  BY LookFacts
<1>10. PICK before, read : before = look.files /\ read = ReadBy(before, DOMAIN new.inputs)
  OBVIOUS
<1>11. /\ Main[p] \in DOMAIN new.inputs
       /\ new.inputs \in [Inputs(p, new.inputs[Main[p]]) -> Contents]
       /\ new.inputs = Loaded(p, Text(fs, overlays))
       /\ Gathered(fs, DOMAIN new.inputs)
       /\ FilesOK(fs) /\ Keeps(files, fs)
       /\ ~dirty => Undisturbed(files, fs)
       /\ new.key.project = p
       /\ p \in Cacheable => new.inputs = Standard(p)
  BY <1>4, <1>7, <1>9, <1>10, AnalysedFacts
<1>12. /\ a.interface = Interface(a.inputs, Imported(p)) /\ a.revision = RevisionFor(p, a.interface)
       /\ a.inputs = new.inputs /\ a.deps = Revisions(p) /\ a.interface = interface
       /\ a.generation = hosts[p] + 1 /\ a.key = new.key
  BY <1>5, <1>6
<1>13. /\ a.revision \in Nat /\ a.revision <= revision'
       /\ revision' \in Nat /\ revision <= revision'
  BY <1>8, <1>12, PublishedRevision
<1>14. p \in Projects /\ hosts \in [Projects -> Nat]
  BY <1>1, VisitingFacts DEF TypeInv, OutsideOK, SessionOK, WorkerOK
<1>15. /\ hosts' \in [Projects -> Nat] /\ a.generation = hosts'[p] /\ a.generation \in Nat
       /\ \A q \in Projects : q # p => hosts'[q] = hosts[q]
  BY <1>8, <1>12, <1>14
<1>16. a.generation # None
  BY <1>15, WorkspaceAssumption
<1>17. p \in Cacheable => interface = StandardInterface(p)
  BY <1>1, <1>5, <1>11, StateFacts, StandardImports
<1>18. a.deps \in [Deps[p] -> Nat] /\ \A q \in Deps[p] : a.deps[q] <= revision'
  BY <1>12, <1>13, RevisionsFacts
<1>19. DOMAIN a = {"generation", "interface", "focus", "deps", "inputs",
                   "revision", "key", "artifact", "linked"}
  BY <1>6
<1>20. AnalysisOK(p, a, revision')
  BY <1>8, <1>11, <1>12, <1>13, <1>15, <1>16, <1>17, <1>18, <1>19 DEF AnalysisOK
<1>21. CacheOK(cache')
  <2>1. p \in Cacheable => script.disk[Main[p]] # Absent
    BY <1>8, <1>11 DEF Standard, Loaded
  <2>2. p \in Cacheable => CacheOK(StoreFrontend(look.cache, new.key, interface, DOMAIN new.inputs))
    BY <1>9, <1>11, <1>17, <2>1, StoreFrontendFacts
  <2> QED
    BY <1>8, <1>9, <2>2
<1>22. /\ previous' = [q \in DOMAIN previous' |-> previous[q]]
       /\ DOMAIN previous' = DOMAIN previous
  BY <1>1, <1>3 DEF TypeInv, OutsideOK, SessionOK, WorkerOK
<1> QED
  BY <1>3, <1>8, <1>11, <1>12, <1>13, <1>15, <1>16, <1>20, <1>21, <1>22 DEF Records

LEMMA VisitRecords ==
  ASSUME WorkspaceInv, Visit
  PROVE  Busy("visit") /\ \E a, fs : Records(a, fs)
BY ReuseRecords, AdmitRecords, RebuildRecords DEF Visit

-----------------------------------------------------------------------------
(* Knowledge.                                                              *)

\* An analysis of this revision and interface is held.
Matched(q, x) == \E y \in Held(q) : y.revision = x.revision /\ y.interface = x.interface

\* The interface follows from interfaces that are held.
Follows(q, x, imported) ==
    /\ imported \in [Deps[q] -> Interfaces]
    /\ Against(q, x, imported)
    /\ x.interface = Interface(x.inputs, imported)

\* A step leaves the knowledge sound when all it adds is at most one analysis
\* of a project under a new revision, that follows from what was held.
LEMMA KnowledgeStep ==
  ASSUME Knowledge, UNCHANGED script, revision \in Nat, revision' \in Nat, script \in Scripts,
         \A q \in Graph : \A x \in Held(q)' :
           /\ AnalysisOK(q, x, revision')
           /\ Matched(q, x) \/ (x.revision > revision
                                  /\ \A z \in Held(q)' : z.revision > revision => z = x)
           /\ (\E y \in Held(q) : Like(x, y)) \/ \E imported : Follows(q, x, imported)
  PROVE  Knowledge'
<1>1. Graph' = Graph /\ Deps' = Deps
      /\ \A q, x, n : AnalysisOK(q, x, n)' <=> AnalysisOK(q, x, n)
  BY ScriptKept
<1>2. AnalysesOK'
  BY <1>1 DEF AnalysesOK
<1>3. \A q \in Graph : \A y \in Held(q) :
        /\ y.revision \in Nat /\ y.revision <= revision
        /\ \A r \in Deps[q] : y.deps[r] \in Nat /\ y.deps[r] <= revision
  BY DEF Knowledge, AnalysesOK, AnalysisOK
<1>4. \A q \in Graph : \A x \in Held(q)' : x.revision \in Nat
  BY DEF AnalysisOK
<1>5. ASSUME NEW q \in Graph, NEW x \in Held(q)', x.revision <= revision
      PROVE  Matched(q, x)
  BY <1>4, <1>5
<1>6. Revised'
  <2>1. SUFFICES ASSUME NEW q \in Graph, NEW x \in Held(q)', NEW z \in Held(q)',
                        x.revision = z.revision
                 PROVE  x.interface = z.interface
    BY <1>1 DEF Revised
  <2>2. CASE x.revision <= revision
    <3>1. Matched(q, x) /\ Matched(q, z)
      BY <1>5, <2>1, <2>2
    <3> QED
      BY <2>1, <3>1 DEF Matched, Knowledge, Revised
  <2>3. CASE x.revision > revision
    <3>1. ~Matched(q, x)
      BY <1>3, <1>4, <2>3 DEF Matched
    <3> QED
      BY <2>1, <2>3, <3>1
  <2> QED
    BY <1>4, <2>2, <2>3
<1>7. Sound'
  <2>1. SUFFICES ASSUME NEW q \in Graph, NEW x \in Held(q)',
                        NEW imported \in [Deps[q] -> Interfaces'], Against(q, x, imported)'
                 PROVE  x.interface = Interface(x.inputs, imported)
    BY <1>1 DEF Sound
  <2>2. \A r \in Deps[q] : x.deps[r] \in Nat /\ x.deps[r] <= revision
    <3>1. CASE \E y \in Held(q) : Like(x, y)
      BY <1>3, <3>1 DEF Like
    <3>2. CASE \E known : Follows(q, x, known)
      <4>1. \A r \in Deps[q] : r \in Graph /\ \E y \in Held(r) : y.revision = x.deps[r]
        BY <3>2, DepsFacts DEF Follows, Against
      <4> QED
        BY <1>3, <4>1
    <3> QED
      BY <3>1, <3>2
  <2>3. ASSUME NEW r \in Deps[q]
        PROVE  \E y \in Held(r) : y.revision = x.deps[r] /\ imported[r] = y.interface
    <3>1. PICK z \in Held(r)' : z.revision = x.deps[r] /\ imported[r] = z.interface
      BY <1>1, <2>1 DEF Against
    <3>2. r \in Graph
      BY DepsFacts
    <3>3. Matched(r, z)
      BY <1>5, <2>2, <3>1, <3>2
    <3> QED
      BY <3>1, <3>3 DEF Matched
  <2>4. Against(q, x, imported)
    BY <2>3 DEF Against
  <2>5. \A r \in Deps[q] : imported[r] \in Interfaces
    BY <2>3, DepsFacts DEF Interfaces
  <2>6. imported \in [Deps[q] -> Interfaces]
    BY <2>5
  <2>7. CASE \E y \in Held(q) : Like(x, y)
    <3>1. PICK y \in Held(q) : Like(x, y)
      BY <2>7
    <3>2. Against(q, y, imported)
      BY <2>4, <3>1 DEF Against, Like
    <3>3. y.interface = Interface(y.inputs, imported)
      BY <2>6, <3>2 DEF Knowledge, Sound
    <3> QED
      BY <3>1, <3>3 DEF Like
  <2>8. CASE \E known : Follows(q, x, known)
    <3>1. PICK known : Follows(q, x, known)
      BY <2>8
    <3>2. ASSUME NEW r \in Deps[q] PROVE imported[r] = known[r]
      <4>1. PICK y \in Held(r) : y.revision = x.deps[r] /\ imported[r] = y.interface
        BY <2>3
      <4>2. PICK z \in Held(r) : z.revision = x.deps[r] /\ known[r] = z.interface
        BY <3>1 DEF Follows, Against
      <4>3. r \in Graph
        BY DepsFacts
      <4> QED
        BY <4>1, <4>2, <4>3 DEF Knowledge, Revised
    <3>3. imported = known
      BY <2>6, <3>1, <3>2 DEF Follows
    <3> QED
      BY <3>1, <3>3 DEF Follows
  <2> QED
    BY <2>7, <2>8
<1> QED
  BY <1>2, <1>6, <1>7 DEF Knowledge

\* In particular one that adds nothing.
LEMMA KnowledgeKept ==
  ASSUME Knowledge, UNCHANGED <<script, revision>>, revision \in Nat, script \in Scripts,
         \A q \in Graph : \A x \in Held(q)' :
           \E y \in Held(q) : Like(x, y) /\ DOMAIN x = DOMAIN y
  PROVE  Knowledge'
<1>1. ASSUME NEW q \in Graph, NEW x \in Held(q)'
      PROVE  /\ AnalysisOK(q, x, revision')
             /\ Matched(q, x)
             /\ \E y \in Held(q) : Like(x, y)
  <2>1. PICK y \in Held(q) : Like(x, y) /\ DOMAIN x = DOMAIN y
    OBVIOUS
  <2>2. AnalysisOK(q, y, revision)
    BY DEF Knowledge, AnalysesOK
  <2>3. AnalysisOK(q, x, revision)
    BY <2>1, <2>2 DEF AnalysisOK, Like
  <2> QED
    BY <2>1, <2>3 DEF Matched, Like
<1> QED
  BY <1>1, KnowledgeStep

-----------------------------------------------------------------------------
(* The step of a visit.                                                    *)

\* Analyses that were of the texts now kept still are.
LEMMA StillLoaded ==
  ASSUME NEW q \in Projects, NEW fs, NEW gs, Keeps(fs, gs), NEW ov,
         NEW inputs, inputs = Loaded(q, Text(fs, ov)), DOMAIN inputs \subseteq Files,
         \A path \in DOMAIN inputs : Holding(fs, path)
  PROVE  /\ inputs = Loaded(q, Text(gs, ov))
         /\ \A path \in DOMAIN inputs : Holding(gs, path)
<1>1. \A path \in DOMAIN inputs : Text(gs, ov)[path] = Text(fs, ov)[path]
  BY TextKept
<1> QED
  BY <1>1, LoadedSame DEF Keeps

LEMMA SentKept ==
  ASSUME UNCHANGED <<watcher, commands>>
  PROVE  Sent' = Sent /\ \A n : LastSent(n)' <=> LastSent(n)
<1>1. Sent' = Sent
  BY DEF Sent, Known
<1>2. \A n : LastSent(n)' <=> LastSent(n)
  BY DEF LastSent
<1> QED
  BY <1>1, <1>2

LEMMA WatcherKept ==
  ASSUME WatcherOK, Watching, UNCHANGED <<watcher, commands>>, ~dirty' => ~dirty /\ files'.acquired \subseteq files.acquired
  PROVE  WatcherOK' /\ Watching'
<1>1. WatcherOK'
  BY DEF WatcherOK, Command, Sources
<1>2. Sent' = Sent /\ Watched(Sent)' = Watched(Sent)
  BY SentKept DEF Watched
<1>3. \E n \in 0..Len(commands') : LastSent(n)'
  BY SentKept DEF Watching
<1> QED
  BY <1>1, <1>2, <1>3 DEF Watching

LEMMA AnalysisLater ==
  ASSUME NEW q, NEW x, NEW m \in Nat, NEW n \in Nat, m <= n, AnalysisOK(q, x, m)
  PROVE  AnalysisOK(q, x, n)
<1>1. /\ x.revision \in Nat /\ x.revision <= n
      /\ x.deps \in [Deps[q] -> Nat] /\ \A r \in Deps[q] : x.deps[r] <= n
  BY DEF AnalysisOK
<1> QED
  BY <1>1 DEF AnalysisOK

LEMMA RecordedHeld ==
  ASSUME WorkspaceInv, Busy("visit"), NEW a, NEW fs, Records(a, fs)
  PROVE  /\ DOMAIN projects' = DOMAIN projects \cup {Visiting}
         /\ projects'[Visiting] = a
         /\ \A q \in DOMAIN projects : projects'[q] = projects[q]
         /\ projects' = [q \in DOMAIN projects' |-> projects'[q]]
         /\ \A q : Held(q)' \subseteq Held(q) \cup (IF q = Visiting THEN {a} ELSE {})
<1>1. projects' = [q \in DOMAIN projects \cup {Visiting} |->
                     IF q = Visiting THEN a ELSE projects[q]]
  BY DEF Records, Publish
<1>2. Visiting \notin DOMAIN projects
  BY VisitingFacts
<1>3. \A q \in DOMAIN previous' : q \in DOMAIN previous /\ previous'[q] = previous[q]
  BY DEF Records
<1>4. /\ DOMAIN projects' = DOMAIN projects \cup {Visiting}
      /\ projects'[Visiting] = a
      /\ \A q \in DOMAIN projects : projects'[q] = projects[q]
      /\ projects' = [q \in DOMAIN projects' |-> projects'[q]]
  BY <1>1, <1>2
<1>5. ASSUME NEW q
      PROVE  Held(q)' \subseteq Held(q) \cup (IF q = Visiting THEN {a} ELSE {})
  BY <1>3, <1>4 DEF Held
<1> QED
  BY <1>4, <1>5

LEMMA RecordsKnowledge ==
  ASSUME WorkspaceInv, Busy("visit"), NEW a, NEW fs, Records(a, fs), UNCHANGED script
  PROVE  Knowledge'
<1>1. Knowledge /\ script \in Scripts /\ revision \in Nat /\ revision' \in Nat /\ revision <= revision'
  BY DEF WorkspaceInv, TypeInv, OutsideOK, SessionOK, WorkerOK, Records
<1>2. PICK p : p = Visiting
  OBVIOUS
<1>3. \A q : Held(q)' \subseteq Held(q) \cup (IF q = p THEN {a} ELSE {})
  BY <1>2, RecordedHeld
<1>4. ASSUME NEW q \in Graph, NEW x \in Held(q)
      PROVE  /\ AnalysisOK(q, x, revision') /\ Matched(q, x) /\ Like(x, x)
             /\ x.revision <= revision
  <2>1. AnalysisOK(q, x, revision)
    BY <1>1 DEF Knowledge, AnalysesOK
  <2> QED
    BY <1>1, <2>1, AnalysisLater DEF Matched, Like, AnalysisOK
<1>5. AnalysisOK(p, a, revision') /\ p \in Graph
  BY <1>2, VisitingFacts DEF Records
<1>6. p \in DOMAIN previous => previous[p] \in Held(p)
  BY DEF Held
<1>7. ASSUME NEW z \in Held(p)', z.revision > revision
      PROVE  z = a
  <2>1. z \in Held(p) \cup {a}
    BY <1>3
  <2>2. ASSUME z \in Held(p) PROVE FALSE
    <3>1. z.revision <= revision /\ AnalysisOK(p, z, revision')
      BY <1>4, <1>5, <2>2
    <3>2. z.revision \in Nat
      BY <3>1 DEF AnalysisOK
    <3> QED
      BY <1>1, <1>7, <3>1, <3>2
  <2> QED
    BY <2>1, <2>2
<1>8. Matched(p, a) \/ (a.revision > revision
                                 /\ \A z \in Held(p)' : z.revision > revision => z = a)
  <2>1. CASE p \in DOMAIN previous /\ Like(a, previous[p])
    BY <1>6, <2>1 DEF Matched, Like
  <2>2. CASE a.revision = RevisionFor(p, a.interface)
    <3>1. a.revision > revision \/ ( /\ p \in DOMAIN previous
                                     /\ previous[p].interface = a.interface
                                     /\ a.revision = previous[p].revision )
      BY <1>2, <2>2, RevisionFacts
    <3> QED
      BY <1>6, <1>7, <3>1 DEF Matched
  <2> QED
    BY <1>2, <2>1, <2>2 DEF Records
<1>9. (\E y \in Held(p) : Like(a, y)) \/ \E imported : Follows(p, a, imported)
  <2>1. CASE p \in DOMAIN previous /\ Like(a, previous[p])
    BY <1>6, <2>1
  <2>2. CASE a.interface = Interface(a.inputs, Imported(p))
    <3>1. \A r \in Deps[p] : r \in Graph /\ projects[r] \in Held(r)
      BY <1>2, VisitingFacts DEF Held
    <3>2. Imported(p) \in [Deps[p] -> Interfaces]
      BY <3>1 DEF Imported, Interfaces
    <3>3. \A r \in Deps[p] : /\ projects[r].revision = a.deps[r]
                                    /\ Imported(p)[r] = projects[r].interface
      BY <1>2 DEF Records, Revisions, Imported
    <3>4. Against(p, a, Imported(p))
      BY <3>1, <3>3 DEF Against
    <3> QED
      BY <2>2, <3>2, <3>4 DEF Follows
  <2> QED
    BY <1>2, <2>1, <2>2 DEF Records
<1>10. ASSUME NEW q \in Graph, NEW x \in Held(q)'
      PROVE  /\ AnalysisOK(q, x, revision')
             /\ Matched(q, x) \/ (x.revision > revision
                                    /\ \A z \in Held(q)' : z.revision > revision => z = x)
             /\ (\E y \in Held(q) : Like(x, y)) \/ \E imported : Follows(q, x, imported)
  <2>1. CASE x \in Held(q)
    BY <1>4, <2>1
  <2>2. CASE q = p /\ x = a
    BY <1>5, <1>8, <1>9, <2>2
  <2> QED
    BY <1>3, <2>1, <2>2
<1> QED
  BY <1>1, <1>10, KnowledgeStep

\* A message is sent; the first is taken.
LEMMA MessageSent ==
  ASSUME MessagesOK, UNCHANGED script, NEW message \in Message,
         message.kind = "edit" => /\ message.path \in Files
                                  /\ message.text \in script.typings[message.path],
         inbox' \in {inbox, Append(inbox, message)}
  PROVE  MessagesOK'
<1>1. CASE inbox' = inbox
  BY <1>1 DEF MessagesOK, Message
<1>2. CASE inbox' = Append(inbox, message)
  <2>1. inbox \in Seq(Message) /\ inbox' \in Seq(Message)
        /\ DOMAIN inbox' = 1..(Len(inbox) + 1) /\ DOMAIN inbox = 1..Len(inbox)
        /\ inbox'[Len(inbox) + 1] = message /\ \A i \in 1..Len(inbox) : inbox'[i] = inbox[i]
    BY <1>2 DEF MessagesOK
  <2>2. \A i \in 1..(Len(inbox) + 1) : i \in 1..Len(inbox) \/ i = Len(inbox) + 1
    BY <2>1
  <2>3. \A i \in DOMAIN inbox' :
          inbox'[i].kind = "edit" => /\ inbox'[i].path \in Files
                                     /\ inbox'[i].text \in script.typings[inbox'[i].path]
    BY <2>1, <2>2 DEF MessagesOK
  <2> QED
    BY <2>1, <2>3 DEF MessagesOK, Message
<1> QED
  BY <1>1, <1>2

LEMMA MessageTaken ==
  ASSUME MessagesOK, UNCHANGED script, inbox # << >>, NEW message, message = Head(inbox),
         inbox' = Tail(inbox)
  PROVE  /\ message \in Message
         /\ message.kind = "edit" => /\ message.path \in Files
                                     /\ message.text \in script.typings[message.path]
         /\ MessagesOK'
<1>1. inbox \in Seq(Message) /\ Len(inbox) \in Nat \ {0}
  BY DEF MessagesOK
<1>2. message = inbox[1] /\ 1 \in DOMAIN inbox /\ message \in Message
  BY <1>1
<1>3. /\ inbox' \in Seq(Message) /\ DOMAIN inbox' = 1..(Len(inbox) - 1)
      /\ \A i \in 1..(Len(inbox) - 1) : inbox'[i] = inbox[i + 1] /\ i + 1 \in DOMAIN inbox
  BY <1>1
<1>4. \A i \in DOMAIN inbox' :
        inbox'[i].kind = "edit" => /\ inbox'[i].path \in Files
                                   /\ inbox'[i].text \in script.typings[inbox'[i].path]
  BY <1>3 DEF MessagesOK
<1>5. MessagesOK'
  BY <1>3, <1>4 DEF MessagesOK, Message
<1> QED
  BY <1>2, <1>5 DEF MessagesOK

LEMMA OutsideKept ==
  ASSUME OutsideOK, UNCHANGED <<script, disk, overlays, inbox>>
  PROVE  OutsideOK'
<1>1. Cacheable' = Cacheable
  BY ScriptKept
<1> QED
  BY <1>1 DEF OutsideOK, MessagesOK, Message

\* What is unread stays as it is for the script's sake.
LEMMA TypeStep ==
  ASSUME TypeInv, UNCHANGED script, OutsideOK', SessionOK', WorkerOK', FilesOK(files'), CacheOK(cache')
  PROVE  TypeInv'
<1>1. script' \in Scripts /\ Quiet'
  BY ScriptKept DEF TypeInv
<1>2. FilesOK(files)' /\ CacheOK(cache)'
  BY ScriptKept
<1> QED
  BY <1>1, <1>2 DEF TypeInv

LEMMA VisitStep ==
  ASSUME WorkspaceInv, Visit, UNCHANGED script
  PROVE  WorkspaceInv'
<1>1. PICK p : p = Visiting
  OBVIOUS
<1>2. Busy("visit")
  BY VisitRecords
<1>3. PICK a, fs : Records(a, fs)
  BY VisitRecords
<1>4. TypeInv /\ script \in Scripts
  BY DEF WorkspaceInv, TypeInv
<1>5. /\ files' = fs /\ work' = [work EXCEPT !.at = @ + 1]
      /\ UNCHANGED <<required, focus, needsRefresh, dirty, background, failed, overlays, inbox,
                     disk, watcher, commands, budget>>
  BY <1>3 DEF Records, Publish, schedule, outside
<1>6. /\ work'.kind = "visit" /\ work'.for = work.for /\ work'.at = work.at + 1
      /\ work' = [kind |-> work'.kind, for |-> work'.for, at |-> work'.at]
      /\ work.kind = "visit" /\ work.for \in {"edit", "ask", "check", "lower"}
  BY <1>2, <1>4, <1>5 DEF TypeInv, WorkerOK, Busy
<1>7. /\ Order' = Order /\ Graph' = Graph /\ Deps' = Deps /\ (Closes' <=> Closes)
      /\ \A n : Before(n)' = Before(n)
  BY ScriptKept
<1>8. /\ p \in Graph /\ p \in Projects /\ p \notin DOMAIN projects
      /\ DOMAIN projects \subseteq Graph
      /\ DOMAIN projects \cup {p} = Before(work.at + 1)
      /\ Deps[p] \subseteq DOMAIN projects
      /\ \A q \in DOMAIN projects : Deps[q] \subseteq DOMAIN projects
      /\ work.at + 1 \in 1..(Len(Order) + 1)
      /\ \A q \in DOMAIN projects : AnalysisOK(q, projects[q], revision)
  BY <1>1, <1>2, VisitingFacts
<1>9. /\ DOMAIN projects' = DOMAIN projects \cup {p}
      /\ projects'[p] = a
      /\ \A q \in DOMAIN projects : projects'[q] = projects[q]
      /\ projects' = [q \in DOMAIN projects' |-> projects'[q]]
      /\ \A q : Held(q)' \subseteq Held(q) \cup (IF q = p THEN {a} ELSE {})
  BY <1>1, <1>2, <1>3, RecordedHeld
<1>10. /\ previous' = [q \in DOMAIN previous' |-> previous'[q]]
       /\ DOMAIN previous' \in {DOMAIN previous, DOMAIN previous \ {p}}
       /\ \A q \in DOMAIN previous' : q \in DOMAIN previous /\ previous'[q] = previous[q]
       /\ hosts' \in [Projects -> Nat] /\ revision' \in Nat
       /\ \A q \in Projects : q # p => hosts'[q] = hosts[q]
  BY <1>1, <1>3 DEF Records
<1>11. /\ FilesOK(fs) /\ Keeps(files, fs) /\ (~dirty => Undisturbed(files, fs))
       /\ CacheOK(cache')
       /\ a.inputs = Loaded(p, Text(fs, overlays)) /\ Gathered(fs, DOMAIN a.inputs)
       /\ a.deps = Revisions(p)
       /\ a.generation \in {None, hosts'[p]}
       /\ work.for = "lower" /\ a.generation = None => a.artifact # {}
       /\ AnalysisOK(p, a, revision')
  BY <1>1, <1>3 DEF Records
<1>12. TypeInv'
  <2>1. OutsideOK'
    BY <1>4, <1>5, OutsideKept DEF TypeInv
  <2>2. DOMAIN projects' \cup DOMAIN previous' \subseteq Graph
    BY <1>4, <1>8, <1>9, <1>10 DEF TypeInv, SessionOK
  <2>3. SessionOK'
    BY <1>7, <1>9, <1>10, <2>2 DEF SessionOK
  <2>4. work'.at \in Nat /\ work'.at \in 1..(Len(Order) + 1)
    BY <1>6, <1>8
  <2>5. WorkerOK'
    BY <1>4, <1>5, <1>6, <1>7, <2>4 DEF TypeInv, WorkerOK, Kinds
  <2> QED
    BY <1>4, <1>5, <1>11, <2>1, <2>3, <2>5, TypeStep
<1>13. Knowledge'
  BY <1>2, <1>3, RecordsKnowledge
<1>14. Control'
  <2>1. DOMAIN projects' = Before(work.at)'
    BY <1>6, <1>7, <1>8, <1>9
  <2>2. ~dirty => files'.pending = {}
    BY <1>5, <1>11 DEF WorkspaceInv, Control, Undisturbed
  <2>3. Control
    BY DEF WorkspaceInv
  <2>4. (work.for = "edit" <=> dirty) /\ (~dirty => ~Closes /\ ~failed)
    BY <1>6, <2>3 DEF Control
  <2> QED
    BY <1>5, <1>6, <1>7, <2>1, <2>2, <2>4 DEF Control
<1>15. PICK ov : ov = overlays
  OBVIOUS
<1>16. Snapshot = Text(files, ov) /\ Snapshot' = Text(fs, ov)
  BY <1>5, <1>15 DEF Snapshot, Text
<1>17. Visited'
  <2>1. ASSUME NEW q \in DOMAIN projects
        PROVE  /\ projects[q].inputs = Loaded(q, Text(fs, ov))
               /\ \A path \in DOMAIN projects[q].inputs :
                    Holding(fs, path) /\ fs.observed[path] # Unread
               /\ Linking(q)
    <3>1. /\ projects[q].inputs = Loaded(q, Text(files, ov))
          /\ \A path \in DOMAIN projects[q].inputs :
               Holding(files, path) /\ files.observed[path] # Unread
          /\ Linking(q)
      BY <1>6, <1>16 DEF WorkspaceInv, Visited
    <3>2. q \in Projects /\ DOMAIN projects[q].inputs \subseteq Files
      BY <1>4, <1>8, OrderFacts, AnalysisFacts
    <3>3. PICK inputs : inputs = projects[q].inputs
      OBVIOUS
    <3>4. /\ inputs = Loaded(q, Text(fs, ov))
          /\ \A path \in DOMAIN inputs : Holding(fs, path)
      BY <1>11, <3>1, <3>2, <3>3, StillLoaded
    <3>5. \A path \in DOMAIN inputs : fs.observed[path] # Unread
      BY <1>11, <3>1, <3>2, <3>3 DEF Keeps
    <3> QED
      BY <3>1, <3>3, <3>4, <3>5
  <2>2. \A q \in DOMAIN projects' : Revisions(q)' = Revisions(q)
    <3>1. SUFFICES ASSUME NEW q \in DOMAIN projects' PROVE Revisions(q)' = Revisions(q)
      OBVIOUS
    <3>2. Deps[q] \subseteq DOMAIN projects
      BY <1>8, <1>9
    <3>3. \A r \in Deps[q] : projects'[r] = projects[r]
      BY <1>9, <3>2
    <3> QED
      BY <1>7, <3>3 DEF Revisions
  <2>3. ASSUME NEW q \in DOMAIN projects'
        PROVE  /\ projects'[q].inputs = Loaded(q, Text(fs, ov))
               /\ \A path \in DOMAIN projects'[q].inputs :
                    Holding(fs, path) /\ fs.observed[path] # Unread
               /\ Linking(q)'
    <3>1. CASE q = p
      <4>1. Linking(q)'
        BY <1>9, <1>11, <2>2, <3>1 DEF Linking, IsCurrent
      <4> QED
        BY <1>9, <1>11, <1>15, <3>1, <4>1 DEF Gathered
    <3>2. CASE q # p
      <4>1. q \in DOMAIN projects /\ projects'[q] = projects[q] /\ hosts'[q] = hosts[q]
        BY <1>4, <1>8, <1>9, <1>10, <3>2, OrderFacts
      <4>2. Linking(q)'
        BY <2>1, <2>2, <4>1 DEF Linking, IsCurrent
      <4> QED
        BY <2>1, <4>1, <4>2
    <3> QED
      BY <3>1, <3>2
  <2>4. \A path : Holding(files, path)' <=> Holding(fs, path)
    BY <1>5 DEF Holding
  <2> QED
    BY <1>5, <1>16, <2>3, <2>4 DEF Visited
<1>18. Current'
  <2>1. SUFFICES ASSUME ~dirty, ~failed PROVE Current'
    BY <1>5 DEF Current
  <2>2. ~Closes
    BY <1>2, <2>1, Calm
  <2>3. Graph \subseteq DOMAIN projects' \cup DOMAIN previous'
    BY <1>9, <1>10, <2>1 DEF WorkspaceInv, Current
  <2>4. ASSUME NEW q \in Graph, NEW x \in Held(q)'
        PROVE  /\ x.inputs = Loaded(q, Text(fs, ov))
               /\ \A path \in DOMAIN x.inputs : Holding(fs, path)
    <3>1. CASE x \in Held(q)
      <4>1. /\ x.inputs = Loaded(q, Text(files, ov))
            /\ \A path \in DOMAIN x.inputs : Holding(files, path)
        BY <1>16, <2>1, <2>2, <3>1 DEF WorkspaceInv, Current
      <4>2. AnalysisOK(q, x, revision) /\ q \in Projects
        BY <1>4, <3>1, OrderFacts DEF WorkspaceInv, Knowledge, AnalysesOK
      <4>3. DOMAIN x.inputs \subseteq Files
        BY <4>2, AnalysisFacts
      <4>4. PICK inputs : inputs = x.inputs
        OBVIOUS
      <4> QED
        BY <1>11, <4>1, <4>2, <4>3, <4>4, StillLoaded
    <3>2. CASE q = p /\ x = a
      BY <1>11, <1>15, <3>2 DEF Gathered
    <3> QED
      BY <1>9, <3>1, <3>2
  <2>5. \A path : Holding(files, path)' <=> Holding(fs, path)
    BY <1>5 DEF Holding
  <2> QED
    BY <1>5, <1>6, <1>7, <1>16, <2>3, <2>4, <2>5 DEF Current
<1>19. Lowering'
  <2>1. SUFFICES ASSUME work.for = "lower" PROVE Lowering'
    BY <1>6 DEF Lowering
  <2>2. Lowering
    BY DEF WorkspaceInv
  <2>3. ASSUME NEW q \in DOMAIN previous' \ DOMAIN projects'
        PROVE  /\ IsCurrent(q, previous[q])'
               /\ previous'[q].generation = None /\ previous'[q].artifact = {} => q \in required'
    <3>1. q \in DOMAIN previous \ DOMAIN projects /\ previous'[q] = previous[q] /\ q # p
      BY <1>9, <1>10
    <3>2. /\ IsCurrent(q, previous[q])
          /\ previous[q].generation = None /\ previous[q].artifact = {} => q \in required
      BY <1>6, <2>1, <2>2, <3>1 DEF Lowering
    <3>3. q \in Projects
      BY <1>4, <3>1, OrderFacts DEF TypeInv, SessionOK
    <3>4. hosts'[q] = hosts[q]
      BY <1>10, <3>1, <3>3
    <3> QED
      BY <1>5, <3>1, <3>2, <3>4 DEF IsCurrent
  <2>4. \A q \in DOMAIN projects' : projects'[q].generation = None => projects'[q].artifact # {}
    BY <1>6, <1>9, <1>11, <2>1, <2>2 DEF Lowering
  <2> QED
    BY <1>6, <2>3, <2>4 DEF Lowering
<1>20. WatcherOK' /\ Watching'
  BY <1>5, <1>11, WatcherKept DEF WorkspaceInv, Undisturbed
<1> QED
  BY <1>12, <1>13, <1>14, <1>17, <1>18, <1>19, <1>20 DEF WorkspaceInv

-----------------------------------------------------------------------------
(* The steps of the others, and of a worker at rest.                       *)

\* What the worker has is left alone: the disk, the messages and the watcher
\* may change.
LEMMA OthersStep ==
  ASSUME WorkspaceInv,
         UNCHANGED <<script, files, hosts, projects, previous, revision, cache, required, dirty,
                     background, failed, needsRefresh, work, overlays>>,
         OutsideOK', WatcherOK', Watching'
  PROVE  WorkspaceInv'
<1>1. TypeInv /\ Knowledge /\ Control /\ Visited /\ Current /\ Lowering
  BY DEF WorkspaceInv
<1>2. /\ Order' = Order /\ Graph' = Graph /\ Deps' = Deps /\ (Closes' <=> Closes)
      /\ \A n : Before(n)' = Before(n)
  BY ScriptKept
<1>3. \A q : Held(q)' = Held(q) /\ (Linking(q)' <=> Linking(q))
  BY <1>2 DEF Held, Linking, Revisions, IsCurrent
<1>4. Snapshot' = Snapshot
  BY DEF Snapshot
<1>5. TypeInv'
  <2>1. SessionOK' /\ WorkerOK'
    BY <1>1, <1>2 DEF TypeInv, SessionOK, WorkerOK
  <2> QED
    BY <1>1, <2>1, TypeStep DEF TypeInv
<1>6. Knowledge'
  <2>1. \A q \in Graph : \A x \in Held(q)' : \E y \in Held(q) : Like(x, y) /\ DOMAIN x = DOMAIN y
    BY <1>3 DEF Like
  <2> QED
    BY <1>1, <2>1, KnowledgeKept DEF TypeInv, SessionOK
<1>7. Control'
  BY <1>1, <1>2 DEF Control
<1>8. Visited'
  BY <1>1, <1>3, <1>4 DEF Visited, Holding
<1>9. Current'
  BY <1>1, <1>2, <1>3, <1>4 DEF Current, Holding
<1>10. Lowering'
  BY <1>1 DEF Lowering, IsCurrent
<1> QED
  BY <1>5, <1>6, <1>7, <1>8, <1>9, <1>10 DEF WorkspaceInv

\* Analyses whose artifacts at most are other.
Alike(some, others) ==
    /\ some = [q \in DOMAIN some |-> some[q]]
    /\ DOMAIN some = DOMAIN others
    /\ \A q \in DOMAIN some : Like(some[q], others[q]) /\ DOMAIN some[q] = DOMAIN others[q]

\* The worker neither was nor is refreshing; unless a refresh is due the texts
\* it shows are the same.
LEMMA RestStep ==
  ASSUME WorkspaceInv, UNCHANGED <<script, hosts, revision, previous>>,
         work.kind # "visit", work'.kind # "visit",
         OutsideOK', WorkerOK', FilesOK(files'), CacheOK(cache'), WatcherOK', Watching',
         Alike(projects', projects),
         work'.kind \in {"load", "lower"} => ~dirty' /\ ~needsRefresh',
         files'.pending = files.pending,
         ~dirty' => /\ ~dirty /\ failed' = failed /\ needsRefresh' = needsRefresh
                    /\ Text(files', overlays') = Text(files, overlays)
                    /\ ~Closes => files'.disk = files.disk /\ files'.acquired = files.acquired,
         work'.kind = "lower" =>
           \A q \in DOMAIN projects' : projects'[q].generation = None => projects'[q].artifact # {}
  PROVE  WorkspaceInv'
<1>1. TypeInv /\ Knowledge /\ Control /\ Current
  BY DEF WorkspaceInv
<1>2. /\ Order' = Order /\ Graph' = Graph /\ Deps' = Deps /\ (Closes' <=> Closes)
  BY ScriptKept
<1>3. previous = << >> /\ DOMAIN previous = {} /\ files.pending = {}
  BY <1>1 DEF Control, NoProjects
<1>4. ASSUME NEW q, NEW x \in Held(q)'
      PROVE  \E y \in Held(q) : Like(x, y) /\ DOMAIN x = DOMAIN y
  <2>1. q \in DOMAIN projects' /\ x = projects'[q]
    BY <1>3 DEF Held
  <2>2. q \in DOMAIN projects /\ Like(x, projects[q]) /\ DOMAIN x = DOMAIN projects[q]
    BY <2>1 DEF Alike
  <2> QED
    BY <2>2 DEF Held
<1>5. TypeInv'
  <2>1. SessionOK'
    BY <1>1, <1>2 DEF TypeInv, SessionOK, Alike
  <2> QED
    BY <1>1, <2>1, TypeStep
<1>6. Knowledge'
  BY <1>1, <1>4, KnowledgeKept DEF TypeInv, SessionOK
<1>7. Control'
  BY <1>1, <1>2, <1>3 DEF Control, Alike
<1>8. Current'
  <2>1. SUFFICES ASSUME ~dirty', ~failed' PROVE Current'
    BY DEF Current
  <2>2. Snapshot' = Snapshot
    BY <2>1 DEF Snapshot, Text
  <2>3. ASSUME NEW q \in Graph, NEW x \in Held(q)'
        PROVE  /\ x.inputs = Loaded(q, Snapshot)
               /\ ~Closes => \A path \in DOMAIN x.inputs : Holding(files, path)
    BY <1>1, <1>4, <2>1 DEF Current, Like
  <2>4. ~Closes => \A path : Holding(files, path)' <=> Holding(files, path)
    BY <2>1 DEF Holding
  <2>5. ASSUME NEW q \in Graph, ~needsRefresh PROVE Linking(q)'
    <3>1. Linking(q)
      BY <1>1, <2>1, <2>5 DEF Current
    <3>2. \A r \in Graph : r \in DOMAIN projects /\ Like(projects'[r], projects[r])
      BY <1>1, <1>3, <2>1 DEF Current, Alike
    <3>3. \A r \in Deps[q] : projects'[r].revision = projects[r].revision
      BY <1>1, <3>2, DepsFacts DEF Like, TypeInv
    <3>4. Revisions(q)' = Revisions(q)
      BY <1>2, <3>3 DEF Revisions
    <3> QED
      BY <3>1, <3>2, <3>4 DEF Linking, IsCurrent, Like
  <2>6. Graph \subseteq DOMAIN projects' \cup DOMAIN previous'
    BY <1>1, <2>1 DEF Current, Alike
  <2> QED
    BY <1>2, <2>1, <2>2, <2>3, <2>4, <2>5, <2>6 DEF Current
<1> QED
  BY <1>5, <1>6, <1>7, <1>8 DEF WorkspaceInv, Visited, Lowering

\* A refresh begins.
LEMMA StartStep ==
  ASSUME WorkspaceInv, work.kind # "visit", NEW for \in {"edit", "ask", "check", "lower"},
         UNCHANGED <<script, hosts, revision, cache, needsRefresh, dirty, failed, background,
                     overlays, inbox, disk, watcher, commands>>,
         Alike(previous', projects), projects' = NoProjects,
         files' = [files EXCEPT !.observed = [path \in Files |-> Unread]],
         work' = [kind |-> "visit", for |-> for, at |-> 1],
         for = "edit" <=> dirty,
         ~dirty => ~Closes /\ ~failed,
         for = "lower" =>
           \A q \in DOMAIN previous' :
             /\ IsCurrent(q, previous'[q])
             /\ previous'[q].generation = None /\ previous'[q].artifact = {} => q \in required'
  PROVE  WorkspaceInv'
<1>1. TypeInv /\ Knowledge /\ Control /\ Current /\ script \in Scripts
  BY DEF WorkspaceInv, TypeInv
<1>2. /\ Order' = Order /\ Graph' = Graph /\ Deps' = Deps /\ (Closes' <=> Closes)
      /\ \A n : Before(n)' = Before(n)
  BY ScriptKept
<1>3. previous = << >> /\ DOMAIN previous = {} /\ files.pending = {} /\ DOMAIN projects' = {}
  BY <1>1 DEF Control, NoProjects
<1>4. ASSUME NEW q, NEW x \in Held(q)'
      PROVE  \E y \in Held(q) : Like(x, y) /\ DOMAIN x = DOMAIN y
  <2>1. q \in DOMAIN previous' /\ x = previous'[q]
    BY <1>3 DEF Held
  <2>2. q \in DOMAIN projects /\ Like(x, projects[q]) /\ DOMAIN x = DOMAIN projects[q]
    BY <2>1 DEF Alike
  <2> QED
    BY <2>2 DEF Held
<1>5. /\ files'.disk = files.disk /\ files'.acquired = files.acquired
      /\ files'.pending = files.pending
      /\ FilesOK(files')
  <2>1. files = [disk |-> files.disk, observed |-> files.observed, acquired |-> files.acquired,
                 pending |-> files.pending, listings |-> files.listings,
                 fingerprints |-> files.fingerprints]
    BY <1>1 DEF TypeInv, FilesOK
  <2>2. files' = [disk |-> files.disk, observed |-> [path \in Files |-> Unread],
                  acquired |-> files.acquired, pending |-> files.pending,
                  listings |-> files.listings, fingerprints |-> files.fingerprints]
    BY <2>1
  <2>3. [path \in Files |-> Unread] \in Sources
    BY DEF Sources
  <2> QED
    BY <1>1, <2>2, <2>3 DEF TypeInv, FilesOK
<1>6. TypeInv'
  <2>1. OutsideOK'
    BY <1>1, OutsideKept DEF TypeInv
  <2>2. SessionOK'
    BY <1>1, <1>2, <1>3 DEF TypeInv, SessionOK, Alike, NoProjects
  <2>3. 1 \in 1..(Len(Order) + 1)
    BY <1>1, OrderFacts
  <2>4. WorkerOK'
    BY <1>1, <1>2, <2>3 DEF TypeInv, WorkerOK, Kinds
  <2>5. CacheOK(cache')
    BY <1>1 DEF TypeInv
  <2> QED
    BY <1>1, <1>5, <2>1, <2>2, <2>4, <2>5, TypeStep
<1>7. Knowledge'
  BY <1>1, <1>4, KnowledgeKept DEF TypeInv, SessionOK
<1>8. Control'
  <2>1. Before(work.at)' = {}
    BY <1>1, <1>2, BeforeFacts
  <2> QED
    BY <1>1, <1>2, <1>3, <1>5, <2>1 DEF Control
<1>9. Current'
  <2>1. SUFFICES ASSUME ~dirty, ~failed PROVE Current'
    BY DEF Current
  <2>2. Snapshot' = Snapshot
    BY <1>5 DEF Snapshot
  <2>3. ASSUME NEW q \in Graph, NEW x \in Held(q)'
        PROVE  /\ x.inputs = Loaded(q, Snapshot)
               /\ ~Closes => \A path \in DOMAIN x.inputs : Holding(files, path)
    BY <1>1, <1>4, <2>1 DEF Current, Like
  <2>4. \A path : Holding(files, path)' <=> Holding(files, path)
    BY <1>5 DEF Holding
  <2>5. Graph \subseteq DOMAIN projects' \cup DOMAIN previous'
    BY <1>1, <1>3, <2>1 DEF Current, Alike
  <2> QED
    BY <1>2, <2>1, <2>2, <2>3, <2>4, <2>5 DEF Current
<1>10. Visited'
  BY <1>3 DEF Visited
<1>11. Lowering'
  BY <1>3 DEF Lowering, IsCurrent
<1>12. WatcherOK' /\ Watching'
  BY <1>5, WatcherKept DEF WorkspaceInv
<1> QED
  BY <1>6, <1>7, <1>8, <1>9, <1>10, <1>11, <1>12 DEF WorkspaceInv

LEMMA AlikeItself ==
  ASSUME WorkspaceInv
  PROVE  Alike(projects, projects)
BY DEF WorkspaceInv, TypeInv, SessionOK, Alike, Like

\* The worker is idle, or ends what it did: nothing that is shown changes.
LEMMA IdleStep ==
  ASSUME WorkspaceInv, work.kind # "visit", work'.kind \in {"idle", "load"},
         work' = [kind |-> work'.kind, for |-> work'.for, at |-> 0],
         work'.kind = "load" => ~dirty /\ ~needsRefresh,
         UNCHANGED <<script, files, hosts, projects, previous, revision, cache, needsRefresh,
                     dirty, failed, overlays, inbox, disk, watcher, commands>>,
         background' \in BOOLEAN
  PROVE  WorkspaceInv'
<1>1. TypeInv
  BY DEF WorkspaceInv
<1>2. OutsideOK'
  BY <1>1, OutsideKept DEF TypeInv
<1>3. WorkerOK'
  <2>1. work'.kind # "visit" /\ work'.kind \in Kinds /\ work'.at \in Nat
    BY DEF Kinds
  <2>2. work' = [kind |-> work'.kind, for |-> work'.for, at |-> work'.at]
    OBVIOUS
  <2> QED
    BY <1>1, <2>1, <2>2 DEF TypeInv, WorkerOK
<1>4. FilesOK(files') /\ CacheOK(cache')
  BY <1>1 DEF TypeInv
<1>5. WatcherOK' /\ Watching'
  BY WatcherKept DEF WorkspaceInv
<1>6. Alike(projects', projects)
  BY AlikeItself
<1>7. Text(files', overlays') = Text(files, overlays)
  OBVIOUS
<1> QED
  BY <1>2, <1>3, <1>4, <1>5, <1>6, <1>7, RestStep

LEMMA EndCheckStep ==
  ASSUME WorkspaceInv, EndCheck \/ CancelLowering, UNCHANGED script
  PROVE  WorkspaceInv'
<1>1. work.kind = "lower" /\ work' = Idle
  BY DEF EndCheck, CancelLowering
<1>2. UNCHANGED <<files, hosts, projects, previous, revision, cache, needsRefresh,
                  dirty, failed, overlays, inbox, disk, watcher, commands>>
  BY DEF EndCheck, CancelLowering, session, outside
<1>3. background' \in BOOLEAN
  BY DEF EndCheck, CancelLowering, WorkspaceInv, TypeInv, WorkerOK
<1> QED
  BY <1>1, <1>2, <1>3, IdleStep DEF Idle

LEMMA StartCheckStep ==
  ASSUME WorkspaceInv, StartCheck, UNCHANGED script
  PROVE  WorkspaceInv'
<1>1. /\ work.kind = "idle" /\ ~dirty
      /\ UNCHANGED <<hosts, revision, cache, needsRefresh, dirty, failed, background, overlays, inbox,
                     disk, watcher, commands>>
  BY DEF StartCheck, schedule, outside, Idle
<1>2. CASE needsRefresh
  <2>1. StartRefresh("check")
    BY <1>2 DEF StartCheck
  <2>2. Alike(previous', projects)
    BY <2>1, AlikeItself DEF StartRefresh
  <2>3. ~Closes /\ ~failed
    BY <1>1, <1>2 DEF WorkspaceInv, Control
  <2> QED
    BY <1>1, <2>1, <2>2, <2>3, StartStep DEF StartRefresh
<1>3. CASE ~needsRefresh
  <2>1. work' = [Idle EXCEPT !.kind = "load"] /\ UNCHANGED <<previous, projects, files>>
    BY <1>3 DEF StartCheck
  <2>2. background' \in BOOLEAN
    BY <1>1 DEF WorkspaceInv, TypeInv, WorkerOK
  <2> QED
    BY <1>1, <1>3, <2>1, <2>2, IdleStep DEF Idle
<1> QED
  BY <1>2, <1>3

LEMMA StartEditStep ==
  ASSUME WorkspaceInv, StartEdit, UNCHANGED script
  PROVE  WorkspaceInv'
<1>1. /\ work.kind = "idle" /\ dirty /\ StartRefresh("edit")
      /\ UNCHANGED <<hosts, revision, cache, needsRefresh, dirty, failed, background, overlays, inbox,
                     disk, watcher, commands>>
  BY DEF StartEdit, schedule, outside, Idle
<1>2. Alike(previous', projects)
  BY <1>1, AlikeItself DEF StartRefresh
<1> QED
  BY <1>1, <1>2, StartStep DEF StartRefresh

LEMMA AskStep ==
  ASSUME WorkspaceInv, NEW p \in Graph, Ask(p), UNCHANGED script
  PROVE  WorkspaceInv'
<1>1. /\ work.kind = "idle"
      /\ UNCHANGED <<hosts, revision, cache, needsRefresh, dirty, failed, background, overlays, inbox,
                     disk, watcher, commands>>
  BY DEF Ask, schedule, outside, Idle
<1>2. CASE dirty \/ needsRefresh
  <2>1. PICK for : for = IF dirty THEN "edit" ELSE "ask"
    OBVIOUS
  <2>2. StartRefresh(for)
    BY <1>2, <2>1 DEF Ask
  <2>3. Alike(previous', projects)
    BY <2>2, AlikeItself DEF StartRefresh
  <2>4. ~dirty => ~Closes /\ ~failed
    BY <1>2 DEF WorkspaceInv, Control
  <2>5. for \in {"edit", "ask"} /\ (for = "edit" <=> dirty)
    BY <2>1
  <2> QED
    BY <1>1, <2>2, <2>3, <2>4, <2>5, StartStep DEF StartRefresh
<1>3. CASE ~(dirty \/ needsRefresh)
  <2>1. UNCHANGED <<previous, projects, files, work>>
    BY <1>3 DEF Ask
  <2>2. background' \in BOOLEAN /\ work = Idle
    BY <1>1 DEF WorkspaceInv, TypeInv, WorkerOK, Ask
  <2> QED
    BY <1>1, <2>1, <2>2, IdleStep DEF Idle
<1> QED
  BY <1>2, <1>3

\* Only a cacheable project is without its sources, and then buffers stay open.
LEMMA CachedFacts ==
  ASSUME WorkspaceInv, NEW p \in DOMAIN projects, projects[p].generation = None
  PROVE  p \in Cacheable /\ ~Closes /\ (~dirty => ~failed)
<1>1. p \in Graph /\ projects[p] \in Held(p)
  BY DEF WorkspaceInv, TypeInv, SessionOK, Held
<1>2. p \in Cacheable
  BY <1>1 DEF WorkspaceInv, Knowledge, AnalysesOK, AnalysisOK
<1> QED
  BY <1>2 DEF WorkspaceInv, TypeInv, Quiet, Control

LEMMA FollowDefinitionStep ==
  ASSUME WorkspaceInv, FollowDefinition, UNCHANGED script
  PROVE  WorkspaceInv'
<1>1. /\ work.kind = "idle" /\ ~dirty /\ StartRefresh("ask")
      /\ UNCHANGED <<hosts, revision, cache, needsRefresh, dirty, failed, background, overlays, inbox,
                     disk, watcher, commands>>
  BY DEF FollowDefinition, schedule, outside, Idle
<1>2. PICK p \in DOMAIN projects : projects[p].generation = None
  BY DEF FollowDefinition
<1>3. ~Closes /\ ~failed
  BY <1>1, <1>2, CachedFacts
<1>4. Alike(previous', projects)
  BY <1>1, AlikeItself DEF StartRefresh
<1> QED
  BY <1>1, <1>3, <1>4, StartStep DEF StartRefresh

LEMMA ArtifactOnly ==
  ASSUME WorkspaceInv, NEW p \in DOMAIN projects, NEW s, NEW x, x = [projects[p] EXCEPT !.artifact = s]
  PROVE  /\ Like(x, projects[p]) /\ DOMAIN x = DOMAIN projects[p]
         /\ x.artifact = s /\ x.generation = projects[p].generation
<1>1. p \in Graph /\ projects[p] \in Held(p)
  BY DEF WorkspaceInv, TypeInv, SessionOK, Held
<1>2. DOMAIN projects[p] = {"generation", "interface", "focus", "deps", "inputs",
                            "revision", "key", "artifact", "linked"}
  BY <1>1 DEF WorkspaceInv, Knowledge, AnalysesOK, AnalysisOK
<1>3. /\ x.inputs = projects[p].inputs /\ x.interface = projects[p].interface
      /\ x.deps = projects[p].deps /\ x.revision = projects[p].revision
      /\ x.generation = projects[p].generation /\ x.key = projects[p].key
      /\ x.artifact = s /\ DOMAIN x = DOMAIN projects[p]
  BY <1>2
<1> QED
  BY <1>3 DEF Like

LEMMA LoadArtifactsStep ==
  ASSUME WorkspaceInv, LoadArtifacts, UNCHANGED script
  PROVE  WorkspaceInv'
<1>1. PICK missing : missing = {p \in Wanting : Found(p) = {}}
  OBVIOUS
<1>2. PICK loaded : loaded = [p \in DOMAIN projects |->
              IF p \in Wanting \ missing
              THEN [projects[p] EXCEPT !.artifact =
                      {(CHOOSE e \in Found(p) : TRUE).artifact}]
              ELSE projects[p]]
  OBVIOUS
<1>3. /\ work.kind = "load"
      /\ UNCHANGED <<hosts, revision, cache, needsRefresh, dirty, failed, background, overlays, inbox,
                     disk, watcher, commands>>
      /\ IF missing = {}
         THEN /\ projects' = loaded
              /\ work' = [Idle EXCEPT !.kind = "lower", !.at = 1]
              /\ UNCHANGED <<required, previous, files>>
         ELSE /\ required' = required \cup missing
              /\ previous' = loaded /\ projects' = NoProjects
              /\ files' = [files EXCEPT !.observed = [path \in Files |-> Unread]]
              /\ work' = [kind |-> "visit", for |-> "lower", at |-> 1]
  BY <1>1, <1>2 DEF LoadArtifacts, schedule, outside
<1>4. ~dirty /\ ~needsRefresh
  BY <1>3 DEF WorkspaceInv, Control
<1>5. ASSUME NEW p \in DOMAIN projects
      PROVE  /\ Like(loaded[p], projects[p]) /\ DOMAIN loaded[p] = DOMAIN projects[p]
             /\ loaded[p].generation = None /\ loaded[p].artifact = {} => p \in missing
  <2>1. CASE p \in Wanting \ missing
    <3>1. loaded[p] = [projects[p] EXCEPT !.artifact = {(CHOOSE e \in Found(p) : TRUE).artifact}]
      BY <1>2, <2>1
    <3>2. /\ Like(loaded[p], projects[p]) /\ DOMAIN loaded[p] = DOMAIN projects[p]
          /\ loaded[p].artifact = {(CHOOSE e \in Found(p) : TRUE).artifact}
      BY <3>1, ArtifactOnly
    <3> QED
      BY <3>2
  <2>2. CASE p \notin Wanting \ missing
    <3>1. loaded[p] = projects[p]
      BY <1>2, <2>2
    <3> QED
      BY <2>2, <3>1 DEF Like, Wanting
  <2> QED
    BY <2>1, <2>2
<1>6. Alike(loaded, projects)
  BY <1>2, <1>5 DEF Alike
<1>7. CASE missing = {}
  <2>1. /\ projects' = loaded /\ UNCHANGED <<previous, files>>
        /\ work' = [kind |-> "lower", for |-> None, at |-> 1]
    BY <1>3, <1>7 DEF Idle
  <2>2. OutsideOK'
    BY <1>3, OutsideKept DEF WorkspaceInv, TypeInv
  <2>3. WorkerOK'
    BY <1>3, <2>1 DEF WorkspaceInv, TypeInv, WorkerOK, Kinds
  <2>4. FilesOK(files') /\ CacheOK(cache')
    BY <1>3, <2>1 DEF WorkspaceInv, TypeInv
  <2>5. WatcherOK' /\ Watching'
    BY <1>3, <2>1, WatcherKept DEF WorkspaceInv
  <2>6. \A q \in DOMAIN projects' : projects'[q].generation = None => projects'[q].artifact # {}
    BY <1>2, <1>5, <1>7, <2>1
  <2>7. Alike(projects', projects)
    BY <1>6, <2>1
  <2>8. work'.kind = "lower" /\ work.kind # "visit" /\ work'.kind # "visit"
    BY <1>3, <2>1
  <2> QED
    BY <1>3, <1>4, <2>1, <2>2, <2>3, <2>4, <2>5, <2>6, <2>7, <2>8, RestStep
<1>8. CASE missing # {}
  <2>1. PICK p \in missing : p \in DOMAIN projects /\ projects[p].generation = None
    BY <1>1, <1>8 DEF Wanting
  <2>2. ~Closes /\ ~failed
    BY <1>4, <2>1, CachedFacts
  <2>3. /\ previous' = loaded /\ projects' = NoProjects /\ required' = required \cup missing
        /\ files' = [files EXCEPT !.observed = [path \in Files |-> Unread]]
        /\ work' = [kind |-> "visit", for |-> "lower", at |-> 1]
    BY <1>3, <1>8
  <2>4. ASSUME NEW q \in DOMAIN previous'
        PROVE  /\ IsCurrent(q, previous'[q])
               /\ previous'[q].generation = None /\ previous'[q].artifact = {} => q \in required'
    <3>1. q \in DOMAIN projects /\ q \in Graph
      BY <1>2, <2>3 DEF WorkspaceInv, TypeInv, SessionOK
    <3>2. IsCurrent(q, projects[q])
      BY <1>3, <1>4, <2>2, <3>1 DEF WorkspaceInv, Current, Linking
    <3> QED
      BY <1>5, <2>3, <3>1, <3>2 DEF IsCurrent, Like
  <2>5. Alike(previous', projects)
    BY <1>6, <2>3
  <2>6. work.kind # "visit" /\ "lower" # "edit"
    BY <1>3
  <2> QED
    BY <1>3, <1>4, <2>2, <2>3, <2>4, <2>5, <2>6, StartStep
<1> QED
  BY <1>7, <1>8

LEMMA LowerStep ==
  ASSUME WorkspaceInv, Lower, UNCHANGED script
  PROVE  WorkspaceInv'
<1>1. PICK p : p = Visiting
  OBVIOUS
<1>2. PICK new : new = Artifact(projects[p].inputs, [q \in Deps[p] |-> Lowered(projects[q])])
  OBVIOUS
<1>3. /\ work.kind = "lower" /\ work' = [work EXCEPT !.at = @ + 1]
      /\ UNCHANGED <<files, hosts, previous, revision, required, needsRefresh, dirty, failed,
                     background, overlays, inbox, disk, watcher, commands>>
  BY DEF Lower, schedule, outside, Busy
<1>4. IF p \in DOMAIN projects /\ projects[p].artifact = {} /\ Lowers(p)
      THEN /\ projects' = [projects EXCEPT ![p].artifact = {new}]
           /\ cache' = IF p \in Cacheable
                       THEN Store(cache, "artifacts",
                                  [key |-> projects[p].key, artifact |-> new,
                                   interface |-> projects[p].interface])
                       ELSE cache
      ELSE UNCHANGED <<projects, cache>>
  BY <1>1, <1>2 DEF Lower
<1>5. TypeInv
  BY DEF WorkspaceInv
<1>6. /\ Alike(projects', projects) /\ CacheOK(cache')
      /\ \A q \in DOMAIN projects' : projects'[q].generation = None => projects'[q].artifact # {}
  <2>1. \A q \in DOMAIN projects : projects[q].generation = None => projects[q].artifact # {}
    BY <1>3 DEF WorkspaceInv, Lowering
  <2>2. CASE UNCHANGED <<projects, cache>>
    BY <1>5, <2>1, <2>2, AlikeItself DEF TypeInv
  <2>3. CASE p \in DOMAIN projects /\ projects' = [projects EXCEPT ![p].artifact = {new}]
             /\ cache' = IF p \in Cacheable
                         THEN Store(cache, "artifacts",
                                    [key |-> projects[p].key, artifact |-> new,
                                     interface |-> projects[p].interface])
                         ELSE cache
    <3>1. PICK x : x = [projects[p] EXCEPT !.artifact = {new}]
      OBVIOUS
    <3>2. /\ DOMAIN projects' = DOMAIN projects /\ projects'[p] = x
          /\ projects' = [q \in DOMAIN projects' |-> projects'[q]]
          /\ \A q \in DOMAIN projects : q # p => projects'[q] = projects[q]
      BY <2>3, <3>1
    <3>3. Like(x, projects[p]) /\ DOMAIN x = DOMAIN projects[p] /\ x.artifact = {new}
      BY <2>3, <3>1, ArtifactOnly
    <3>4. \A q \in DOMAIN projects : Like(projects[q], projects[q])
      BY DEF Like
    <3>5. Alike(projects', projects)
      BY <3>2, <3>3, <3>4 DEF Alike
    <3>6. \A q \in DOMAIN projects' : projects'[q].generation = None => projects'[q].artifact # {}
      BY <2>1, <3>2, <3>3
    <3>7. CacheOK(cache')
      <4>1. CASE p \notin Cacheable
        BY <1>5, <2>3, <4>1 DEF TypeInv
      <4>2. CASE p \in Cacheable
        <5>1. p \in Graph /\ p \in Projects /\ projects[p] \in Held(p)
          BY <1>5, <2>3, OrderFacts DEF TypeInv, SessionOK, Held
        <5>2. AnalysisOK(p, projects[p], revision)
          BY <5>1 DEF WorkspaceInv, Knowledge, AnalysesOK
        <5>3. projects[p].key.project = p /\ projects[p].interface = StandardInterface(p)
          BY <4>2, <5>2 DEF AnalysisOK
        <5>4. script.disk[Main[p]] # Absent
          BY <4>2, <5>2 DEF AnalysisOK, Standard, Loaded
        <5>5. CacheOK(cache)
          BY <1>5 DEF TypeInv
        <5>6. cache' = [interfaces |-> cache.interfaces, inputs |-> cache.inputs,
                        artifacts |-> {e \in cache.artifacts : e.key # projects[p].key}
                                        \cup {[key |-> projects[p].key, artifact |-> new,
                                               interface |-> projects[p].interface]}]
          BY <2>3, <4>2, <5>5 DEF Store, CacheOK
        <5>7. \A e \in cache'.interfaces \cup cache'.artifacts :
                /\ e.key.project \in Cacheable
                /\ script.disk[Main[e.key.project]] # Absent
                /\ e.interface = StandardInterface(e.key.project)
          BY <4>2, <5>3, <5>4, <5>5, <5>6 DEF CacheOK
        <5>8. cache'.inputs = cache.inputs
              /\ cache' = [interfaces |-> cache'.interfaces, inputs |-> cache'.inputs,
                           artifacts |-> cache'.artifacts]
          BY <5>6
        <5> QED
          BY <5>5, <5>7, <5>8 DEF CacheOK
      <4> QED
        BY <4>1, <4>2
    <3> QED
      BY <3>5, <3>6, <3>7
  <2> QED
    BY <1>4, <2>2, <2>3
<1>7. work'.kind = "lower" /\ work'.at \in Nat
      /\ work' = [kind |-> work'.kind, for |-> work'.for, at |-> work'.at]
  BY <1>3, <1>5 DEF TypeInv, WorkerOK
<1>8. WorkerOK'
  BY <1>3, <1>5, <1>7 DEF TypeInv, WorkerOK, Kinds
<1>9. OutsideOK' /\ FilesOK(files')
  BY <1>3, <1>5, OutsideKept DEF TypeInv
<1>10. WatcherOK' /\ Watching'
  BY <1>3, WatcherKept DEF WorkspaceInv
<1>11. ~dirty /\ ~needsRefresh
  BY <1>3 DEF WorkspaceInv, Control
<1>12. work.kind # "visit" /\ work'.kind # "visit" /\ Text(files', overlays') = Text(files, overlays)
  BY <1>3, <1>7
<1> QED
  BY <1>3, <1>6, <1>7, <1>8, <1>9, <1>10, <1>11, <1>12, RestStep

-----------------------------------------------------------------------------
(* The editor, the disk and the watcher.                                   *)

\* The last command with inputs, of which there may be none.
LastOf(sequence, n) ==
    /\ n \in 0..Len(sequence) /\ (n # 0 => sequence[n].kind = "inputs")
    /\ \A i \in (n + 1)..Len(sequence) : sequence[i].kind = "event"

LEMMA LastIs ==
  ASSUME NEW sequence \in Seq(Command), NEW n, LastOf(sequence, n),
         NEW sent, \A i : i \in sent <=> i \in 1..Len(sequence) /\ sequence[i].kind = "inputs"
  PROVE  /\ n \in Nat /\ sent \subseteq Nat /\ (n = 0 <=> sent = {})
         /\ n # 0 => n \in sent /\ \A i \in sent : i <= n
<1>1. n \in Nat /\ Len(sequence) \in Nat
  BY DEF LastOf
<1>2. \A i \in sent : i <= n
  <2>1. SUFFICES ASSUME NEW i \in sent, i > n PROVE FALSE
    BY <1>1
  <2>2. i \in (n + 1)..Len(sequence)
    BY <1>1, <2>1
  <2> QED
    BY <2>2 DEF LastOf
<1>3. n # 0 => n \in sent
  BY <1>1 DEF LastOf
<1>4. n = 0 => sent = {}
  BY <1>1, <1>2
<1> QED
  BY <1>1, <1>2, <1>3, <1>4

LEMMA SentIs ==
  ASSUME commands \in Seq(Command), NEW n, LastOf(commands, n)
  PROVE  Sent = IF n = 0 THEN watcher.inputs ELSE commands[n].inputs
<1>1. PICK sent : sent = {i \in 1..Len(commands) : commands[i].kind = "inputs"}
  OBVIOUS
<1>2. \A i : i \in sent <=> i \in 1..Len(commands) /\ commands[i].kind = "inputs"
  BY <1>1
<1>3. PICK last : last = CHOOSE i \in sent : \A j \in sent : j <= i
  OBVIOUS
<1>4. Sent = IF sent = {} THEN watcher.inputs
             ELSE commands[last].inputs
  BY <1>1, <1>3 DEF Sent, Known
<1>5. /\ n \in Nat /\ sent \subseteq Nat /\ (n = 0 <=> sent = {})
      /\ n # 0 => n \in sent /\ \A i \in sent : i <= n
  BY <1>2, LastIs
<1>6. n # 0 => last \in sent /\ \A j \in sent : j <= last
  BY <1>3, <1>5
<1>7. ASSUME n # 0 PROVE last = n
  <2>1. last \in Nat /\ last <= n /\ n <= last
    BY <1>5, <1>6, <1>7
  <2> QED
    BY <1>5, <2>1
<1> QED
  BY <1>4, <1>5, <1>7

LEMMA SentIsAfter ==
  ASSUME commands' \in Seq(Command), NEW n, LastOf(commands', n)
  PROVE  Sent' = IF n = 0 THEN watcher'.inputs ELSE commands'[n].inputs
<1>1. PICK sent : sent = {i \in 1..Len(commands') : commands'[i].kind = "inputs"}
  OBVIOUS
<1>2. \A i : i \in sent <=> i \in 1..Len(commands') /\ commands'[i].kind = "inputs"
  BY <1>1
<1>3. PICK last : last = CHOOSE i \in sent : \A j \in sent : j <= i
  OBVIOUS
<1>4. Sent' = IF sent = {} THEN watcher'.inputs
             ELSE commands'[last].inputs
  BY <1>1, <1>3 DEF Sent, Known
<1>5. /\ n \in Nat /\ sent \subseteq Nat /\ (n = 0 <=> sent = {})
      /\ n # 0 => n \in sent /\ \A i \in sent : i <= n
  BY <1>2, LastIs
<1>6. n # 0 => last \in sent /\ \A j \in sent : j <= last
  BY <1>3, <1>5
<1>7. ASSUME n # 0 PROVE last = n
  <2>1. last \in Nat /\ last <= n /\ n <= last
    BY <1>5, <1>6, <1>7
  <2> QED
    BY <1>5, <2>1
<1> QED
  BY <1>4, <1>5, <1>7

LEMMA LastFacts ==
  ASSUME WorkspaceInv
  PROVE  /\ WatcherOK /\ Watching
         /\ \E n : LastOf(commands, n)
         /\ Sent \in Sources
<1>1. WatcherOK /\ Watching
  BY DEF WorkspaceInv
<1>2. PICK n \in 0..Len(commands) : LastOf(commands, n)
  BY <1>1 DEF Watching, LastSent, LastOf
<1>3. Sent = IF n = 0 THEN watcher.inputs ELSE commands[n].inputs
  BY <1>1, <1>2, SentIs DEF WatcherOK
<1>4. n # 0 => n \in 1..Len(commands) /\ commands[n] \in Command /\ commands[n].kind = "inputs"
  BY <1>1, <1>2 DEF WatcherOK, LastOf
<1>5. n # 0 => commands[n].inputs \in Sources
  BY <1>4 DEF Command
<1> QED
  BY <1>1, <1>2, <1>3, <1>5 DEF WatcherOK

\* The watcher's part of the invariant from its next state.
LEMMA WatchingAfter ==
  ASSUME watcher' = [inputs |-> watcher'.inputs, paths |-> watcher'.paths, watches |-> watcher'.watches],
         watcher'.inputs \in Sources, commands' \in Seq(Command),
         NEW n, LastOf(commands', n),
         ~dirty' => files'.acquired \subseteq
                      Watched(IF n = 0 THEN watcher'.inputs ELSE commands'[n].inputs)
  PROVE  WatcherOK' /\ Watching'
<1>1. WatcherOK'
  BY DEF WatcherOK, Command, Sources
<1>2. \E m \in 0..Len(commands') : LastSent(m)'
  BY DEF LastSent, LastOf
<1>3. Sent' = IF n = 0 THEN watcher'.inputs ELSE commands'[n].inputs
  BY SentIsAfter
<1>4. Watched(Sent)' = Watched(IF n = 0 THEN watcher'.inputs ELSE commands'[n].inputs)
  BY <1>3 DEF Watched
<1> QED
  BY <1>1, <1>2, <1>4 DEF Watching

LEMMA TypeActionStep ==
  ASSUME WorkspaceInv, NEW path \in Files, NEW text \in script.typings[path], Type(path, text),
         UNCHANGED script
  PROVE  WorkspaceInv'
<1>1. TypeInv
  BY DEF WorkspaceInv
<1>2. PICK message : message = [kind |-> "edit", path |-> path, text |-> text, paths |-> {}]
  OBVIOUS
<1>3. /\ inbox' = Append(inbox, message)
      /\ UNCHANGED <<files, hosts, projects, previous, revision, cache, required, dirty,
                     background, failed, needsRefresh, work, overlays, disk, watcher, commands>>
  BY <1>2 DEF Type, Worker, session, schedule, outside
<1>4. message \in Message
  BY <1>1, <1>2, WorkspaceAssumption DEF Message, TypeInv
<1>5. MessagesOK'
  BY <1>1, <1>2, <1>3, <1>4, MessageSent DEF TypeInv, OutsideOK
<1>6. OutsideOK'
  BY <1>1, <1>3, <1>5, ScriptKept DEF TypeInv, OutsideOK
<1>7. WatcherOK' /\ Watching'
  BY <1>3, WatcherKept DEF WorkspaceInv
<1> QED
  BY <1>3, <1>6, <1>7, OthersStep

LEMMA SaveStep ==
  ASSUME WorkspaceInv, NEW path \in Files, NEW text \in script.saves[path], Save(path, text),
         UNCHANGED script
  PROVE  WorkspaceInv'
<1>1. TypeInv
  BY DEF WorkspaceInv
<1>2. PICK command : command = [kind |-> "event", path |-> path]
  OBVIOUS
<1>3. /\ disk' = [disk EXCEPT ![path] = text]
      /\ commands' \in {commands, Append(commands, command)}
      /\ UNCHANGED <<files, hosts, projects, previous, revision, cache, required, dirty,
                     background, failed, needsRefresh, work, overlays, inbox, watcher>>
  BY <1>2 DEF Save, Worker, session, schedule
<1>4. text \in Contents
  BY <1>1, WorkspaceAssumption DEF TypeInv
<1>5. \A p \in Cacheable : path \notin In(p)
  BY <1>1 DEF TypeInv, Quiet
<1>6. /\ disk' \in [Files -> Contents]
      /\ \A p \in Cacheable : \A other \in In(p) : disk'[other] = script.disk[other]
  BY <1>1, <1>3, <1>4, <1>5 DEF TypeInv, OutsideOK, In
<1>7. OutsideOK'
  BY <1>1, <1>3, <1>6, ScriptKept DEF TypeInv, OutsideOK, MessagesOK, Message
<1>8. WatcherOK' /\ Watching'
  <2>1. CASE commands' = commands
    BY <1>3, <2>1, WatcherKept DEF WorkspaceInv
  <2>2. CASE commands' = Append(commands, command)
    <3>1. PICK n : LastOf(commands, n)
      BY LastFacts
    <3>2. WatcherOK /\ Watching
      BY LastFacts
    <3>3. command \in Command
      BY <1>2 DEF Command
    <3>4. /\ commands' \in Seq(Command) /\ Len(commands') = Len(commands) + 1
          /\ commands'[Len(commands) + 1] = command
          /\ \A i \in 1..Len(commands) : commands'[i] = commands[i]
          /\ Len(commands) \in Nat
      BY <2>2, <3>2, <3>3 DEF WatcherOK
    <3>5. n \in 0..Len(commands) /\ (n # 0 => n \in 1..Len(commands))
      BY <3>1, <3>4 DEF LastOf
    <3>6. LastOf(commands', n)
      <4>1. \A i \in (n + 1)..Len(commands') : i \in (n + 1)..Len(commands) \/ i = Len(commands) + 1
        BY <3>4, <3>5
      <4>2. \A i \in (n + 1)..Len(commands) : commands'[i] = commands[i]
        BY <3>4, <3>5
      <4> QED
        BY <1>2, <3>1, <3>4, <3>5, <4>1, <4>2 DEF LastOf
    <3>7. Sent = IF n = 0 THEN watcher'.inputs ELSE commands'[n].inputs
      BY <1>3, <3>1, <3>2, <3>4, <3>5, SentIs DEF WatcherOK
    <3>8. ~dirty' => files'.acquired \subseteq
                       Watched(IF n = 0 THEN watcher'.inputs ELSE commands'[n].inputs)
      BY <1>3, <3>2, <3>7 DEF Watching
    <3> QED
      BY <1>3, <3>2, <3>4, <3>6, <3>8, WatchingAfter DEF WatcherOK
  <2> QED
    BY <1>3, <2>1, <2>2
<1> QED
  BY <1>3, <1>7, <1>8, OthersStep

LEMMA DrainStep ==
  ASSUME WorkspaceInv, Drain, UNCHANGED script
  PROVE  WorkspaceInv'
<1>1. TypeInv
  BY DEF WorkspaceInv
<1>2. /\ commands' = << >> /\ watcher'.inputs = Sent
      /\ watcher' = [inputs |-> watcher'.inputs, paths |-> watcher'.paths, watches |-> watcher'.watches]
      /\ UNCHANGED <<files, hosts, projects, previous, revision, cache, required, dirty,
                     background, failed, needsRefresh, work, overlays, inbox, disk>>
  BY DEF Drain, Worker, session, schedule
<1>3. OutsideOK'
  BY <1>1, <1>2, OutsideKept DEF TypeInv
<1>4. Sent \in Sources /\ Watching
  BY LastFacts
<1>5. LastOf(commands', 0) /\ commands' \in Seq(Command)
  BY <1>2 DEF LastOf
<1>6. ~dirty' => files'.acquired \subseteq Watched(watcher'.inputs)
  BY <1>2, <1>4 DEF Watching
<1>7. WatcherOK' /\ Watching'
  BY <1>2, <1>4, <1>5, <1>6, WatchingAfter
<1> QED
  BY <1>2, <1>3, <1>7, OthersStep

LEMMA ReportStep ==
  ASSUME WorkspaceInv, NEW paths, paths \subseteq Files \/ paths = watcher.paths,
         Report(paths), UNCHANGED script
  PROVE  WorkspaceInv'
<1>1. TypeInv /\ WatcherOK /\ Watching
  BY DEF WorkspaceInv
<1>2. PICK differing : differing = Differing(paths)
  OBVIOUS
<1>3. differing \subseteq Watched(watcher.inputs) /\ differing \subseteq Files
  BY <1>2 DEF Differing, Watched
<1>4. PICK message : message = [kind |-> "files", path |-> None, text |-> None, paths |-> differing]
  OBVIOUS
<1>5. /\ watcher' = [watcher EXCEPT
           !.inputs = [path \in Files |-> IF path \in differing THEN disk[path] ELSE @[path]],
           !.paths = {}, !.watches = Watched(watcher.inputs)]
      /\ inbox' \in {inbox, Append(inbox, message)}
      /\ UNCHANGED <<files, hosts, projects, previous, revision, cache, required, dirty,
                     background, failed, needsRefresh, work, overlays, disk, commands>>
  BY <1>2, <1>4 DEF Report, Worker, session, schedule
<1>6. /\ watcher'.inputs = [path \in Files |-> IF path \in differing THEN disk[path]
                                               ELSE watcher.inputs[path]]
      /\ watcher' = [inputs |-> watcher'.inputs, paths |-> watcher'.paths, watches |-> watcher'.watches]
  BY <1>1, <1>5 DEF WatcherOK
<1>7. \A path \in Files : disk[path] \in Contents /\ disk[path] # Unread
  BY <1>1, TextsAreApart DEF TypeInv, OutsideOK
<1>8. watcher'.inputs \in Sources
  BY <1>1, <1>6, <1>7 DEF WatcherOK, Sources
<1>9. Watched(watcher'.inputs) = Watched(watcher.inputs)
  BY <1>3, <1>6, <1>7 DEF Watched
<1>10. message \in Message /\ message.kind # "edit"
  BY <1>3, <1>4 DEF Message
<1>11. OutsideOK'
  <2>1. MessagesOK'
    BY <1>1, <1>5, <1>10, MessageSent DEF TypeInv, OutsideOK
  <2> QED
    BY <1>1, <1>5, <2>1, ScriptKept DEF TypeInv, OutsideOK
<1>12. WatcherOK' /\ Watching'
  <2>1. PICK n : LastOf(commands, n)
    BY LastFacts
  <2>2. commands \in Seq(Command) /\ commands' = commands
    BY <1>1, <1>5 DEF WatcherOK
  <2>3. Sent = IF n = 0 THEN watcher.inputs ELSE commands[n].inputs
    BY <2>1, <2>2, SentIs
  <2>4. Watched(IF n = 0 THEN watcher'.inputs ELSE commands'[n].inputs) = Watched(Sent)
    BY <1>9, <2>2, <2>3
  <2>5. ~dirty' => files'.acquired \subseteq Watched(Sent)
    BY <1>1, <1>5 DEF Watching
  <2> QED
    BY <1>6, <1>8, <2>1, <2>2, <2>4, <2>5, WatchingAfter
<1> QED
  BY <1>5, <1>11, <1>12, OthersStep

LEMMA WatcherStepStep ==
  ASSUME WorkspaceInv, WatcherStep \/ Reconcile, UNCHANGED script
  PROVE  WorkspaceInv'
BY DrainStep, ReportStep DEF WatcherStep, ReadChanged, Reconcile

LEMMA RestartStep ==
  ASSUME WorkspaceInv, Restart, UNCHANGED script
  PROVE  WorkspaceInv'
<1>1. TypeInv
  BY DEF WorkspaceInv
<1>2. /\ files' = NothingRead /\ hosts' = [p \in Projects |-> 0]
      /\ projects' = << >> /\ previous' = << >> /\ revision' = 0
      /\ needsRefresh' = FALSE /\ dirty' = TRUE /\ background' = FALSE /\ failed' = FALSE
      /\ work' = [kind |-> "idle", for |-> None, at |-> 0]
      /\ watcher' = [inputs |-> [path \in Files |-> Unread], paths |-> {}, watches |-> {}]
      /\ commands' = << >>
      /\ UNCHANGED <<disk, overlays, cache, inbox>>
  BY DEF Restart, NoProjects, Idle
<1>3. OutsideOK'
  BY <1>1, <1>2, OutsideKept DEF TypeInv
<1>4. DOMAIN projects' = {} /\ DOMAIN previous' = {}
  BY <1>2
<1>5. \A q : Held(q)' = {}
  BY <1>4 DEF Held
<1>6. SessionOK'
  BY <1>2, <1>4 DEF SessionOK
<1>7. WorkerOK'
  BY <1>2 DEF WorkerOK, Kinds
<1>8. FilesOK(files')
  <2>1. \A p \in Cacheable : In(p) \subseteq Files
    BY DEF In
  <2>2. [path \in Files |-> Unread] \in Sources
    BY DEF Sources
  <2>3. /\ files'.disk = [path \in Files |-> Unread] /\ files'.observed = [path \in Files |-> Unread]
        /\ files'.acquired = {} /\ files'.pending = {}
        /\ files' = [disk |-> files'.disk, observed |-> files'.observed,
                     acquired |-> files'.acquired, pending |-> files'.pending,
                     listings |-> files'.listings, fingerprints |-> files'.fingerprints]
    BY <1>2 DEF NothingRead
  <2> QED
    BY <2>1, <2>2, <2>3 DEF FilesOK
<1>9. TypeInv'
  BY <1>1, <1>2, <1>3, <1>6, <1>7, <1>8, TypeStep DEF TypeInv
<1>10. Knowledge'
  BY <1>5 DEF Knowledge, AnalysesOK, Revised, Sound
<1>11. Control' /\ Visited' /\ Current' /\ Lowering'
  BY <1>2 DEF Control, Visited, Current, Lowering, NoProjects, NothingRead
<1>12. WatcherOK' /\ Watching'
  <2>1. LastOf(commands', 0) /\ commands' \in Seq(Command)
    BY <1>2 DEF LastOf
  <2>2. watcher'.inputs \in Sources
    BY <1>2 DEF Sources
  <2>3. watcher' = [inputs |-> watcher'.inputs, paths |-> watcher'.paths, watches |-> watcher'.watches]
    BY <1>2
  <2> QED
    BY <1>2, <2>1, <2>2, <2>3, WatchingAfter
<1> QED
  BY <1>9, <1>10, <1>11, <1>12 DEF WorkspaceInv

-----------------------------------------------------------------------------
(* A message.                                                              *)

LEMMA InvalidateFacts ==
  ASSUME NEW fs, FilesOK(fs), NEW paths, NEW gs, gs = Invalidate(fs, paths)
  PROVE  /\ FilesOK(gs) /\ gs.pending = fs.pending
         /\ gs.acquired \subseteq fs.acquired
         /\ \A path \in Files : gs.disk[path] = IF path \in paths THEN Unread ELSE fs.disk[path]
<1>1. /\ gs.disk = [path \in Files |-> IF path \in paths THEN Unread ELSE fs.disk[path]]
      /\ gs.acquired = fs.acquired \ paths
      /\ gs.pending = fs.pending /\ gs.observed = fs.observed
      /\ gs = [disk |-> gs.disk, observed |-> gs.observed, acquired |-> gs.acquired,
               pending |-> gs.pending, listings |-> gs.listings,
               fingerprints |-> gs.fingerprints]
  BY DEF Invalidate, FilesOK
<1>2. gs.disk \in Sources
  BY <1>1 DEF FilesOK, Sources
<1>3. \A p \in Cacheable : In(p) \subseteq Files
  BY DEF In
<1>4. FilesOK(gs)
  BY <1>1, <1>2, <1>3 DEF FilesOK
<1> QED
  BY <1>1, <1>4

LEMMA ReadDiskFacts ==
  ASSUME NEW fs, FilesOK(fs), NEW path \in Files, NEW dk, Serves(dk), NEW gs, gs = ReadDisk(fs, path, dk)
  PROVE  /\ FilesOK(gs) /\ gs.pending = fs.pending /\ gs.acquired = fs.acquired
         /\ gs.disk[path] = Kept(fs, path, dk)
         /\ \A other \in Files : other # path => gs.disk[other] = fs.disk[other]
<1>1. /\ gs.disk = [fs.disk EXCEPT ![path] = Kept(fs, path, dk)]
      /\ gs.acquired = fs.acquired /\ gs.pending = fs.pending /\ gs.observed = fs.observed
      /\ gs = [disk |-> gs.disk, observed |-> gs.observed, acquired |-> gs.acquired,
               pending |-> gs.pending, listings |-> gs.listings,
               fingerprints |-> gs.fingerprints]
  BY DEF ReadDisk, FilesOK
<1>2. Kept(fs, path, dk) \in Contents
  BY DEF Kept, FilesOK, Sources, Serves
<1>3. fs.disk \in Sources /\ gs.disk \in Sources
  BY <1>1, <1>2 DEF FilesOK, Sources
<1>4. \A p \in Cacheable : \A other \in In(p) : gs.disk[other] \in {Unread, script.disk[other]}
  <2>1. SUFFICES ASSUME NEW p \in Cacheable, NEW other \in In(p)
                 PROVE  gs.disk[other] \in {Unread, script.disk[other]}
    OBVIOUS
  <2>2. fs.disk[other] \in {Unread, script.disk[other]} /\ dk[other] = script.disk[other] /\ other \in Files
    BY <2>1 DEF FilesOK, Serves, In
  <2> QED
    BY <1>1, <1>3, <2>2 DEF Kept, Sources
<1>5. FilesOK(gs)
  BY <1>1, <1>3, <1>4 DEF FilesOK
<1> QED
  BY <1>1, <1>3, <1>5 DEF Sources

\* Laying a text over a path drops at most what is known of the path.
LEMMA OverlaidFacts ==
  ASSUME WorkspaceInv, NEW path \in Files, NEW text, NEW gs, gs = Overlaid(path, text).files
  PROVE  FilesOK(gs) /\ gs.pending = files.pending /\ gs.acquired \subseteq files.acquired
<1>1. TypeInv
  BY DEF WorkspaceInv
<1>2. Serves(disk) /\ FilesOK(files)
  BY <1>1, StateFacts
<1>3. PICK opened : opened = IF text = None THEN Invalidate(files, {path}) ELSE files
  OBVIOUS
<1>4. PICK read : read = IF overlays[path] = None \/ text = None
                         THEN ReadDisk(opened, path, disk) ELSE opened
  OBVIOUS
<1>5. gs = read \/ gs = ChangedOverlay(read, path)
  BY <1>3, <1>4 DEF Overlaid
<1>6. FilesOK(opened) /\ opened.pending = files.pending /\ opened.acquired \subseteq files.acquired
  <2>1. CASE text = None
    <3>1. opened = Invalidate(files, {path})
      BY <1>3, <2>1
    <3> QED
      BY <1>2, <3>1, InvalidateFacts
  <2> QED
    BY <1>2, <1>3, <2>1
<1>7. FilesOK(read) /\ read.pending = opened.pending /\ read.acquired = opened.acquired
  <2>1. CASE read = ReadDisk(opened, path, disk)
    BY <1>2, <1>6, <2>1, ReadDiskFacts
  <2> QED
    BY <1>4, <1>6, <2>1
<1>8. CASE gs = ChangedOverlay(read, path)
  <2>1. /\ gs.disk = read.disk /\ gs.observed = read.observed
        /\ gs.acquired = read.acquired /\ gs.pending = read.pending
        /\ gs = [disk |-> gs.disk, observed |-> gs.observed, acquired |-> gs.acquired,
                 pending |-> gs.pending, listings |-> gs.listings,
                 fingerprints |-> gs.fingerprints]
    BY <1>7, <1>8 DEF ChangedOverlay, FilesOK
  <2>2. FilesOK(gs)
    BY <1>7, <2>1 DEF FilesOK
  <2> QED
    BY <1>6, <1>7, <2>1, <2>2
<1> QED
  BY <1>5, <1>6, <1>7, <1>8

\* An edit that changes nothing leaves every text; unless it closes the buffer
\* it leaves the files as they are.
LEMMA UnchangedFacts ==
  ASSUME WorkspaceInv, NEW path \in Files, NEW text, NEW gs, gs = Overlaid(path, text).files,
         Overlaid(path, text).changed = FALSE, overlays[path] # None,
         NEW after, after = [overlays EXCEPT ![path] = text]
  PROVE  /\ Text(gs, after) = Text(files, overlays)
         /\ text # None => gs = files
<1>1. TypeInv
  BY DEF WorkspaceInv
<1>2. Serves(disk) /\ FilesOK(files) /\ overlays \in [Files -> Texts \cup {None}]
  BY <1>1, StateFacts
<1>3. CASE text # None
  <2>1. gs = files /\ overlays[path] = text
    BY <1>3 DEF Overlaid, Effective
  <2>2. after = overlays
    BY <1>2, <2>1
  <2> QED
    BY <2>1, <2>2
<1>4. CASE text = None
  <2>1. PICK opened : opened = Invalidate(files, {path})
    OBVIOUS
  <2>2. PICK read : read = ReadDisk(opened, path, disk)
    OBVIOUS
  <2>3. gs = read /\ overlays[path] = Kept(read, path, disk)
    BY <1>4, <2>1, <2>2 DEF Overlaid, Effective
  <2>4. /\ FilesOK(opened) /\ opened.disk[path] = Unread
        /\ \A p \in Files : p # path => opened.disk[p] = files.disk[p]
    BY <1>2, <2>1, InvalidateFacts
  <2>5. /\ read.disk[path] = Kept(opened, path, disk)
        /\ \A p \in Files : p # path => read.disk[p] = opened.disk[p]
    BY <1>2, <2>2, <2>4, ReadDiskFacts
  <2>6. disk[path] \in Contents /\ disk[path] # Unread
    BY <1>2, TextsAreApart DEF Serves
  <2>7. read.disk[path] = disk[path]
    BY <2>4, <2>5 DEF Kept
  <2>8. overlays[path] = disk[path]
    BY <2>3, <2>6, <2>7 DEF Kept
  <2>9. \A p \in Files : p # path => read.disk[p] = files.disk[p]
    BY <2>4, <2>5
  <2>10. after[path] = None /\ \A p \in Files : p # path => after[p] = overlays[p]
    BY <1>2, <1>4
  <2>11. \A p \in Files : Effective(gs.disk[p], after[p]) = Effective(files.disk[p], overlays[p])
    <3>1. Effective(gs.disk[path], after[path]) = Effective(files.disk[path], overlays[path])
      BY <2>3, <2>7, <2>8, <2>10 DEF Effective
    <3>2. \A p \in Files : p # path =>
            Effective(gs.disk[p], after[p]) = Effective(files.disk[p], overlays[p])
      BY <2>3, <2>9, <2>10
    <3> QED
      BY <3>1, <3>2
  <2> QED
    BY <1>4, <2>11 DEF Text
<1> QED
  BY <1>3, <1>4

LEMMA HandleStep ==
  ASSUME WorkspaceInv, Handle, UNCHANGED script
  PROVE  WorkspaceInv'
<1>1. TypeInv /\ OutsideOK /\ Serves(disk) /\ overlays \in [Files -> Texts \cup {None}]
  BY StateFacts DEF WorkspaceInv, TypeInv
<1>2. PICK message : message = Head(inbox)
  OBVIOUS
<1>3. PICK edit : edit = Overlaid(message.path, message.text)
  OBVIOUS
<1>4. /\ work = Idle /\ inbox # << >> /\ inbox' = Tail(inbox)
      /\ UNCHANGED <<hosts, projects, previous, revision, cache, needsRefresh,
                     background, failed, work, disk, watcher, commands>>
      /\ IF message.kind = "files"
         THEN files' = Invalidate(files, message.paths) /\ dirty' = TRUE /\ UNCHANGED overlays
         ELSE IF message.text = None /\ overlays[message.path] = None
         THEN UNCHANGED <<files, dirty, overlays>>
         ELSE /\ files' = edit.files
              /\ dirty' = (dirty \/ edit.changed
                           \/ (overlays[message.path] = None /\ message.text # None))
              /\ overlays' = [overlays EXCEPT ![message.path] = message.text]
  BY <1>2, <1>3 DEF Handle, outside
<1>5. /\ message.kind \in {"edit", "files"} /\ message.paths \subseteq Files
      /\ message.text \in Texts \cup {None}
      /\ message.kind = "edit" => message.path \in Files /\ message.text \in script.typings[message.path]
      /\ MessagesOK'
  BY <1>1, <1>2, <1>4, MessageTaken DEF Message, OutsideOK
<1>6. ASSUME overlays' \in [Files -> Texts \cup {None}],
             \A p \in Cacheable : \A path \in In(p) : overlays'[path] = None
      PROVE  OutsideOK'
  BY <1>1, <1>4, <1>5, <1>6, ScriptKept DEF OutsideOK
<1>7. Alike(projects', projects) /\ work.kind # "visit" /\ work'.kind = "idle"
  BY <1>4, AlikeItself DEF Idle
<1>8. ASSUME dirty' \in BOOLEAN PROVE WorkerOK'
  BY <1>1, <1>4, <1>8, ScriptKept DEF TypeInv, WorkerOK
<1>9. FilesOK(files) /\ CacheOK(cache')
  BY <1>1, <1>4 DEF TypeInv
<1>10. CASE message.kind = "files"
  <2>1. files' = Invalidate(files, message.paths) /\ dirty' = TRUE /\ UNCHANGED overlays
    BY <1>4, <1>10
  <2>2. FilesOK(files') /\ files'.pending = files.pending
    BY <1>9, <2>1, InvalidateFacts
  <2>3. OutsideOK'
    BY <1>1, <1>6, <2>1 DEF OutsideOK
  <2>4. WatcherOK' /\ Watching'
    BY <1>4, <2>1, WatcherKept DEF WorkspaceInv
  <2> QED
    BY <1>4, <1>7, <1>8, <1>9, <2>1, <2>2, <2>3, <2>4, RestStep
<1>11. CASE message.kind # "files" /\ message.text = None /\ overlays[message.path] = None
  <2>1. UNCHANGED <<files, dirty, overlays>>
    BY <1>4, <1>11
  <2>2. OutsideOK'
    BY <1>1, <1>6, <2>1 DEF OutsideOK
  <2>3. WatcherOK' /\ Watching'
    BY <1>4, <2>1, WatcherKept DEF WorkspaceInv
  <2>4. dirty' \in BOOLEAN
    BY <1>1, <2>1 DEF TypeInv, WorkerOK
  <2> QED
    BY <1>4, <1>7, <1>8, <1>9, <2>1, <2>2, <2>3, <2>4, RestStep
<1>12. CASE message.kind # "files" /\ ~(message.text = None /\ overlays[message.path] = None)
  <2>1. PICK path \in Files : path = message.path
    BY <1>5, <1>12
  <2>2. PICK text : text = message.text
    OBVIOUS
  <2>3. /\ files' = Overlaid(path, text).files
        /\ overlays' = [overlays EXCEPT ![path] = text]
        /\ dirty' = (dirty \/ Overlaid(path, text).changed \/ (overlays[path] = None /\ text # None))
    BY <1>3, <1>4, <1>12, <2>1, <2>2
  <2>4. FilesOK(files') /\ files'.pending = files.pending /\ files'.acquired \subseteq files.acquired
    BY <2>3, OverlaidFacts
  <2>5. text \in script.typings[path] /\ text \in Texts \cup {None}
    BY <1>5, <1>12, <2>1, <2>2
  <2>6. \A p \in Cacheable : path \notin In(p)
    BY <1>1, <2>5 DEF TypeInv, Quiet
  <2>7. OutsideOK'
    BY <1>1, <1>6, <2>3, <2>5, <2>6 DEF OutsideOK, In
  <2>8. Overlaid(path, text).changed \in BOOLEAN
    BY DEF Overlaid
  <2>9. dirty' \in BOOLEAN /\ (~dirty' => ~dirty /\ ~Overlaid(path, text).changed
                                             /\ (overlays[path] # None \/ text = None))
    BY <1>1, <2>3, <2>8 DEF TypeInv, WorkerOK
  <2>10. ~dirty' => overlays[path] # None
    BY <1>12, <2>1, <2>2, <2>9
  <2>11. ~dirty' => /\ Text(files', overlays') = Text(files, overlays)
                    /\ text # None => files' = files
    <3>1. SUFFICES ASSUME ~dirty' PROVE /\ Text(files', overlays') = Text(files, overlays)
                                        /\ text # None => files' = files
      OBVIOUS
    <3>2. Overlaid(path, text).changed = FALSE /\ overlays[path] # None
      BY <2>8, <2>9, <2>10, <3>1
    <3>3. PICK gs, after : gs = Overlaid(path, text).files /\ after = [overlays EXCEPT ![path] = text]
      OBVIOUS
    <3>4. Text(gs, after) = Text(files, overlays) /\ (text # None => gs = files)
      BY <3>2, <3>3, UnchangedFacts
    <3> QED
      BY <2>3, <3>3, <3>4
  <2>12. ~Closes => text # None
    BY <2>1, <2>2, <2>5 DEF Closes
  <2>13. WatcherOK' /\ Watching'
    BY <1>4, <2>4, <2>9, WatcherKept DEF WorkspaceInv
  <2> QED
    BY <1>4, <1>7, <1>8, <1>9, <2>4, <2>7, <2>9, <2>11, <2>12, <2>13, RestStep
<1> QED
  BY <1>10, <1>11, <1>12

-----------------------------------------------------------------------------
(* The end of a refresh.                                                   *)

LEMMA RetainFacts ==
  ASSUME NEW fs, FilesOK(fs), NEW gs, gs = RetainAcquired(fs)
  PROVE  /\ FilesOK(gs) /\ gs.disk = fs.disk /\ gs.pending = {}
         /\ gs.acquired = {path \in fs.acquired : fs.observed[path] # Unread}
<1>1. /\ gs.disk = fs.disk /\ gs.observed = fs.observed /\ gs.pending = {}
      /\ gs.acquired = {path \in fs.acquired : fs.observed[path] # Unread}
      /\ gs = [disk |-> gs.disk, observed |-> gs.observed, acquired |-> gs.acquired,
               pending |-> gs.pending, listings |-> gs.listings,
               fingerprints |-> gs.fingerprints]
  BY DEF RetainAcquired, FilesOK
<1> QED
  BY <1>1 DEF FilesOK

LEMMA AbandonFacts ==
  ASSUME NEW fs, FilesOK(fs), NEW gs, gs = AbandonAcquired(fs)
  PROVE  /\ FilesOK(gs) /\ gs.disk = fs.disk /\ gs.pending = {}
         /\ gs.acquired = fs.acquired \ fs.pending
<1>1. /\ gs.disk = fs.disk /\ gs.observed = fs.observed /\ gs.pending = {}
      /\ gs.acquired = fs.acquired \ fs.pending
      /\ gs = [disk |-> gs.disk, observed |-> gs.observed, acquired |-> gs.acquired,
               pending |-> gs.pending, listings |-> gs.listings,
               fingerprints |-> gs.fingerprints]
  BY DEF AbandonAcquired, FilesOK
<1> QED
  BY <1>1 DEF FilesOK

\* What Ended says, whether or not the refresh went wrong.
LEMMA EndedFacts ==
  ASSUME WorkspaceInv, work.kind = "visit", NEW fs, FilesOK(fs), NEW wrong \in BOOLEAN, Ended(fs, wrong),
         ~dirty => fs.acquired = files.acquired, UNCHANGED script
  PROVE  /\ previous' = NoProjects /\ needsRefresh' = FALSE /\ dirty' = FALSE
         /\ failed' = (dirty /\ wrong)
         /\ FilesOK(files') /\ files'.disk = fs.disk /\ files'.pending = {}
         /\ files'.acquired = {path \in fs.acquired : fs.observed[path] # Unread}
         /\ OutsideOK' /\ WorkerOK' /\ WatcherOK' /\ Watching'
         /\ work'.kind \in {"idle", "load", "lower"}
         /\ work'.kind = "lower" => work.for = "lower"
         /\ wrong => work'.kind = "idle"
         /\ UNCHANGED <<hosts, revision, required, overlays>>
<1>1. TypeInv /\ WatcherOK /\ Watching /\ (work.for = "edit" <=> dirty) /\ (~dirty => ~failed)
      /\ OutsideOK /\ WorkerOK
  BY DEF WorkspaceInv, TypeInv, Control
<1>2. /\ files' = RetainAcquired(fs) /\ previous' = NoProjects /\ needsRefresh' = FALSE
      /\ work' = IF ~wrong /\ work.for = "check" THEN [kind |-> "load", for |-> None, at |-> 0]
                 ELSE IF ~wrong /\ work.for = "lower"
                      THEN [kind |-> "lower", for |-> None, at |-> 1]
                      ELSE [kind |-> "idle", for |-> None, at |-> 0]
      /\ UNCHANGED <<hosts, revision, required, focus, overlays, inbox, disk, watcher, budget>>
  <2>1. Idle = [kind |-> "idle", for |-> None, at |-> 0]
    BY DEF Idle
  <2>2. [Idle EXCEPT !.kind = "load"] = [kind |-> "load", for |-> None, at |-> 0]
    BY <2>1
  <2>3. [Idle EXCEPT !.kind = "lower", !.at = 1] = [kind |-> "lower", for |-> None, at |-> 1]
    <3>1. PICK lower : lower = [Idle EXCEPT !.kind = "lower", !.at = 1]
      OBVIOUS
    <3>2. lower = [kind |-> "lower", for |-> None, at |-> 1]
      BY <3>1 DEF Idle
    <3> QED
      BY <3>1, <3>2
  <2>4. work' = IF ~wrong /\ work.for = "check" THEN [Idle EXCEPT !.kind = "load"]
                ELSE IF ~wrong /\ work.for = "lower"
                     THEN [Idle EXCEPT !.kind = "lower", !.at = 1]
                     ELSE Idle
    BY DEF Ended
  <2>5. /\ files' = RetainAcquired(fs) /\ previous' = NoProjects /\ needsRefresh' = FALSE
        /\ UNCHANGED <<hosts, revision, required, focus, overlays, inbox, disk, watcher, budget>>
    BY DEF Ended
  <2> QED
    BY <2>1, <2>4, <2>5, <2>2, <2>3
<1>3. CASE work.for = "edit"
  <2>1. PICK command : command = [kind |-> "inputs", inputs |-> fs.observed]
    OBVIOUS
  <2>2. /\ failed' = wrong /\ dirty' = FALSE /\ background' = FALSE
        /\ commands' = Append(commands, command)
    BY <1>3, <2>1 DEF Ended
  <2>3. command \in Command /\ fs.observed \in Sources
    BY <2>1 DEF FilesOK, Command
  <2>4. /\ commands \in Seq(Command) /\ commands' \in Seq(Command)
        /\ Len(commands') = Len(commands) + 1 /\ Len(commands) \in Nat
        /\ commands'[Len(commands) + 1] = command
    BY <1>1, <2>2, <2>3 DEF WatcherOK
  <2>5. PICK n : n = Len(commands) + 1
    OBVIOUS
  <2>6. LastOf(commands', n) /\ n # 0
    BY <2>1, <2>4, <2>5 DEF LastOf
  <2>7. files'.acquired = {path \in fs.acquired : fs.observed[path] # Unread}
    BY <1>2, RetainFacts
  <2>8. files'.acquired \subseteq Watched(commands'[n].inputs)
    BY <2>1, <2>4, <2>5, <2>7 DEF Watched, FilesOK
  <2>9. WatcherOK' /\ Watching'
    BY <1>1, <1>2, <2>4, <2>6, <2>8, WatchingAfter DEF WatcherOK
  <2>10. WorkerOK'
    BY <1>1, <1>2, <1>3, <2>2 DEF WorkerOK, Kinds
  <2> QED
    BY <1>1, <1>2, <1>3, <2>2, <2>9, <2>10, OutsideKept, RetainFacts
<1>4. CASE work.for # "edit"
  <2>1. /\ ~dirty /\ background' = (background \/ (wrong /\ work.for # "ask"))
        /\ UNCHANGED <<failed, dirty, commands>>
    BY <1>1, <1>4 DEF Ended
  <2>2. files'.acquired = {path \in fs.acquired : fs.observed[path] # Unread}
    BY <1>2, RetainFacts
  <2>3. WatcherOK' /\ Watching'
    BY <1>1, <1>2, <2>1, <2>2, WatcherKept
  <2>4. background' \in BOOLEAN
    BY <2>1
  <2>5. dirty = FALSE /\ failed = FALSE
    BY <1>1, <2>1 DEF WorkerOK
  <2>6. WorkerOK'
    BY <1>2, <2>1, <2>4, <2>5 DEF WorkerOK, Kinds
  <2> QED
    BY <1>1, <1>2, <2>1, <2>2, <2>3, <2>5, <2>6, OutsideKept, RetainFacts
<1> QED
  BY <1>3, <1>4

LEMMA FinishStep ==
  ASSUME WorkspaceInv, Finish, UNCHANGED script
  PROVE  WorkspaceInv'
<1>1. TypeInv /\ Knowledge /\ Control /\ Visited /\ script \in Scripts
  BY DEF WorkspaceInv, TypeInv
<1>2. /\ work.kind = "visit" /\ work.at = Len(Order) + 1
      /\ Ended(files, FALSE) /\ UNCHANGED <<projects, cache>>
  BY DEF Finish
<1>3. /\ previous' = << >> /\ needsRefresh' = FALSE /\ dirty' = FALSE /\ failed' = FALSE
      /\ FilesOK(files') /\ files'.disk = files.disk /\ files'.pending = {}
      /\ files'.acquired = {path \in files.acquired : files.observed[path] # Unread}
      /\ OutsideOK' /\ WorkerOK' /\ WatcherOK' /\ Watching'
      /\ work'.kind \in {"idle", "load", "lower"}
      /\ work'.kind = "lower" => work.for = "lower"
      /\ UNCHANGED <<hosts, revision, required, overlays>>
  BY <1>1, <1>2, EndedFacts DEF TypeInv, NoProjects
<1>4. /\ Order' = Order /\ Graph' = Graph /\ Deps' = Deps /\ (Closes' <=> Closes)
  BY ScriptKept
<1>5. DOMAIN projects = Graph
  BY <1>1, <1>2, BeforeFacts DEF Control
<1>6. \A q : Held(q)' \subseteq Held(q)
  BY <1>2, <1>3 DEF Held
<1>7. TypeInv'
  <2>1. DOMAIN previous' = {}
    BY <1>3
  <2>2. SessionOK'
    BY <1>1, <1>2, <1>3, <1>4, <2>1 DEF TypeInv, SessionOK
  <2> QED
    BY <1>1, <1>2, <1>3, <2>2, TypeStep DEF TypeInv
<1>8. Knowledge'
  <2>1. \A q \in Graph : \A x \in Held(q)' : x \in Held(q) /\ Like(x, x)
    BY <1>6 DEF Like
  <2> QED
    BY <1>1, <1>3, <2>1, KnowledgeKept DEF TypeInv, SessionOK
<1>9. Control'
  BY <1>3 DEF Control, NoProjects
<1>10. Snapshot' = Snapshot
  BY <1>3 DEF Snapshot
<1>11. \A q : Linking(q)' <=> Linking(q)
  BY <1>2, <1>3, <1>4 DEF Linking, Revisions, IsCurrent
<1>12. Current'
  <2>1. ASSUME NEW q \in Graph, NEW x \in Held(q)'
        PROVE  /\ x.inputs = Loaded(q, Snapshot)
               /\ \A path \in DOMAIN x.inputs : Holding(files, path)'
    <3>1. x = projects[q]
      BY <1>2, <1>3, <2>1 DEF Held
    <3>2. /\ x.inputs = Loaded(q, Snapshot)
          /\ \A path \in DOMAIN x.inputs : Holding(files, path) /\ files.observed[path] # Unread
      BY <1>1, <1>2, <1>5, <3>1 DEF Visited
    <3> QED
      BY <1>3, <3>2 DEF Holding
  <2>2. \A q \in Graph : Linking(q)'
    BY <1>1, <1>2, <1>5, <1>11 DEF Visited
  <2> QED
    BY <1>2, <1>4, <1>5, <1>10, <2>1, <2>2 DEF Current
<1>13. Lowering'
  BY <1>2, <1>3 DEF Lowering, WorkspaceInv
<1>14. Visited'
  BY <1>3 DEF Visited
<1> QED
  BY <1>3, <1>7, <1>8, <1>9, <1>12, <1>13, <1>14 DEF WorkspaceInv

LEMMA FailStep ==
  ASSUME WorkspaceInv, Fail, UNCHANGED script
  PROVE  WorkspaceInv'
<1>1. TypeInv /\ Knowledge /\ Control /\ script \in Scripts
  BY DEF WorkspaceInv, TypeInv
<1>2. PICK p : p = Visiting
  OBVIOUS
<1>3. PICK look \in Looked(Visiting) :
        /\ Analysed(Visiting, look.files).inputs[Main[Visiting]] = Absent
        /\ cache' = look.cache
        /\ Ended(ReadBy(look.files, {Main[Visiting]}), TRUE)
  BY DEF Fail
<1>4. Busy("visit") /\ work.kind = "visit" /\ projects' = NoProjects
  BY DEF Fail, Busy
<1>5. /\ FilesOK(look.files) /\ Keeps(files, look.files) /\ CacheOK(look.cache)
      /\ ~dirty => Undisturbed(files, look.files)
  BY <1>3, <1>4, LookFacts
<1>6. PICK new : new = Analysed(Visiting, look.files)
  OBVIOUS
<1>7. dirty
  <2>1. SUFFICES ASSUME ~dirty PROVE FALSE
    OBVIOUS
  <2>2. PICK read : read = ReadBy(look.files, DOMAIN new.inputs)
    OBVIOUS
  <2>3. new.inputs = previous[Visiting].inputs
    BY <1>4, <1>5, <1>6, <2>1, <2>2, AnalysedFacts
  <2>4. previous[Visiting].inputs[Main[Visiting]] # Absent
    BY <1>4, <2>1, Calm DEF AnalysisOK
  <2> QED
    BY <1>3, <1>6, <2>3, <2>4
<1>8. PICK read : read = ReadBy(look.files, {Main[Visiting]})
  OBVIOUS
<1>9. {Main[Visiting]} \in SUBSET Files
  BY <1>4, VisitingFacts, WorkspaceAssumption
<1>10. FilesOK(read)
  BY <1>1, <1>5, <1>8, <1>9, StateFacts, ReadFacts DEF ReadBy
<1>11. /\ previous' = << >> /\ needsRefresh' = FALSE /\ dirty' = FALSE /\ failed' = TRUE
       /\ FilesOK(files') /\ files'.pending = {}
       /\ OutsideOK' /\ WorkerOK' /\ WatcherOK' /\ Watching'
       /\ work'.kind = "idle"
       /\ UNCHANGED <<hosts, revision, required, overlays>>
  BY <1>3, <1>4, <1>7, <1>8, <1>10, EndedFacts DEF NoProjects
<1>12. DOMAIN projects' = {} /\ DOMAIN previous' = {}
  BY <1>4, <1>11 DEF NoProjects
<1>13. \A q : Held(q)' = {}
  BY <1>12 DEF Held
<1>14. TypeInv'
  <2>1. SessionOK'
    BY <1>1, <1>4, <1>11, <1>12 DEF TypeInv, SessionOK, NoProjects
  <2> QED
    BY <1>1, <1>3, <1>5, <1>11, <2>1, TypeStep
<1>15. Knowledge'
  BY <1>13 DEF Knowledge, AnalysesOK, Revised, Sound
<1>16. Control' /\ Visited' /\ Current' /\ Lowering'
  BY <1>11, <1>12 DEF Control, Visited, Current, Lowering, NoProjects
<1> QED
  BY <1>11, <1>14, <1>15, <1>16 DEF WorkspaceInv

\* A cancelled refresh: what was visited is kept with what was there before.
LEMMA UnwoundStep ==
  ASSUME WorkspaceInv, Busy("visit"), NEW fs, FilesOK(fs), Keeps(files, fs),
         ~dirty => Undisturbed(files, fs),
         Unwound(fs), CacheOK(cache'), hosts' \in [Projects -> Nat],
         UNCHANGED <<script, revision, dirty, background, failed, overlays, inbox, disk, watcher, commands>>
  PROVE  WorkspaceInv'
<1>1. TypeInv /\ Knowledge /\ Control /\ script \in Scripts /\ work.kind = "visit"
  BY DEF WorkspaceInv, TypeInv, Busy
<1>2. /\ files' = AbandonAcquired(fs) /\ previous' = << >> /\ needsRefresh' = TRUE
      /\ projects' = [p \in DOMAIN projects \cup DOMAIN previous |->
                        IF p \in DOMAIN projects THEN projects[p] ELSE previous[p]]
      /\ work' = [kind |-> "idle", for |-> None, at |-> 0]
  BY DEF Unwound, NoProjects, Idle
<1>3. /\ FilesOK(files') /\ files'.disk = fs.disk /\ files'.pending = {}
      /\ files'.acquired = fs.acquired \ fs.pending
  BY <1>2, AbandonFacts
<1>4. /\ Order' = Order /\ Graph' = Graph /\ Deps' = Deps /\ (Closes' <=> Closes)
  BY ScriptKept
<1>5. DOMAIN projects' = DOMAIN projects \cup DOMAIN previous /\ DOMAIN previous' = {}
  BY <1>2
<1>6. \A q : Held(q)' \subseteq Held(q)
  BY <1>2, <1>5 DEF Held
<1>7. TypeInv'
  <2>1. SessionOK'
    BY <1>1, <1>2, <1>4, <1>5 DEF TypeInv, SessionOK
  <2>2. WorkerOK'
    BY <1>1, <1>2 DEF TypeInv, WorkerOK, Kinds
  <2>3. OutsideOK'
    BY <1>1, OutsideKept DEF TypeInv
  <2> QED
    BY <1>1, <1>3, <2>1, <2>2, <2>3, TypeStep
<1>8. Knowledge'
  <2>1. \A q \in Graph : \A x \in Held(q)' : x \in Held(q) /\ Like(x, x)
    BY <1>6 DEF Like
  <2> QED
    BY <1>1, <2>1, KnowledgeKept DEF TypeInv, SessionOK
<1>9. ~dirty => ~Closes /\ ~failed /\ files.pending = {} /\ fs.acquired = files.acquired /\ fs.pending = {}
  BY <1>1, Calm DEF Undisturbed
<1>10. Control'
  BY <1>2, <1>3, <1>4, <1>9 DEF Control, NoProjects
<1>11. PICK ov : ov = overlays
  OBVIOUS
<1>12. Snapshot = Text(files, ov) /\ Snapshot' = Text(fs, ov)
  BY <1>3, <1>11 DEF Snapshot, Text
<1>13. Current'
  <2>1. SUFFICES ASSUME ~dirty, ~failed PROVE Current'
    BY DEF Current
  <2>2. Graph \subseteq DOMAIN projects' \cup DOMAIN previous'
    BY <1>5, <2>1 DEF WorkspaceInv, Current
  <2>3. ASSUME NEW q \in Graph, NEW x \in Held(q)'
        PROVE  /\ x.inputs = Loaded(q, Text(fs, ov))
               /\ \A path \in DOMAIN x.inputs : Holding(fs, path)
    <3>1. /\ x \in Held(q) /\ x.inputs = Loaded(q, Text(files, ov))
          /\ \A path \in DOMAIN x.inputs : Holding(files, path)
      BY <1>6, <1>9, <1>12, <2>1 DEF WorkspaceInv, Current
    <3>2. AnalysisOK(q, x, revision) /\ q \in Projects
      BY <1>1, <3>1, OrderFacts DEF Knowledge, AnalysesOK
    <3>3. PICK inputs : inputs = x.inputs
      OBVIOUS
    <3> QED
      BY <3>1, <3>2, <3>3, AnalysisFacts, StillLoaded
  <2>4. \A path : Holding(files, path)' <=> Holding(fs, path)
    BY <1>3, <1>9, <2>1 DEF Holding
  <2> QED
    BY <1>2, <1>4, <1>12, <2>2, <2>3, <2>4 DEF Current
<1>14. Lowering' /\ Visited'
  BY <1>2 DEF Lowering, Visited
<1>15. WatcherOK' /\ Watching'
  BY <1>3, <1>9, WatcherKept DEF WorkspaceInv
<1> QED
  BY <1>7, <1>8, <1>10, <1>13, <1>14, <1>15 DEF WorkspaceInv

LEMMA CancelVisitStep ==
  ASSUME WorkspaceInv, CancelVisit, UNCHANGED script
  PROVE  WorkspaceInv'
<1>1. /\ Busy("visit") /\ TypeInv
      /\ UNCHANGED <<revision, dirty, background, failed, overlays, inbox, disk, watcher, commands>>
  BY DEF CancelVisit, Untouched, outside, WorkspaceInv
<1>2. FilesOK(files) /\ CacheOK(cache) /\ hosts \in [Projects -> Nat]
  BY <1>1 DEF TypeInv, SessionOK
<1>3. CASE Unwound(files) /\ UNCHANGED <<hosts, cache>>
  <2>1. Keeps(files, files) /\ Undisturbed(files, files)
    BY DEF Keeps, Undisturbed
  <2>2. PICK fs : fs = files
    OBVIOUS
  <2> QED
    BY <1>1, <1>2, <1>3, <2>1, <2>2, UnwoundStep
<1>4. CASE /\ \E look \in Looked(Visiting) :
                LET new == Analysed(Visiting, look.files)
                IN /\ look.interface = None
                   /\ new.inputs[Main[Visiting]] # Absent
                   /\ Unwound(ReadBy(look.files, DOMAIN new.inputs))
                   /\ cache' = look.cache
           /\ hosts' = [hosts EXCEPT ![Visiting] = @ + 1]
  <2>1. PICK look \in Looked(Visiting) :
          \E new, read : /\ new = Analysed(Visiting, look.files)
                        /\ read = ReadBy(look.files, DOMAIN new.inputs)
                        /\ Unwound(read) /\ cache' = look.cache
    BY <1>4
  <2>2. PICK new, read : /\ new = Analysed(Visiting, look.files)
                         /\ read = ReadBy(look.files, DOMAIN new.inputs)
                         /\ Unwound(read) /\ cache' = look.cache
    BY <2>1
  <2>3. /\ FilesOK(look.files) /\ Keeps(files, look.files) /\ CacheOK(look.cache)
        /\ ~dirty => Undisturbed(files, look.files)
    BY <1>1, <2>1, <2>2, LookFacts
  <2>4. FilesOK(read) /\ Keeps(files, read) /\ (~dirty => Undisturbed(files, read))
    BY <1>1, <2>1, <2>2, <2>3, AnalysedFacts
  <2>5. hosts' \in [Projects -> Nat]
    BY <1>1, <1>2, <1>4, VisitingFacts
  <2> QED
    BY <1>1, <2>1, <2>2, <2>3, <2>4, <2>5, UnwoundStep
<1> QED
  BY <1>3, <1>4 DEF CancelVisit

-----------------------------------------------------------------------------
(* The theorems.                                                           *)

LEMMA Initially ==
  ASSUME Init, Quiet
  PROVE  WorkspaceInv
<1>1. /\ script \in Scripts /\ disk = script.disk /\ overlays = script.overlays
      /\ files = NothingRead /\ hosts = [p \in Projects |-> 0]
      /\ projects = << >> /\ previous = << >> /\ revision = 0
      /\ cache = [interfaces |-> {}, inputs |-> {}, artifacts |-> {}]
      /\ needsRefresh = FALSE /\ dirty = TRUE /\ background = FALSE /\ failed = FALSE
      /\ work = [kind |-> "idle", for |-> None, at |-> 0]
      /\ watcher = [inputs |-> [path \in Files |-> Unread], paths |-> {}, watches |-> {}]
      /\ commands = << >> /\ inbox = << >>
  BY DEF Init, NoProjects, NoEntries, Idle
<1>2. OutsideOK
  BY <1>1, WorkspaceAssumption DEF OutsideOK, MessagesOK, Message, Quiet
<1>3. DOMAIN projects = {} /\ DOMAIN previous = {}
  BY <1>1
<1>4. \A q : Held(q) = {}
  BY <1>3 DEF Held
<1>5. SessionOK
  BY <1>1, <1>3 DEF SessionOK
<1>6. WorkerOK
  BY <1>1 DEF WorkerOK, Kinds
<1>7. FilesOK(files)
  <2>1. \A p \in Cacheable : In(p) \subseteq Files
    BY DEF In
  <2>2. [path \in Files |-> Unread] \in Sources
    BY DEF Sources
  <2>3. /\ files.disk = [path \in Files |-> Unread] /\ files.observed = [path \in Files |-> Unread]
        /\ files.acquired = {} /\ files.pending = {}
        /\ files = [disk |-> files.disk, observed |-> files.observed,
                    acquired |-> files.acquired, pending |-> files.pending,
                    listings |-> files.listings, fingerprints |-> files.fingerprints]
    BY <1>1 DEF NothingRead
  <2> QED
    BY <2>1, <2>2, <2>3 DEF FilesOK
<1>8. CacheOK(cache)
  BY <1>1 DEF CacheOK
<1>9. TypeInv
  BY <1>1, <1>2, <1>5, <1>6, <1>7, <1>8 DEF TypeInv
<1>10. Knowledge
  BY <1>4 DEF Knowledge, AnalysesOK, Revised, Sound
<1>11. Control /\ Visited /\ Current /\ Lowering
  BY <1>1 DEF Control, Visited, Current, Lowering, NoProjects, NothingRead
<1>12. WatcherOK
  BY <1>1 DEF WatcherOK, Sources
<1>13. Watching
  <2>1. LastSent(0) /\ 0 \in 0..Len(commands)
    BY <1>1 DEF LastSent
  <2> QED
    BY <1>1, <2>1 DEF Watching
<1> QED
  BY <1>9, <1>10, <1>11, <1>12, <1>13 DEF WorkspaceInv

LEMMA Stuttering ==
  ASSUME WorkspaceInv, UNCHANGED vars
  PROVE  WorkspaceInv'
<1>1. /\ UNCHANGED <<script, files, hosts, projects, previous, revision, cache, required, dirty,
                     background, failed, needsRefresh, work, overlays>>
      /\ UNCHANGED <<disk, inbox, watcher, commands>>
  BY DEF vars, unscripted
<1>2. OutsideOK'
  BY <1>1, OutsideKept DEF WorkspaceInv, TypeInv
<1>3. WatcherOK' /\ Watching'
  BY <1>1, WatcherKept DEF WorkspaceInv
<1> QED
  BY <1>1, <1>2, <1>3, OthersStep

LEMMA Inductive ==
  ASSUME WorkspaceInv, [Next]_vars
  PROVE  WorkspaceInv'
<1>1. CASE UNCHANGED vars
  BY <1>1, Stuttering
<1>2. CASE Next
  <2>1. UNCHANGED script /\ Step
    BY <1>2 DEF Next
  <2>2. CASE Visit
    BY <2>1, <2>2, VisitStep
  <2>3. CASE Fail
    BY <2>1, <2>3, FailStep
  <2>4. CASE Finish
    BY <2>1, <2>4, FinishStep
  <2>5. CASE StartCheck
    BY <2>1, <2>5, StartCheckStep
  <2>6. CASE LoadArtifacts
    BY <2>1, <2>6, LoadArtifactsStep
  <2>7. CASE Lower
    BY <2>1, <2>7, LowerStep
  <2>8. CASE EndCheck \/ CancelLowering
    BY <2>1, <2>8, EndCheckStep
  <2>9. CASE Handle
    BY <2>1, <2>9, HandleStep
  <2>10. CASE StartEdit
    BY <2>1, <2>10, StartEditStep
  <2>11. CASE CancelVisit
    BY <2>1, <2>11, CancelVisitStep
  <2>12. CASE \E p \in Graph : Ask(p)
    BY <2>1, <2>12, AskStep
  <2>13. CASE FollowDefinition
    BY <2>1, <2>13, FollowDefinitionStep
  <2>14. CASE WatcherStep \/ Reconcile
    BY <2>1, <2>14, WatcherStepStep
  <2>15. CASE \E path \in Files : \E text \in script.saves[path] : Save(path, text)
    BY <2>1, <2>15, SaveStep
  <2>16. CASE \E path \in Files : \E text \in script.typings[path] : Type(path, text)
    BY <2>1, <2>16, TypeActionStep
  <2>17. CASE Restart
    BY <2>1, <2>17, RestartStep
  <2> QED
    BY <2>1, <2>2, <2>3, <2>4, <2>5, <2>6, <2>7, <2>8, <2>9, <2>10, <2>11, <2>12, <2>13,
       <2>14, <2>15, <2>16, <2>17 DEF Step, WorkerStep
<1> QED
  BY <1>1, <1>2

LEMMA Always ==
  Spec /\ Quiet => []WorkspaceInv
<1>1. Init /\ Quiet => WorkspaceInv
  BY Initially
<1>2. WorkspaceInv /\ [Next]_vars => WorkspaceInv'
  BY Inductive
<1> QED
  BY <1>1, <1>2, PTL DEF Spec

LEMMA WhenCoherent ==
  ASSUME WorkspaceInv
  PROVE  Coherent
<1>1. SUFFICES ASSUME Settled, ~failed, NEW p \in Graph
               PROVE  /\ p \in DOMAIN projects
                      /\ projects[p].inputs = Loaded(p, Snapshot)
                      /\ projects[p].interface = Interface(projects[p].inputs, Imported(p))
  BY DEF Coherent
<1>2. work.kind = "idle" /\ ~dirty /\ ~needsRefresh
  BY <1>1 DEF Settled, Idle
<1>3. DOMAIN previous = {}
  BY <1>2 DEF WorkspaceInv, Control, NoProjects
<1>4. \A q \in Graph : q \in DOMAIN projects /\ projects[q] \in Held(q)
  BY <1>1, <1>2, <1>3 DEF WorkspaceInv, Current, Held
<1>5. projects[p].inputs = Loaded(p, Snapshot) /\ Linking(p)
  BY <1>1, <1>2, <1>4 DEF WorkspaceInv, Current
<1>6. Deps[p] \subseteq Graph
  BY <1>1, DepsFacts DEF WorkspaceInv, TypeInv
<1>7. Imported(p) \in [Deps[p] -> Interfaces] /\ Against(p, projects[p], Imported(p))
  <2>1. ASSUME NEW q \in Deps[p]
        PROVE  /\ Imported(p)[q] = projects[q].interface
               /\ projects[q] \in Held(q) /\ q \in Graph
               /\ projects[p].deps[q] = projects[q].revision
    BY <1>4, <1>5, <1>6 DEF Imported, Linking, Revisions
  <2>2. ASSUME NEW q \in Deps[p]
        PROVE  projects[q].interface \in Interfaces
    BY <2>1 DEF Interfaces
  <2> QED
    BY <2>1, <2>2 DEF Imported, Against
<1> QED
  BY <1>4, <1>5, <1>7 DEF WorkspaceInv, Knowledge, Sound

LEMMA WhenWatched ==
  ASSUME WorkspaceInv
  PROVE  AcquiredAreWatched
BY DEF WorkspaceInv, Watching, AcquiredAreWatched, Settled

LEMMA WhenLowering ==
  ASSUME WorkspaceInv
  PROVE  LoweringFindsItsAnalyses
<1>1. SUFFICES ASSUME work.kind = "lower", NEW p \in DOMAIN projects, projects[p].artifact = {}
               PROVE  projects[p].generation = hosts[p]
  BY DEF LoweringFindsItsAnalyses
<1>2. projects[p].generation # None
  BY <1>1 DEF WorkspaceInv, Lowering
<1>3. ~dirty /\ ~needsRefresh /\ ~failed
  BY <1>1 DEF WorkspaceInv, Control
<1>4. p \in Graph
  BY <1>1 DEF WorkspaceInv, TypeInv, SessionOK
<1>5. IsCurrent(p, projects[p])
  BY <1>1, <1>3, <1>4 DEF WorkspaceInv, Current, Linking
<1> QED
  BY <1>2, <1>5 DEF IsCurrent

\* Whatever is typed, saved, asked for, cancelled or restarted, in any order,
\* a workspace with nothing due holds what analysing its files from scratch
\* gives (refresh and its unwinding in workspace.rs).
THEOREM WorkspaceIsCoherent ==
  Spec /\ Quiet => []Coherent
<1>1. WorkspaceInv => Coherent
  BY WhenCoherent
<1> QED
  BY <1>1, Always, PTL

\* Every text it keeps as acquired is one the watcher looks at, or was told
\* to: a change of it will be reported (retain_acquired in files.rs, the
\* inputs lsp.rs sends).
THEOREM WatchesWhatItAcquires ==
  Spec /\ Quiet => []AcquiredAreWatched
<1>1. WorkspaceInv => AcquiredAreWatched
  BY WhenWatched
<1> QED
  BY <1>1, Always, PTL

\* The background check never meets a project whose sources it does not have,
\* nor one of another generation than its host's: its expect and its
\* assertion hold.
THEOREM LoweringHasItsAnalyses ==
  Spec /\ Quiet => []LoweringFindsItsAnalyses
<1>1. WorkspaceInv => LoweringFindsItsAnalyses
  BY WhenLowering
<1> QED
  BY <1>1, Always, PTL

\* The types, with what is kept of projects of the persistent cache: every
\* entry is of one of these projects and has its interface.
THEOREM WorkspaceTypes ==
  Spec /\ Quiet => []TypeInv
<1>1. WorkspaceInv => TypeInv
  BY DEF WorkspaceInv
<1> QED
  BY <1>1, Always, PTL

-----------------------------------------------------------------------------
(* Directories of which nobody removes a file.                             *)

LEMMA AllowedFacts ==
  ASSUME NEW ov, NEW dk, Allowed(ov, dk), NEW path \in Files
  PROVE  /\ DiskTexts(path) \subseteq Contents /\ BufferTexts(path) \subseteq Texts \cup {None}
         /\ dk[path] \in DiskTexts(path) /\ dk[path] # Unread
         /\ ov[path] \in BufferTexts(path) /\ ov[path] \in Texts \cup {None}
<1>1. script \in Scripts /\ dk[path] \in DiskTexts(path) /\ ov[path] \in BufferTexts(path)
  BY DEF Allowed
<1>2. /\ script.disk \in [Files -> Contents] /\ script.overlays \in [Files -> Texts \cup {None}]
      /\ script.saves[path] \subseteq Contents /\ script.typings[path] \subseteq Texts \cup {None}
  BY <1>1, WorkspaceAssumption
<1>3. DiskTexts(path) \subseteq Contents /\ BufferTexts(path) \subseteq Texts \cup {None}
  BY <1>2 DEF DiskTexts, BufferTexts
<1> QED
  BY <1>1, <1>3, TextsAreApart

LEMMA KeptFacts ==
  ASSUME NEW ov, NEW dk, Allowed(ov, dk), NEW fs, DirectoriesOK(fs, ov, dk), NEW path \in Files
  PROVE  /\ Kept(fs, path, dk) \in DiskTexts(path) /\ Kept(fs, path, dk) # Unread
         /\ path \in fs.acquired => Kept(fs, path, dk) = fs.disk[path]
<1>1. fs.disk[path] \in DiskTexts(path) \cup {Unread}
  BY DEF DirectoriesOK
<1>2. path \in fs.acquired => fs.disk[path] # Unread
  BY DEF DirectoriesOK
<1>3. dk[path] \in DiskTexts(path) /\ dk[path] # Unread
  BY AllowedFacts
<1> QED
  BY <1>1, <1>2, <1>3 DEF Kept

LEMMA ReadDirectories ==
  ASSUME NEW ov, NEW dk, Allowed(ov, dk), NEW fs, DirectoriesOK(fs, ov, dk),
         NEW paths, NEW gs, gs = Read(fs, paths, ov, dk)
  PROVE  /\ DirectoriesOK(gs, ov, dk) /\ paths \subseteq gs.acquired
         /\ \A path \in Files \cap paths :
              Effective(gs.disk[path], ov[path]) = Source(fs, path, ov, dk)
<1>1. PICK first : first = paths \ fs.acquired
  OBVIOUS
<1>2. PICK existing : existing = {path \in first : Effective(dk[path], ov[path]) # Absent}
  OBVIOUS
<1>3. /\ gs.disk = [path \in Files |->
                     IF path \in paths
                     THEN IF path \in first THEN dk[path] ELSE Kept(fs, path, dk)
                     ELSE fs.disk[path]]
      /\ gs.acquired = fs.acquired \cup paths
      /\ gs.listings = [project \in Projects |->
                    Relisted(fs.listings[project], existing \cap In(project),
                             (first \ existing) \cap In(project))]
      /\ gs.fingerprints = [project \in Projects |->
                    IF first \cap In(project) = {} THEN fs.fingerprints[project] ELSE None]
      /\ gs = [disk |-> gs.disk, observed |-> gs.observed, acquired |-> gs.acquired,
               pending |-> gs.pending, listings |-> gs.listings,
               fingerprints |-> gs.fingerprints]
  BY <1>1, <1>2 DEF Read
<1>4. \A path \in Files : /\ dk[path] \in DiskTexts(path) /\ dk[path] # Unread
                          /\ Kept(fs, path, dk) \in DiskTexts(path) /\ Kept(fs, path, dk) # Unread
                          /\ path \in fs.acquired => Kept(fs, path, dk) = fs.disk[path]
  BY AllowedFacts, KeptFacts
<1>5. \A path \in Files : fs.disk[path] \in DiskTexts(path) \cup {Unread}
  BY DEF DirectoriesOK
<1>6. \A path \in Files : gs.disk[path] \in DiskTexts(path) \cup {Unread}
  BY <1>3, <1>4, <1>5
<1>7. \A path \in Files \cap fs.acquired : fs.disk[path] # Unread
  BY DEF DirectoriesOK
<1>8. \A path \in Files \cap gs.acquired : gs.disk[path] # Unread
  BY <1>3, <1>4, <1>7
<1>9. \A path \in Files \cap fs.acquired : gs.disk[path] = fs.disk[path]
  BY <1>1, <1>3, <1>4, <1>7
<1>10. ASSUME NEW p \in Cacheable PROVE DirectoryOK(gs, p, ov, dk)
  <2>1. DirectoryOK(fs, p, ov, dk) /\ p \in Projects /\ In(p) \subseteq Files
    BY OrderFacts DEF DirectoriesOK, In, Allowed
  <2>2. \A path \in In(p) : dk[path] = Absent => gs.disk[path] \in {Absent, Unread}
    BY <1>3, <2>1 DEF DirectoryOK, Kept
  <2>3. ASSUME NEW path \in In(p) \cap gs.acquired,
               gs.listings[p] # None, path \notin gs.listings[p]
        PROVE  gs.disk[path] = Absent \/ ov[path] # None
    <3>1. /\ fs.listings[p] # None
          /\ gs.listings[p] = (fs.listings[p] \ ((first \ existing) \cap In(p)))
                                \cup (existing \cap In(p))
      BY <1>3, <2>1, <2>3 DEF Relisted
    <3>2. CASE path \in first
      <4>1. path \notin existing
        BY <2>3, <3>1
      <4>2. Effective(dk[path], ov[path]) = Absent
        BY <1>2, <3>2, <4>1
      <4>3. ov[path] = None => dk[path] = Absent
        BY <4>2 DEF Effective
      <4>4. gs.disk[path] = dk[path]
        BY <1>1, <1>3, <2>1, <3>2
      <4> QED
        BY <4>3, <4>4
    <3>3. CASE path \notin first
      <4>1. path \in fs.acquired
        BY <1>1, <1>3, <3>3
      <4>2. path \notin fs.listings[p]
        BY <2>3, <3>1, <3>3
      <4> QED
        BY <1>9, <2>1, <3>1, <4>1, <4>2 DEF DirectoryOK
    <3> QED
      BY <3>2, <3>3
  <2>4. ASSUME NEW path \in In(p) \cap gs.acquired, gs.fingerprints[p] # None
        PROVE  Effective(gs.disk[path], ov[path]) = Says(gs.fingerprints[p], path)
    <3>1. first \cap In(p) = {} /\ gs.fingerprints[p] = fs.fingerprints[p]
      BY <1>3, <2>1, <2>4
    <3>2. path \in fs.acquired
      BY <1>1, <1>3, <3>1
    <3> QED
      BY <1>9, <2>1, <2>4, <3>1, <3>2 DEF DirectoryOK
  <2> QED
    BY <2>2, <2>3, <2>4 DEF DirectoryOK
<1>11. /\ gs.disk = [path \in Files |-> gs.disk[path]]
       /\ gs.listings = [p \in Projects |-> gs.listings[p]]
       /\ gs.fingerprints = [p \in Projects |-> gs.fingerprints[p]]
  BY <1>3
<1>12. DirectoriesOK(gs, ov, dk)
  BY <1>3, <1>6, <1>8, <1>10, <1>11 DEF DirectoriesOK
<1>13. \A path \in Files \cap paths : Effective(gs.disk[path], ov[path]) = Source(fs, path, ov, dk)
  BY <1>1, <1>3 DEF Source
<1> QED
  BY <1>3, <1>12, <1>13

\* A fingerprint has the texts of what is acquired.
LEMMA PrintSays ==
  ASSUME NEW ov, NEW dk, Allowed(ov, dk), NEW fs, DirectoriesOK(fs, ov, dk),
         NEW p \in Cacheable, NEW print, print = Fingerprint(fs, p, ov, dk),
         NEW path \in In(p), path \in fs.acquired
  PROVE  Effective(fs.disk[path], ov[path]) = Says(print, path)
<1>1. DirectoryOK(fs, p, ov, dk) /\ path \in Files
  BY DEF DirectoriesOK, In
<1>2. CASE fs.fingerprints[p] # None
  BY <1>1, <1>2 DEF Fingerprint, DirectoryOK
<1>3. CASE fs.fingerprints[p] = None
  <2>1. PICK listed : listed = Paths(fs, p, dk)
    OBVIOUS
  <2>2. print = [other \in listed \cup {x \in In(p) : ov[x] # None} |->
                   Effective(Kept(fs, other, dk), ov[other])]
    BY <1>3, <2>1 DEF Fingerprint
  <2>3. Kept(fs, path, dk) = fs.disk[path] /\ fs.disk[path] # Unread
    BY <1>1, KeptFacts
  <2>4. CASE path \in listed \cup {x \in In(p) : ov[x] # None}
    BY <2>2, <2>3, <2>4 DEF Says
  <2>5. CASE path \notin listed \cup {x \in In(p) : ov[x] # None}
    <3>1. ov[path] = None /\ path \notin listed
      BY <2>5
    <3>2. fs.disk[path] = Absent
      <4>1. CASE fs.listings[p] # None
        BY <1>1, <2>1, <3>1, <4>1 DEF Paths, DirectoryOK
      <4>2. CASE fs.listings[p] = None
        <5>1. dk[path] = Absent
          BY <2>1, <3>1, <4>2 DEF Paths
        <5> QED
          BY <1>1, <2>3, <5>1 DEF DirectoryOK
      <4> QED
        BY <4>1, <4>2
    <3> QED
      BY <2>2, <2>5, <3>1, <3>2 DEF Says, Effective
  <2> QED
    BY <2>4, <2>5
<1> QED
  BY <1>2, <1>3

LEMMA PrintDirectories ==
  ASSUME NEW ov, NEW dk, Allowed(ov, dk), NEW fs, DirectoriesOK(fs, ov, dk),
         NEW p \in Projects, NEW gs, gs = Fingerprinted(fs, p, ov, dk)
  PROVE  /\ DirectoriesOK(gs, ov, dk) /\ gs.acquired = fs.acquired
<1>1. CASE gs = fs
  BY <1>1
<1>2. CASE gs # fs
  <2>1. PICK listed, print : listed = Paths(fs, p, dk) /\ print = Fingerprint(fs, p, ov, dk)
    OBVIOUS
  <2>2. fs.fingerprints[p] = None
    BY <1>2 DEF Fingerprinted
  <2>3. /\ gs.disk = [path \in Files |-> IF path \in listed /\ ov[path] = None
                                         THEN Kept(fs, path, dk) ELSE fs.disk[path]]
        /\ gs.listings = [fs.listings EXCEPT ![p] = listed]
        /\ gs.fingerprints = [fs.fingerprints EXCEPT ![p] = print]
        /\ gs.observed = fs.observed /\ gs.acquired = fs.acquired /\ gs.pending = fs.pending
        /\ gs = [disk |-> gs.disk, observed |-> gs.observed, acquired |-> gs.acquired,
                 pending |-> gs.pending, listings |-> gs.listings,
                 fingerprints |-> gs.fingerprints]
    BY <1>2, <2>1 DEF Fingerprinted, DirectoriesOK
  <2>4. \A path \in Files : /\ Kept(fs, path, dk) \in DiskTexts(path)
                            /\ path \in fs.acquired => Kept(fs, path, dk) = fs.disk[path]
    BY KeptFacts
  <2>5. /\ fs.listings = [q \in Projects |-> fs.listings[q]]
        /\ fs.fingerprints = [q \in Projects |-> fs.fingerprints[q]]
        /\ \A path \in Files : fs.disk[path] \in DiskTexts(path) \cup {Unread}
        /\ \A path \in Files \cap fs.acquired : fs.disk[path] # Unread
    BY DEF DirectoriesOK
  <2>6. \A path \in Files : gs.disk[path] \in DiskTexts(path) \cup {Unread}
    BY <2>3, <2>4, <2>5
  <2>7. \A path \in Files \cap fs.acquired : gs.disk[path] = fs.disk[path]
    BY <2>3, <2>4, <2>5
  <2>8. /\ gs.listings[p] = listed /\ gs.fingerprints[p] = print
        /\ \A q \in Projects : q # p => /\ gs.listings[q] = fs.listings[q]
                                        /\ gs.fingerprints[q] = fs.fingerprints[q]
    BY <2>3, <2>5
  <2>9. ASSUME NEW q \in Cacheable PROVE DirectoryOK(gs, q, ov, dk)
    <3>1. DirectoryOK(fs, q, ov, dk) /\ q \in Projects /\ In(q) \subseteq Files
      BY OrderFacts DEF DirectoriesOK, In, Allowed
    <3>2. \A path \in In(q) : dk[path] = Absent => gs.disk[path] \in {Absent, Unread}
      BY <2>3, <3>1 DEF DirectoryOK, Kept
    <3>3. ASSUME NEW path \in In(q) \cap gs.acquired
          PROVE  /\ gs.listings[q] # None /\ path \notin gs.listings[q]
                      => gs.disk[path] = Absent \/ ov[path] # None
                 /\ gs.fingerprints[q] # None
                      => Effective(gs.disk[path], ov[path]) = Says(gs.fingerprints[q], path)
      <4>1. path \in Files /\ path \in fs.acquired /\ gs.disk[path] = fs.disk[path]
        BY <2>3, <2>7, <3>1
      <4>2. CASE q # p
        BY <2>8, <3>1, <4>1, <4>2 DEF DirectoryOK
      <4>3. CASE q = p
        <5>1. Effective(fs.disk[path], ov[path]) = Says(print, path)
          BY <2>1, <3>3, <4>1, <4>3, PrintSays
        <5>2. path \notin listed => fs.disk[path] = Absent
            \/ ov[path] # None
          <6>1. CASE fs.listings[p] # None
            BY <2>1, <3>1, <4>1, <4>3, <6>1 DEF Paths, DirectoryOK
          <6>2. CASE fs.listings[p] = None
            <7>1. path \notin listed => dk[path] = Absent
              BY <2>1, <4>3, <6>2 DEF Paths
            <7> QED
              BY <2>5, <3>1, <4>1, <7>1 DEF DirectoryOK
          <6> QED
            BY <6>1, <6>2
        <5> QED
          BY <2>8, <4>1, <4>3, <5>1, <5>2
      <4> QED
        BY <4>2, <4>3
    <3> QED
      BY <3>2, <3>3 DEF DirectoryOK
  <2>10. /\ gs.disk = [path \in Files |-> gs.disk[path]]
         /\ gs.listings = [q \in Projects |-> gs.listings[q]]
         /\ gs.fingerprints = [q \in Projects |-> gs.fingerprints[q]]
    BY <2>3, <2>5
  <2>11. \A path \in Files \cap gs.acquired : gs.disk[path] # Unread
    BY <2>3, <2>5, <2>7
  <2> QED
    BY <2>3, <2>6, <2>9, <2>10, <2>11 DEF DirectoriesOK
<1> QED
  BY <1>1, <1>2

LEMMA InvalidateDirectories ==
  ASSUME NEW ov, NEW dk, Allowed(ov, dk), NEW fs, DirectoriesOK(fs, ov, dk),
         NEW paths, NEW gs, gs = Invalidate(fs, paths)
  PROVE  /\ DirectoriesOK(gs, ov, dk)
         /\ \A path \in Files \cap paths : /\ gs.listings[ProjectOf[path]] = None
                                /\ gs.fingerprints[ProjectOf[path]] = None
<1>1. PICK touched : touched = {project \in Projects : paths \cap In(project) # {}}
  OBVIOUS
<1>2. /\ gs.disk = [path \in Files |-> IF path \in paths THEN Unread ELSE fs.disk[path]]
      /\ gs.acquired = fs.acquired \ paths
      /\ gs.listings = [q \in Projects |-> IF q \in touched THEN None ELSE fs.listings[q]]
      /\ gs.fingerprints = [q \in Projects |-> IF q \in touched THEN None ELSE fs.fingerprints[q]]
      /\ gs = [disk |-> gs.disk, observed |-> gs.observed, acquired |-> gs.acquired,
               pending |-> gs.pending, listings |-> gs.listings,
               fingerprints |-> gs.fingerprints]
  BY <1>1 DEF Invalidate, DirectoriesOK
<1>3. /\ \A path \in Files : fs.disk[path] \in DiskTexts(path) \cup {Unread}
      /\ \A path \in Files \cap fs.acquired : fs.disk[path] # Unread
  BY DEF DirectoriesOK
<1>4. /\ \A path \in Files : gs.disk[path] \in DiskTexts(path) \cup {Unread}
      /\ \A path \in Files \cap gs.acquired : gs.disk[path] # Unread
  BY <1>2, <1>3
<1>5. ASSUME NEW q \in Cacheable PROVE DirectoryOK(gs, q, ov, dk)
  <2>1. DirectoryOK(fs, q, ov, dk) /\ q \in Projects /\ In(q) \subseteq Files
    BY OrderFacts DEF DirectoriesOK, In, Allowed
  <2>2. \A path \in In(q) : dk[path] = Absent => gs.disk[path] \in {Absent, Unread}
    BY <1>2, <2>1 DEF DirectoryOK
  <2>3. \A path \in In(q) \cap gs.acquired :
          path \in fs.acquired /\ gs.disk[path] = fs.disk[path]
    BY <1>2, <2>1
  <2>4. /\ gs.listings[q] # None => gs.listings[q] = fs.listings[q]
        /\ gs.fingerprints[q] # None => gs.fingerprints[q] = fs.fingerprints[q]
    BY <1>2, <2>1
  <2> QED
    BY <2>1, <2>2, <2>3, <2>4 DEF DirectoryOK
<1>6. /\ gs.disk = [path \in Files |-> gs.disk[path]]
      /\ gs.listings = [q \in Projects |-> gs.listings[q]]
      /\ gs.fingerprints = [q \in Projects |-> gs.fingerprints[q]]
  BY <1>2
<1>7. DirectoriesOK(gs, ov, dk)
  BY <1>2, <1>4, <1>5, <1>6 DEF DirectoriesOK
<1>8. ASSUME NEW path \in Files \cap paths PROVE ProjectOf[path] \in touched
  <2>1. ProjectOf[path] \in Projects /\ path \in In(ProjectOf[path])
    BY FilesAssumption DEF In
  <2> QED
    BY <1>1, <2>1
<1> QED
  BY <1>1, <1>2, <1>7, <1>8

LEMMA ReadDiskDirectories ==
  ASSUME NEW ov, NEW dk, Allowed(ov, dk), NEW fs, DirectoriesOK(fs, ov, dk),
         NEW path \in Files, NEW gs, gs = ReadDisk(fs, path, dk)
  PROVE  /\ DirectoriesOK(gs, ov, dk)
         /\ gs.acquired = fs.acquired /\ gs.listings = fs.listings
         /\ gs.fingerprints = fs.fingerprints
         /\ \A other \in Files \cap fs.acquired : gs.disk[other] = fs.disk[other]
<1>1. /\ gs.disk = [fs.disk EXCEPT ![path] = Kept(fs, path, dk)]
      /\ gs.acquired = fs.acquired /\ gs.listings = fs.listings
      /\ gs.fingerprints = fs.fingerprints
      /\ gs = [disk |-> gs.disk, observed |-> gs.observed, acquired |-> gs.acquired,
               pending |-> gs.pending, listings |-> gs.listings,
               fingerprints |-> gs.fingerprints]
  BY DEF ReadDisk, DirectoriesOK
<1>2. /\ fs.disk = [other \in Files |-> fs.disk[other]]
      /\ \A other \in Files : fs.disk[other] \in DiskTexts(other) \cup {Unread}
      /\ \A other \in Files \cap fs.acquired : fs.disk[other] # Unread
      /\ fs.listings = [p \in Projects |-> fs.listings[p]]
      /\ fs.fingerprints = [p \in Projects |-> fs.fingerprints[p]]
  BY DEF DirectoriesOK
<1>3. /\ Kept(fs, path, dk) \in DiskTexts(path)
      /\ path \in fs.acquired => Kept(fs, path, dk) = fs.disk[path]
  BY KeptFacts
<1>4. \A other \in Files : gs.disk[other] = IF other = path THEN Kept(fs, path, dk) ELSE fs.disk[other]
  BY <1>1, <1>2
<1>5. \A other \in Files \cap fs.acquired : gs.disk[other] = fs.disk[other]
  BY <1>2, <1>3, <1>4
<1>6. \A other \in Files : gs.disk[other] \in DiskTexts(other) \cup {Unread}
  BY <1>2, <1>3, <1>4
<1>7. ASSUME NEW q \in Cacheable PROVE DirectoryOK(gs, q, ov, dk)
  <2>1. DirectoryOK(fs, q, ov, dk) /\ In(q) \subseteq Files
    BY DEF DirectoriesOK, In
  <2>2. \A other \in In(q) : dk[other] = Absent => gs.disk[other] \in {Absent, Unread}
    BY <1>4, <2>1 DEF DirectoryOK, Kept
  <2> QED
    BY <1>1, <1>5, <2>1, <2>2 DEF DirectoryOK
<1>8. gs.disk = [other \in Files |-> gs.disk[other]]
  BY <1>1, <1>2
<1>9. DirectoriesOK(gs, ov, dk)
  BY <1>1, <1>2, <1>5, <1>6, <1>7, <1>8 DEF DirectoriesOK
<1> QED
  BY <1>1, <1>5, <1>9

\* An edit of a buffer keeps the fingerprint only when a reader of what is
\* acquired is given the same text.
LEMMA OverlaidDirectories ==
  ASSUME Allowed(overlays, disk), DirectoriesOK(files, overlays, disk),
         NEW path \in Files, NEW text \in script.typings[path],
         NEW edit, edit = Overlaid(path, text),
         NEW after, after = [overlays EXCEPT ![path] = text]
  PROVE  Allowed(after, disk) /\ DirectoriesOK(edit.files, after, disk)
<1>1. PICK opened : opened = IF text = None THEN Invalidate(files, {path}) ELSE files
  OBVIOUS
<1>2. PICK read : read = IF overlays[path] = None \/ text = None
                         THEN ReadDisk(opened, path, disk) ELSE opened
  OBVIOUS
<1>3. PICK changed : changed = edit.changed
  OBVIOUS
<1>4. PICK gs : gs = edit.files
  OBVIOUS
<1>5. /\ (changed = FALSE) => Effective(Kept(opened, path, disk), overlays[path])
                                = Effective(Kept(read, path, disk), text)
      /\ gs = IF changed THEN ChangedOverlay(read, path) ELSE read
      /\ changed \in BOOLEAN
  BY <1>1, <1>2, <1>3, <1>4 DEF Overlaid
<1>6. /\ after = [other \in Files |-> after[other]] /\ after[path] = text
      /\ \A other \in Files : other # path => after[other] = overlays[other]
  BY DEF Allowed
<1>7. Allowed(after, disk)
  <2>1. \A other \in Files : after[other] \in BufferTexts(other)
    BY <1>6 DEF Allowed, BufferTexts
  <2> QED
    BY <1>6, <2>1 DEF Allowed
<1>8. /\ DirectoriesOK(opened, overlays, disk)
      /\ text = None => /\ opened.listings[ProjectOf[path]] = None
                        /\ opened.fingerprints[ProjectOf[path]] = None
  <2>1. CASE text = None
    <3>1. opened = Invalidate(files, {path})
      BY <1>1, <2>1
    <3>2. path \in Files \cap {path}
      OBVIOUS
    <3> QED
      BY <3>1, <3>2, InvalidateDirectories
  <2>2. CASE text # None
    BY <1>1, <2>2
  <2> QED
    BY <2>1, <2>2
<1>9. /\ DirectoriesOK(read, overlays, disk)
      /\ read.acquired = opened.acquired /\ read.listings = opened.listings
      /\ read.fingerprints = opened.fingerprints
      /\ \A other \in Files \cap opened.acquired : read.disk[other] = opened.disk[other]
  <2>1. CASE read = ReadDisk(opened, path, disk)
    BY <1>8, <2>1, ReadDiskDirectories
  <2>2. CASE read = opened
    BY <1>8, <2>2
  <2> QED
    BY <1>2, <2>1, <2>2
<1>10. /\ gs.disk = read.disk /\ gs.acquired = read.acquired /\ gs.listings = read.listings
       /\ gs.fingerprints = [q \in Projects |-> gs.fingerprints[q]]
       /\ gs = [disk |-> gs.disk, observed |-> gs.observed, acquired |-> gs.acquired,
                pending |-> gs.pending, listings |-> gs.listings,
                fingerprints |-> gs.fingerprints]
       /\ \A q \in Projects :
            gs.fingerprints[q] # None =>
              /\ gs.fingerprints[q] = read.fingerprints[q]
              /\ q = ProjectOf[path] => changed = FALSE
  <2>1. CASE changed
    <3>1. /\ gs.disk = read.disk /\ gs.acquired = read.acquired /\ gs.listings = read.listings
          /\ gs.fingerprints = [read.fingerprints EXCEPT ![ProjectOf[path]] = None]
          /\ read.fingerprints = [q \in Projects |-> read.fingerprints[q]]
          /\ gs = [disk |-> gs.disk, observed |-> gs.observed, acquired |-> gs.acquired,
                   pending |-> gs.pending, listings |-> gs.listings,
                   fingerprints |-> gs.fingerprints]
      BY <1>5, <1>9, <2>1 DEF ChangedOverlay, DirectoriesOK
    <3> QED
      BY <3>1
  <2>2. CASE changed = FALSE
    BY <1>5, <1>9, <2>2 DEF DirectoriesOK
  <2> QED
    BY <1>5, <2>1, <2>2
<1>11. ASSUME NEW q \in Cacheable PROVE DirectoryOK(gs, q, after, disk)
  <2>1. DirectoryOK(read, q, overlays, disk) /\ q \in Projects /\ In(q) \subseteq Files
    BY <1>9, OrderFacts DEF DirectoriesOK, In, Allowed
  <2>2. ASSUME NEW other \in In(q) \cap gs.acquired, other # path
        PROVE  /\ gs.listings[q] # None /\ other \notin gs.listings[q]
                    => gs.disk[other] = Absent \/ after[other] # None
               /\ gs.fingerprints[q] # None
                    => Effective(gs.disk[other], after[other]) = Says(gs.fingerprints[q], other)
    <3>1. after[other] = overlays[other] /\ gs.disk[other] = read.disk[other]
          /\ other \in In(q) \cap read.acquired
      BY <1>6, <1>10, <2>1, <2>2
    <3> QED
      BY <1>10, <2>1, <3>1 DEF DirectoryOK
  <2>3. ASSUME path \in In(q), path \in gs.acquired
        PROVE  /\ gs.listings[q] # None /\ path \notin gs.listings[q]
                    => gs.disk[path] = Absent \/ after[path] # None
               /\ gs.fingerprints[q] # None
                    => Effective(gs.disk[path], after[path]) = Says(gs.fingerprints[q], path)
    <3>1. q = ProjectOf[path]
      BY <2>3 DEF In
    <3>2. gs.listings[q] # None => after[path] # None
      BY <1>6, <1>8, <1>9, <1>10, <3>1
    <3>3. ASSUME gs.fingerprints[q] # None
          PROVE  Effective(gs.disk[path], after[path]) = Says(gs.fingerprints[q], path)
      <4>1. changed = FALSE /\ gs.fingerprints[q] = read.fingerprints[q]
        BY <1>10, <2>1, <3>1, <3>3
      <4>2. path \in opened.acquired /\ read.disk[path] = opened.disk[path]
            /\ path \in read.acquired
        BY <1>9, <1>10, <2>3
      <4>3. Kept(opened, path, disk) = opened.disk[path] /\ Kept(read, path, disk) = read.disk[path]
        BY <1>8, <1>9, <4>2, KeptFacts
      <4>4. Effective(read.disk[path], overlays[path]) = Effective(read.disk[path], text)
        BY <1>5, <4>1, <4>2, <4>3
      <4>5. Effective(read.disk[path], overlays[path]) = Says(read.fingerprints[q], path)
        BY <2>1, <2>3, <3>3, <4>1, <4>2 DEF DirectoryOK
      <4> QED
        BY <1>6, <1>10, <4>1, <4>4, <4>5
    <3> QED
      BY <3>2, <3>3
  <2>4. \A other \in In(q) : disk[other] = Absent => gs.disk[other] \in {Absent, Unread}
    BY <1>10, <2>1 DEF DirectoryOK
  <2> QED
    BY <2>2, <2>3, <2>4 DEF DirectoryOK
<1>12. /\ gs.disk = [other \in Files |-> gs.disk[other]]
       /\ gs.listings = [q \in Projects |-> gs.listings[q]]
       /\ \A other \in Files : gs.disk[other] \in DiskTexts(other) \cup {Unread}
       /\ \A other \in Files \cap gs.acquired : gs.disk[other] # Unread
  BY <1>9, <1>10 DEF DirectoriesOK
<1>13. DirectoriesOK(gs, after, disk)
  BY <1>10, <1>11, <1>12 DEF DirectoriesOK
<1> QED
  BY <1>4, <1>7, <1>13

\* Less may be acquired, and what was observed does not matter.
LEMMA FewerDirectories ==
  ASSUME NEW ov, NEW dk, NEW fs, DirectoriesOK(fs, ov, dk), NEW gs,
         gs.disk = fs.disk, gs.listings = fs.listings, gs.fingerprints = fs.fingerprints,
         gs.acquired \subseteq fs.acquired,
         gs = [disk |-> gs.disk, observed |-> gs.observed, acquired |-> gs.acquired,
               pending |-> gs.pending, listings |-> gs.listings,
               fingerprints |-> gs.fingerprints]
  PROVE  DirectoriesOK(gs, ov, dk)
<1>1. ASSUME NEW p \in Cacheable PROVE DirectoryOK(gs, p, ov, dk)
  <2>1. DirectoryOK(fs, p, ov, dk)
    BY DEF DirectoriesOK
  <2>2. \A path \in In(p) \cap gs.acquired : path \in In(p) \cap fs.acquired
    OBVIOUS
  <2> QED
    BY <2>1, <2>2 DEF DirectoryOK
<1> QED
  BY <1>1 DEF DirectoriesOK

LEMMA EndedDirectories ==
  ASSUME NEW ov, NEW dk, NEW fs, DirectoriesOK(fs, ov, dk), NEW gs,
         \/ gs = RetainAcquired(fs) \/ gs = AbandonAcquired(fs)
         \/ gs = [fs EXCEPT !.observed = [path \in Files |-> Unread]]
  PROVE  DirectoriesOK(gs, ov, dk)
<1>1. /\ gs.disk = fs.disk /\ gs.listings = fs.listings /\ gs.fingerprints = fs.fingerprints
      /\ gs.acquired \subseteq fs.acquired
      /\ gs = [disk |-> gs.disk, observed |-> gs.observed, acquired |-> gs.acquired,
               pending |-> gs.pending, listings |-> gs.listings,
               fingerprints |-> gs.fingerprints]
  BY DEF DirectoriesOK, RetainAcquired, AbandonAcquired
<1> QED
  BY <1>1, FewerDirectories

\* A save: the disk is read anew only where no text is kept.
LEMMA SavedDirectories ==
  ASSUME Allowed(overlays, disk), NEW fs, DirectoriesOK(fs, overlays, disk),
         NEW path \in Files, NEW text \in script.saves[path],
         NEW dk, dk = [disk EXCEPT ![path] = text]
  PROVE  Allowed(overlays, dk) /\ DirectoriesOK(fs, overlays, dk)
<1>1. /\ dk = [other \in Files |-> dk[other]] /\ dk[path] = text
      /\ \A other \in Files : other # path => dk[other] = disk[other]
  BY DEF Allowed
<1>2. Allowed(overlays, dk)
  <2>1. \A other \in Files : dk[other] \in DiskTexts(other)
    BY <1>1 DEF Allowed, DiskTexts
  <2> QED
    BY <1>1, <2>1 DEF Allowed
<1>3. ASSUME NEW q \in Cacheable PROVE DirectoryOK(fs, q, overlays, dk)
  <2>1. DirectoryOK(fs, q, overlays, disk) /\ In(q) \subseteq Files
    BY DEF DirectoriesOK, In
  <2>2. path \in In(q) => text # Absent
    BY DEF Allowed, Steady
  <2> QED
    BY <1>1, <2>1, <2>2 DEF DirectoryOK
<1> QED
  BY <1>2, <1>3 DEF DirectoriesOK

-----------------------------------------------------------------------------
(* Meanings of keys, and what a visit looks up.                            *)

LEMMA MeaningExtends ==
  ASSUME NEW meaning, NEW more, DOMAIN meaning \subseteq DOMAIN more,
         \A k \in DOMAIN meaning : more[k] = meaning[k],
         \A k \in DOMAIN more : k.project \in Graph /\ DOMAIN k.deps = Deps[k.project],
         \A k \in DOMAIN more : \A q \in DOMAIN k.deps :
           k.deps[q] \in DOMAIN meaning /\ k.deps[q].project = q,
         \A k \in DOMAIN more : more[k] = Interface(KeyInputs(k), ImportsOf(meaning, k))
  PROVE  Interprets(more)
<1>1. ASSUME NEW k \in DOMAIN more
      PROVE  more[k] = Interface(KeyInputs(k), ImportsOf(more, k))
  <2>1. ImportsOf(meaning, k) = ImportsOf(more, k)
    BY DEF ImportsOf
  <2>2. more[k] = Interface(KeyInputs(k), ImportsOf(meaning, k))
    OBVIOUS
  <2> QED
    BY <2>1, <2>2
<1> QED
  BY <1>1 DEF Interprets

\* A key may be given its meaning.
LEMMA MeaningGrows ==
  ASSUME NEW meaning, Interprets(meaning), NEW key,
         key.project \in Graph, DOMAIN key.deps = Deps[key.project],
         \A q \in DOMAIN key.deps : key.deps[q] \in DOMAIN meaning /\ key.deps[q].project = q,
         NEW interface,
         interface = Interface(KeyInputs(key), ImportsOf(meaning, key)),
         NEW more, more = [k \in DOMAIN meaning \cup {key} |->
                            IF k \in DOMAIN meaning THEN meaning[k] ELSE interface]
  PROVE  /\ Interprets(more) /\ key \in DOMAIN more /\ more[key] = interface
         /\ DOMAIN meaning \subseteq DOMAIN more
         /\ \A k \in DOMAIN meaning : more[k] = meaning[k]
<1>1. DOMAIN more = DOMAIN meaning \cup {key} /\ \A k \in DOMAIN meaning : more[k] = meaning[k]
  OBVIOUS
<1>2. more[key] = interface
  BY DEF Interprets
<1>3. ASSUME NEW k \in DOMAIN more
      PROVE  /\ k.project \in Graph /\ DOMAIN k.deps = Deps[k.project]
             /\ \A q \in DOMAIN k.deps : k.deps[q] \in DOMAIN meaning /\ k.deps[q].project = q
             /\ more[k] = Interface(KeyInputs(k), ImportsOf(meaning, k))
  <2>1. CASE k \in DOMAIN meaning
    BY <1>1, <2>1 DEF Interprets
  <2>2. CASE k = key
    BY <1>2, <2>2
  <2> QED
    BY <1>1, <2>1, <2>2
<1>4. Interprets(more)
  <2>1. \A k \in DOMAIN more : k.project \in Graph /\ DOMAIN k.deps = Deps[k.project]
    BY <1>3
  <2>2. \A k \in DOMAIN more : \A q \in DOMAIN k.deps :
          k.deps[q] \in DOMAIN meaning /\ k.deps[q].project = q
    BY <1>3
  <2>3. \A k \in DOMAIN more : more[k] = Interface(KeyInputs(k), ImportsOf(meaning, k))
    BY <1>3
  <2>4. DOMAIN meaning \subseteq DOMAIN more
    BY <1>1
  <2> QED
    BY <1>1, <2>1, <2>2, <2>3, <2>4, MeaningExtends
<1> QED
  BY <1>1, <1>2, <1>4

\* Sources of a cacheable project are its own.
LEMMA OwnInputs ==
  ASSUME NEW ov, NEW dk, Allowed(ov, dk), NEW fs, DirectoriesOK(fs, ov, dk), NEW p \in Cacheable,
         NEW main, main = Source(fs, Main[p], ov, dk)
  PROVE  Inputs(p, main) \subseteq In(p) /\ Main[p] \in In(p) /\ p \in Projects
<1>1. p \in Projects /\ Main[p] \in In(p) /\ Main[p] \in Files
  BY OrderFacts, WorkspaceAssumption DEF In, Allowed
<1>2. main \in DiskTexts(Main[p]) \cup BufferTexts(Main[p])
  BY <1>1, AllowedFacts, KeptFacts DEF Source, Effective
<1>3. main # Absent => main \in Texts
  <2>1. dk[Main[p]] \in Contents /\ Kept(fs, Main[p], dk) \in Contents /\ ov[Main[p]] \in Texts \cup {None}
    BY <1>1, AllowedFacts, KeptFacts
  <2> QED
    BY <2>1 DEF Source, Effective, Contents
<1>4. main # Absent => Modules[main] \subseteq In(p)
  BY <1>2, <1>3 DEF Allowed, Steady
<1> QED
  BY <1>1, <1>4 DEF Inputs

\* A meaning that knows more explains the same and more.
LEMMA KeyedMore ==
  ASSUME NEW meaning, NEW more, DOMAIN meaning \subseteq DOMAIN more,
         \A k \in DOMAIN meaning : more[k] = meaning[k]
  PROVE  /\ AnalysesKeyed(meaning) => AnalysesKeyed(more)
         /\ \A kept : CacheKeyed(meaning, kept) => CacheKeyed(more, kept)
<1>1. \A p, a : AnalysisKeyed(meaning, p, a) => AnalysisKeyed(more, p, a)
  BY DEF AnalysisKeyed
<1>2. AnalysesKeyed(meaning) => AnalysesKeyed(more)
  BY <1>1 DEF AnalysesKeyed
<1>3. ASSUME NEW kept, CacheKeyed(meaning, kept) PROVE CacheKeyed(more, kept)
  BY <1>3 DEF CacheKeyed
<1> QED
  BY <1>2, <1>3

-----------------------------------------------------------------------------
(* Visits and keys.                                                        *)

LEMMA VisitingKeys ==
  ASSUME KeysInv, Busy("visit")
  PROVE  /\ Visiting \in Graph /\ Visiting \in Projects /\ Visiting \notin DOMAIN projects
         /\ work.at + 1 \in 1..(Len(Order) + 1)
         /\ DOMAIN projects \subseteq Graph /\ DOMAIN previous \subseteq Graph
         /\ DOMAIN projects \cup {Visiting} = Before(work.at + 1)
         /\ Deps[Visiting] \subseteq DOMAIN projects
<1>1. script \in Scripts /\ DOMAIN projects = Before(work.at) /\ work.at \in 1..Len(Order)
      /\ DOMAIN previous \subseteq Graph
  BY DEF KeysInv, Allowed, InOrder, Busy
<1>2. /\ Visiting \in Graph /\ Visiting \in Projects /\ Visiting \notin DOMAIN projects
      /\ DOMAIN projects \subseteq Graph
      /\ DOMAIN projects \cup {Visiting} = Before(work.at + 1)
  BY <1>1, BeforeFacts, OrderFacts DEF Visiting
<1>3. Deps[Visiting] \subseteq DOMAIN projects
  BY <1>1, OrderFacts DEF Visiting
<1>4. work.at + 1 \in 1..(Len(Order) + 1)
  BY <1>1, OrderFacts
<1> QED
  BY <1>1, <1>2, <1>3, <1>4

LEMMA TestedDirectories ==
  ASSUME KeysInv, NEW p, NEW fs \in TestedReuse(p)
  PROVE  DirectoriesOK(fs, overlays, disk)
<1>1. DirectoriesOK(files, overlays, disk) /\ Allowed(overlays, disk)
  BY DEF KeysInv
<1>2. CASE fs = files
  BY <1>1, <1>2
<1>3. CASE fs # files
  <2>1. PICK path, same : fs = ReadBy(files, same \cup {path})
    BY <1>3 DEF TestedReuse
  <2> QED
    BY <1>1, <2>1, ReadDirectories DEF ReadBy
<1> QED
  BY <1>2, <1>3

\* A look into the cache finds what the key it looks under stands for.
LEMMA LookKeys ==
  ASSUME KeysInv, NEW meaning, CacheKeyed(meaning, cache),
         NEW p \in Projects, NEW look \in Looked(p)
  PROVE  /\ DirectoriesOK(look.files, overlays, disk) /\ CacheKeyed(meaning, look.cache)
         /\ look.key.project = p
         /\ look.interface # None => /\ look.key \in DOMAIN meaning
                                     /\ look.interface = meaning[look.key]
<1>1. DirectoriesOK(files, overlays, disk) /\ Allowed(overlays, disk)
  BY DEF KeysInv
<1>2. PICK fs \in TestedReuse(p) :
        look = LET tested == Printed(p, fs)
                   key == KeyOf(p, tested)
                   found == IF MayUseCache(p) THEN StoredInterfaces(key) ELSE {}
                   paths == Acquire(p, key, tested)
                   read == ReadBy(tested, paths)
                   migrated == {[key |-> key, interface |-> i] : i \in found}
               IN IF found = {}
                  THEN [files |-> tested, cache |-> cache, interface |-> None,
                        key |-> key, paths |-> {}]
                  ELSE [files |-> Printed(p, read),
                        cache |-> [cache EXCEPT !.interfaces = @ \cup migrated],
                        interface |-> IF KeyOf(p, read) = key
                                      THEN CHOOSE i \in found : TRUE ELSE None,
                        key |-> key, paths |-> paths]
  BY DEF Looked
<1>3. PICK tested : tested = Printed(p, fs)
  OBVIOUS
<1>4. PICK key : key = KeyOf(p, tested)
  OBVIOUS
<1>5. PICK found : found = IF MayUseCache(p) THEN StoredInterfaces(key) ELSE {}
  OBVIOUS
<1>6. PICK paths : paths = Acquire(p, key, tested)
  OBVIOUS
<1>7. PICK read : read = ReadBy(tested, paths)
  OBVIOUS
<1>8. PICK migrated : migrated = {[key |-> key, interface |-> i] : i \in found}
  OBVIOUS
<1>9. look = IF found = {}
             THEN [files |-> tested, cache |-> cache, interface |-> None,
                   key |-> key, paths |-> {}]
             ELSE [files |-> Printed(p, read),
                   cache |-> [cache EXCEPT !.interfaces = @ \cup migrated],
                   interface |-> IF KeyOf(p, read) = key
                                 THEN CHOOSE i \in found : TRUE ELSE None,
                   key |-> key, paths |-> paths]
  BY <1>2, <1>3, <1>4, <1>5, <1>6, <1>7, <1>8
<1>10. DirectoriesOK(tested, overlays, disk)
  BY <1>1, <1>3, TestedDirectories, PrintDirectories DEF Printed
<1>11. key.project = p
  BY <1>4, KeyProject
<1>12. \A i \in found : key \in DOMAIN meaning /\ i = meaning[key]
  <2>1. SUFFICES ASSUME NEW i \in StoredInterfaces(key)
                 PROVE  key \in DOMAIN meaning /\ i = meaning[key]
    BY <1>5
  <2>2. PICK e \in cache.interfaces \cup cache.artifacts : e.key = key /\ i = e.interface
    BY <2>1 DEF StoredInterfaces, Stored
  <2> QED
    BY <2>2 DEF CacheKeyed
<1>13. CASE found = {}
  BY <1>9, <1>10, <1>11, <1>13
<1>14. CASE found # {}
  <2>1. look = [files |-> Printed(p, read),
                cache |-> [cache EXCEPT !.interfaces = @ \cup migrated],
                interface |-> IF KeyOf(p, read) = key
                              THEN CHOOSE i \in found : TRUE ELSE None,
                key |-> key, paths |-> paths]
    BY <1>9, <1>14
  <2>2. DirectoriesOK(look.files, overlays, disk)
    <3>1. DirectoriesOK(read, overlays, disk)
      BY <1>1, <1>7, <1>10, ReadDirectories DEF ReadBy
    <3> QED
      BY <1>1, <2>1, <3>1, PrintDirectories DEF Printed
  <2>3. /\ look.cache.interfaces = cache.interfaces \cup migrated
        /\ look.cache.inputs = cache.inputs /\ look.cache.artifacts = cache.artifacts
        /\ look.cache = [interfaces |-> look.cache.interfaces,
                         inputs |-> look.cache.inputs, artifacts |-> look.cache.artifacts]
    BY <2>1 DEF CacheKeyed
  <2>4. \A e \in migrated : e.key \in DOMAIN meaning /\ e.interface = meaning[e.key]
    BY <1>8, <1>12
  <2>5. CacheKeyed(meaning, look.cache)
    BY <2>3, <2>4 DEF CacheKeyed
  <2>6. look.interface # None => look.interface \in found /\ look.key = key
    BY <1>14, <2>1
  <2>7. look.key = key
    BY <2>1
  <2> QED
    BY <1>11, <1>12, <2>2, <2>5, <2>6, <2>7
<1> QED
  BY <1>13, <1>14

\* The key of a new analysis digests the very texts that were analysed: they
\* are acquired, and of its own directory.
LEMMA AnalysedKeys ==
  ASSUME KeysInv, NEW p \in Projects, NEW fs, DirectoriesOK(fs, overlays, disk),
         NEW new, new = Analysed(p, fs), NEW read, read = ReadBy(fs, DOMAIN new.inputs)
  PROVE  /\ DirectoriesOK(read, overlays, disk) /\ DirectoriesOK(new.files, overlays, disk)
         /\ new.key.project = p /\ new.key.deps = Keys(p)
         /\ p \in Cacheable => new.inputs = KeyInputs(new.key)
<1>1. Allowed(overlays, disk)
  BY DEF KeysInv
<1>2. /\ new.inputs = Loaded(p, SourcesOf(fs))
      /\ new.files = Printed(p, read)
      /\ new.key = KeyOf(p, read)
  BY DEF Analysed
<1>3. PICK print : print = Fingerprint(read, p, overlays, disk)
  OBVIOUS
<1>4. new.key.project = p /\ new.key.deps = Keys(p) /\ new.key.print = print
  BY <1>2, <1>3 DEF KeyOf
<1>5. PICK paths : paths = DOMAIN new.inputs
  OBVIOUS
<1>6. /\ DirectoriesOK(read, overlays, disk) /\ paths \subseteq read.acquired
      /\ \A path \in Files \cap paths :
           Effective(read.disk[path], overlays[path]) = Source(fs, path, overlays, disk)
  BY <1>1, <1>5, ReadDirectories DEF ReadBy
<1>7. DirectoriesOK(new.files, overlays, disk)
  BY <1>1, <1>2, <1>6, PrintDirectories DEF Printed
<1>8. ASSUME p \in Cacheable PROVE new.inputs = KeyInputs(new.key)
  <2>1. PICK main : main = Source(fs, Main[p], overlays, disk)
    OBVIOUS
  <2>2. Inputs(p, main) \subseteq In(p) /\ Main[p] \in In(p)
    BY <1>1, <1>8, <2>1, OwnInputs
  <2>3. paths = Inputs(p, SourcesOf(fs)[Main[p]])
    BY <1>2, <1>5 DEF Loaded
  <2>4. SourcesOf(fs)[Main[p]] = main
    BY <2>1, <2>2 DEF SourcesOf, In
  <2>5. paths \subseteq In(p) /\ paths \subseteq Files
    BY <2>2, <2>3, <2>4 DEF In
  <2>6. ASSUME NEW path \in paths
        PROVE  Says(print, path) = SourcesOf(fs)[path]
    <3>1. Effective(read.disk[path], overlays[path]) = Says(print, path)
      BY <1>1, <1>3, <1>6, <1>8, <2>5, PrintSays
    <3>2. SourcesOf(fs)[path] = Source(fs, path, overlays, disk)
      BY <2>5 DEF SourcesOf
    <3> QED
      BY <1>6, <2>5, <3>1, <3>2
  <2>7. PICK texts : texts = [path \in Files |-> Says(print, path)]
    OBVIOUS
  <2>8. \A path \in DOMAIN new.inputs : texts[path] = SourcesOf(fs)[path]
    BY <1>5, <2>5, <2>6, <2>7
  <2>9. PICK inputs : inputs = new.inputs
    OBVIOUS
  <2>10. inputs = Loaded(p, texts)
    BY <1>2, <2>8, <2>9, LoadedSame
  <2>11. KeyInputs(new.key) = Loaded(p, texts)
    BY <1>4, <2>7 DEF KeyInputs
  <2> QED
    BY <2>9, <2>10, <2>11
<1> QED
  BY <1>4, <1>6, <1>7, <1>8

LEMMA KeysOfScript ==
  ASSUME UNCHANGED script
  PROVE  /\ \A ov, dk : Allowed(ov, dk)' <=> Allowed(ov, dk)
         /\ \A fs, ov, dk : DirectoriesOK(fs, ov, dk)' <=> DirectoriesOK(fs, ov, dk)
         /\ \A meaning : Interprets(meaning)' <=> Interprets(meaning)
<1>1. Order' = Order /\ Graph' = Graph /\ Deps' = Deps /\ Cacheable' = Cacheable
  BY ScriptKept
<1>2. \A path : DiskTexts(path)' = DiskTexts(path) /\ BufferTexts(path)' = BufferTexts(path)
  BY DEF DiskTexts, BufferTexts
<1>3. Steady' <=> Steady
  BY <1>1, <1>2 DEF Steady
<1>4. ASSUME NEW ov, NEW dk PROVE Allowed(ov, dk)' <=> Allowed(ov, dk)
  BY <1>2, <1>3 DEF Allowed
<1>5. ASSUME NEW fs, NEW ov, NEW dk PROVE DirectoriesOK(fs, ov, dk)' <=> DirectoriesOK(fs, ov, dk)
  BY <1>1, <1>2 DEF DirectoriesOK
<1>6. ASSUME NEW meaning PROVE Interprets(meaning)' <=> Interprets(meaning)
  BY <1>1 DEF Interprets
<1> QED
  BY <1>4, <1>5, <1>6

LEMMA KeysStep ==
  ASSUME KeysInv, UNCHANGED script, MessagesOK', InOrder',
         NEW fs, fs = files', NEW ov, ov = overlays', NEW dk, dk = disk',
         Allowed(ov, dk), DirectoriesOK(fs, ov, dk),
         NEW kept, kept = cache', NEW meaning, Interprets(meaning),
         CacheKeyed(meaning, kept), AnalysesKeyed(meaning)'
  PROVE  KeysInv'
<1>1. Allowed(ov, dk)' /\ DirectoriesOK(fs, ov, dk)' /\ Interprets(meaning)'
  BY KeysOfScript
<1>2. Allowed(overlays, disk)' /\ DirectoriesOK(files, overlays, disk)'
  BY <1>1
<1>3. CacheKeyed(meaning, cache)'
  BY DEF CacheKeyed
<1> QED
  BY <1>1, <1>2, <1>3 DEF KeysInv

-----------------------------------------------------------------------------
(* The keys a visit leaves.                                                *)

\* What the three ways to visit a project have in common.
KeyedVisit(a, fs) ==
    /\ Publish(Visiting, a, fs) /\ DirectoriesOK(fs, overlays, disk)
    /\ \A q \in DOMAIN previous' : q \in DOMAIN previous /\ previous'[q] = previous[q]
    /\ UNCHANGED <<overlays, disk, inbox>>
    /\ \E meaning : /\ Interprets(meaning) /\ AnalysesKeyed(meaning)
                    /\ CacheKeyed(meaning, cache')
                    /\ Visiting \in Cacheable => AnalysisKeyed(meaning, Visiting, a)

LEMMA KeyedVisitStep ==
  ASSUME KeysInv, Busy("visit"), UNCHANGED script, NEW a, NEW gs, KeyedVisit(a, gs)
  PROVE  KeysInv'
<1>1. PICK meaning : /\ Interprets(meaning) /\ AnalysesKeyed(meaning)
                     /\ CacheKeyed(meaning, cache')
                     /\ Visiting \in Cacheable => AnalysisKeyed(meaning, Visiting, a)
  BY DEF KeyedVisit
<1>2. /\ projects' = [q \in DOMAIN projects \cup {Visiting} |->
                       IF q = Visiting THEN a ELSE projects[q]]
      /\ gs = files' /\ work' = [work EXCEPT !.at = @ + 1]
      /\ DirectoriesOK(gs, overlays, disk)
      /\ \A q \in DOMAIN previous' : q \in DOMAIN previous /\ previous'[q] = previous[q]
      /\ UNCHANGED <<overlays, disk, inbox>>
  BY DEF KeyedVisit, Publish
<1>3. MessagesOK'
  BY <1>2 DEF KeysInv, MessagesOK, Message
<1>4. DOMAIN projects' = DOMAIN projects \cup {Visiting}
  BY <1>2
<1>5. InOrder'
  <2>1. DOMAIN projects' \cup DOMAIN previous' \subseteq Graph
    BY <1>2, <1>4, VisitingKeys
  <2>2. work'.kind = "visit" => /\ work'.at \in 1..(Len(Order) + 1)
                                /\ DOMAIN projects' = Before(work'.at)
    <3>1. work'.at = work.at + 1
      BY <1>2 DEF KeysInv, InOrder
    <3> QED
      BY <1>4, <3>1, VisitingKeys
  <2>3. work' = [kind |-> work'.kind, for |-> work'.for, at |-> work'.at]
    BY <1>2 DEF KeysInv, InOrder
  <2> QED
    BY <2>1, <2>2, <2>3, ScriptKept DEF InOrder
<1>6. AnalysesKeyed(meaning)'
  <2>1. ASSUME NEW p \in Cacheable, NEW x \in Held(p)' PROVE AnalysisKeyed(meaning, p, x)
    <3>1. CASE p \in DOMAIN projects' /\ x = projects'[p]
      <4>1. CASE p = Visiting
        BY <1>1, <1>2, <3>1, <4>1
      <4>2. CASE p # Visiting
        <5>1. p \in DOMAIN projects /\ x = projects[p]
          BY <1>2, <1>4, <3>1, <4>2
        <5> QED
          BY <1>1, <5>1 DEF AnalysesKeyed, Held
      <4> QED
        BY <4>1, <4>2
    <3>2. CASE p \in DOMAIN previous' /\ x = previous'[p]
      <4>1. p \in DOMAIN previous /\ x = previous[p]
        BY <1>2, <3>2
      <4> QED
        BY <1>1, <4>1 DEF AnalysesKeyed, Held
    <3> QED
      BY <3>1, <3>2 DEF Held
  <2>2. Cacheable' = Cacheable
    BY ScriptKept
  <2> QED
    BY <2>1, <2>2 DEF AnalysesKeyed, AnalysisKeyed
<1>7. PICK ov, dk : ov = overlays /\ dk = disk
  OBVIOUS
<1>8. PICK kept : kept = cache'
  OBVIOUS
<1>9. Allowed(ov, dk) /\ DirectoriesOK(gs, ov, dk) /\ ov = overlays' /\ dk = disk'
  BY <1>2, <1>7 DEF KeysInv
<1> QED
  BY <1>1, <1>2, <1>3, <1>5, <1>6, <1>8, <1>9, KeysStep

LEMMA ReuseKeys ==
  ASSUME KeysInv, Busy("visit"), Reuse(Visiting)
  PROVE  \E a, fs : KeyedVisit(a, fs)
<1>1. PICK old : old = previous[Visiting]
  OBVIOUS
<1>2. PICK a : a = [old EXCEPT !.focus = @ \/ (Focused(Visiting) /\ old.generation # None)]
  OBVIOUS
<1>3. PICK fs : fs = ReadBy(files, DOMAIN old.inputs)
  OBVIOUS
<1>4. /\ Reusable(Visiting) /\ Publish(Visiting, a, fs)
      /\ previous' = [q \in DOMAIN previous \ {Visiting} |-> previous[q]]
      /\ UNCHANGED <<cache, overlays, inbox, disk>>
  BY <1>1, <1>2, <1>3 DEF Reuse, outside
<1>5. Visiting \in DOMAIN previous
  BY <1>4 DEF Reusable, ReuseThought
<1>6. DirectoriesOK(fs, overlays, disk)
  BY <1>3, ReadDirectories DEF KeysInv, ReadBy
<1>7. PICK meaning : /\ Interprets(meaning) /\ AnalysesKeyed(meaning)
                     /\ CacheKeyed(meaning, cache)
  BY DEF KeysInv
<1>8. ASSUME Visiting \in Cacheable PROVE AnalysisKeyed(meaning, Visiting, a)
  <2>1. AnalysisKeyed(meaning, Visiting, old)
    BY <1>1, <1>5, <1>7, <1>8 DEF AnalysesKeyed, Held
  <2>2. DOMAIN a = DOMAIN old /\ a.key = old.key /\ a.interface = old.interface
    BY <1>2, <2>1 DEF AnalysisKeyed
  <2> QED
    BY <2>1, <2>2 DEF AnalysisKeyed
<1>9. CacheKeyed(meaning, cache')
  BY <1>4, <1>7
<1>10. \A q \in DOMAIN previous' : q \in DOMAIN previous /\ previous'[q] = previous[q]
  BY <1>4
<1> QED
  BY <1>4, <1>6, <1>7, <1>8, <1>9, <1>10 DEF KeyedVisit

LEMMA AdmitKeys ==
  ASSUME KeysInv, Busy("visit"), Admit(Visiting)
  PROVE  \E a, fs : KeyedVisit(a, fs)
<1> DEFINE p == Visiting
<1>1. PICK look \in Looked(p) :
        /\ look.interface # None
        /\ Publish(p, [generation |-> None, interface |-> look.interface,
                       focus |-> FALSE, deps |-> Revisions(p),
                       inputs |-> [path \in look.paths |-> SourcesOf(look.files)[path]],
                       revision |-> RevisionFor(p, look.interface),
                       key |-> look.key, artifact |-> {},
                       linked |-> Linked],
                   look.files)
        /\ cache' = Store(look.cache, "inputs", [key |-> look.key, paths |-> look.paths])
  BY DEF Admit
<1>2. UNCHANGED <<previous, overlays, inbox, disk>>
  BY DEF Admit, outside
<1>3. PICK a : a = [generation |-> None, interface |-> look.interface,
                    focus |-> FALSE, deps |-> Revisions(p),
                    inputs |-> [path \in look.paths |-> SourcesOf(look.files)[path]],
                    revision |-> RevisionFor(p, look.interface),
                    key |-> look.key, artifact |-> {},
                    linked |-> Linked]
  OBVIOUS
<1>4. PICK fs : fs = look.files
  OBVIOUS
<1>5. Publish(p, a, fs)
  BY <1>1, <1>3, <1>4
<1>6. PICK meaning : /\ Interprets(meaning) /\ AnalysesKeyed(meaning)
                     /\ CacheKeyed(meaning, cache)
  BY DEF KeysInv
<1>7. /\ DirectoriesOK(fs, overlays, disk) /\ CacheKeyed(meaning, look.cache)
      /\ look.key.project = p /\ look.key \in DOMAIN meaning
      /\ look.interface = meaning[look.key]
  BY <1>1, <1>4, <1>6, VisitingKeys, LookKeys
<1>8. AnalysisKeyed(meaning, p, a)
  BY <1>3, <1>7 DEF AnalysisKeyed
<1>9. PICK kept : kept = look.cache
  OBVIOUS
<1>10. CacheKeyed(meaning, cache')
  <2>1. cache' = [kept EXCEPT !["inputs"] = {e \in @ : e.key # look.key}
                                  \cup {[key |-> look.key, paths |-> look.paths]}]
    BY <1>1, <1>9 DEF Store
  <2>2. /\ cache'.interfaces = kept.interfaces /\ cache'.artifacts = kept.artifacts
        /\ cache' = [interfaces |-> cache'.interfaces, inputs |-> cache'.inputs,
                     artifacts |-> cache'.artifacts]
    BY <1>7, <1>9, <2>1 DEF CacheKeyed
  <2> QED
    BY <1>7, <1>9, <2>2 DEF CacheKeyed
<1> QED
  BY <1>2, <1>5, <1>6, <1>7, <1>8, <1>10 DEF KeyedVisit

\* What is stored of an analysis is what it found.
LEMMA StoreKeyed ==
  ASSUME NEW meaning, NEW kept, CacheKeyed(meaning, kept), NEW key \in DOMAIN meaning,
         NEW interface, interface = meaning[key], NEW paths
  PROVE  CacheKeyed(meaning, StoreFrontend(kept, key, interface, paths))
<1>1. PICK gs : gs = StoreFrontend(kept, key, interface, paths)
  OBVIOUS
<1>2. gs = [interfaces |-> {e \in kept.interfaces : e.key # key}
                             \cup {[key |-> key, interface |-> interface]},
            inputs |-> {e \in kept.inputs : e.key # key} \cup {[key |-> key, paths |-> paths]},
            artifacts |-> kept.artifacts]
  BY <1>1 DEF StoreFrontend, Store, CacheKeyed
<1>3. \A e \in gs.interfaces \cup gs.artifacts :
        e.key \in DOMAIN meaning /\ e.interface = meaning[e.key]
  BY <1>2 DEF CacheKeyed
<1> QED
  BY <1>1, <1>2, <1>3 DEF CacheKeyed

LEMMA RebuildKeys ==
  ASSUME KeysInv, Busy("visit"), Rebuild(Visiting)
  PROVE  \E a, fs : KeyedVisit(a, fs)
<1> DEFINE p == Visiting
<1>1. PICK look \in Looked(p) :
        LET new == Analysed(p, look.files)
            interface == Interface(new.inputs, Imported(p))
        IN /\ look.interface = None
           /\ new.inputs[Main[p]] # Absent
           /\ Publish(p, [generation |-> hosts[p] + 1,
                          interface |-> interface, focus |-> Focused(p),
                          deps |-> Revisions(p), inputs |-> new.inputs,
                          revision |-> RevisionFor(p, interface),
                          key |-> new.key, artifact |-> {},
                          linked |-> Linked],
                      new.files)
           /\ hosts' = [hosts EXCEPT ![p] = @ + 1]
           /\ cache' =
                IF p \in Cacheable /\ ~Focused(p) /\ Clean(new.inputs)
                THEN StoreFrontend(look.cache, new.key, interface, DOMAIN new.inputs)
                ELSE look.cache
  BY DEF Rebuild
<1>2. UNCHANGED <<previous, overlays, inbox, disk>>
  BY DEF Rebuild, outside
<1>3. PICK new : new = Analysed(p, look.files)
  OBVIOUS
<1>4. PICK interface : interface = Interface(new.inputs, Imported(p))
  OBVIOUS
<1>5. PICK a : a = [generation |-> hosts[p] + 1,
                    interface |-> interface, focus |-> Focused(p),
                    deps |-> Revisions(p), inputs |-> new.inputs,
                    revision |-> RevisionFor(p, interface),
                    key |-> new.key, artifact |-> {},
                    linked |-> Linked]
  OBVIOUS
<1>6. PICK fs : fs = new.files
  OBVIOUS
<1>7. /\ Publish(p, a, fs)
      /\ cache' = IF p \in Cacheable /\ ~Focused(p) /\ Clean(new.inputs)
                  THEN StoreFrontend(look.cache, new.key, interface, DOMAIN new.inputs)
                  ELSE look.cache
  BY <1>1, <1>3, <1>4, <1>5, <1>6
<1>8. PICK meaning : /\ Interprets(meaning) /\ AnalysesKeyed(meaning)
                     /\ CacheKeyed(meaning, cache)
  BY DEF KeysInv
<1>9. PICK before, kept : before = look.files /\ kept = look.cache
  OBVIOUS
<1>10. DirectoriesOK(before, overlays, disk) /\ CacheKeyed(meaning, kept)
  BY <1>8, <1>9, VisitingKeys, LookKeys
<1>11. PICK read : read = ReadBy(before, DOMAIN new.inputs)
  OBVIOUS
<1>12. /\ DirectoriesOK(fs, overlays, disk)
       /\ new.key.project = p /\ new.key.deps = Keys(p)
       /\ p \in Cacheable => new.inputs = KeyInputs(new.key)
  <2>1. p \in Projects /\ new = Analysed(p, before)
    BY <1>3, <1>9, VisitingKeys
  <2>2. DirectoriesOK(before, overlays, disk)
    BY <1>10
  <2>3. DirectoriesOK(new.files, overlays, disk)
    BY <1>11, <2>1, <2>2, AnalysedKeys
  <2>4. new.key.project = p /\ new.key.deps = Keys(p)
    BY <1>11, <2>1, <2>2, AnalysedKeys
  <2>5. p \in Cacheable => new.inputs = KeyInputs(new.key)
    BY <1>11, <2>1, <2>2, AnalysedKeys
  <2> QED
    BY <1>6, <2>3, <2>4, <2>5
<1>13. PICK key : key = new.key
  OBVIOUS
<1>14. CASE p \notin Cacheable
  <2>1. CacheKeyed(meaning, cache')
    BY <1>7, <1>9, <1>10, <1>14
  <2> QED
    BY <1>2, <1>7, <1>8, <1>12, <1>14, <2>1 DEF KeyedVisit
<1>15. CASE p \in Cacheable
  <2>1. ASSUME NEW q \in Deps[p]
        PROVE  /\ q \in DOMAIN projects /\ AnalysisKeyed(meaning, q, projects[q])
    <3>1. q \in DOMAIN projects
      BY VisitingKeys
    <3>2. q \in Cacheable
      BY <1>15 DEF KeysInv, Allowed, Steady, Deps
    <3> QED
      BY <1>8, <3>1, <3>2 DEF AnalysesKeyed, Held
  <2>2. DOMAIN key.deps = Deps[p] /\ \A q \in Deps[p] : key.deps[q] = projects[q].key
    BY <1>12, <1>13 DEF Keys
  <2>3. \A q \in DOMAIN key.deps : key.deps[q] \in DOMAIN meaning /\ key.deps[q].project = q
    BY <2>1, <2>2 DEF AnalysisKeyed
  <2>4. Imported(p) = ImportsOf(meaning, key)
    <3>1. \A q \in Deps[p] : projects[q].interface = meaning[key.deps[q]]
      BY <2>1, <2>2 DEF AnalysisKeyed
    <3> QED
      BY <2>2, <3>1 DEF Imported, ImportsOf
  <2>5. interface = Interface(KeyInputs(key), ImportsOf(meaning, key))
    <3>1. new.inputs = KeyInputs(key)
      BY <1>12, <1>13, <1>15
    <3> QED
      BY <1>4, <2>4, <3>1
  <2>6. PICK more : more = [k \in DOMAIN meaning \cup {key} |->
                             IF k \in DOMAIN meaning THEN meaning[k] ELSE interface]
    OBVIOUS
  <2>7. key.project \in Graph /\ DOMAIN key.deps = Deps[key.project]
    BY <1>12, <1>13, <2>2, VisitingKeys
  <2>8. /\ Interprets(more) /\ key \in DOMAIN more /\ more[key] = interface
        /\ DOMAIN meaning \subseteq DOMAIN more
        /\ \A k \in DOMAIN meaning : more[k] = meaning[k]
    BY <1>8, <2>3, <2>5, <2>6, <2>7, MeaningGrows
  <2>9. AnalysesKeyed(more) /\ CacheKeyed(more, kept)
    BY <1>8, <1>10, <2>8, KeyedMore
  <2>10. AnalysisKeyed(more, p, a)
    BY <1>5, <1>12, <1>13, <2>8 DEF AnalysisKeyed
  <2>11. CacheKeyed(more, cache')
    <3>1. CacheKeyed(more, StoreFrontend(kept, key, interface, DOMAIN new.inputs))
      BY <2>8, <2>9, StoreKeyed
    <3> QED
      BY <1>7, <1>9, <1>13, <2>9, <3>1
  <2> QED
    BY <1>2, <1>7, <1>12, <2>8, <2>9, <2>10, <2>11 DEF KeyedVisit
<1> QED
  BY <1>14, <1>15

-----------------------------------------------------------------------------
(* The keys the other steps leave.                                         *)

\* Analyses keep their key and interface.
LEMMA StillKeyed ==
  ASSUME KeysInv, UNCHANGED <<script, cache>>, MessagesOK', InOrder',
         NEW fs, fs = files', NEW ov, ov = overlays', NEW dk, dk = disk',
         Allowed(ov, dk), DirectoriesOK(fs, ov, dk),
         \A p \in Cacheable : \A x \in Held(p)' : \E y \in Held(p) :
           x = y \/ \E artifact : x = [y EXCEPT !.artifact = artifact]
  PROVE  KeysInv'
<1>1. PICK meaning : /\ Interprets(meaning) /\ AnalysesKeyed(meaning)
                     /\ CacheKeyed(meaning, cache)
  BY DEF KeysInv
<1>2. ASSUME NEW p \in Cacheable, NEW x \in Held(p)' PROVE AnalysisKeyed(meaning, p, x)
  <2>1. PICK y \in Held(p) : x = y \/ \E artifact : x = [y EXCEPT !.artifact = artifact]
    OBVIOUS
  <2>2. AnalysisKeyed(meaning, p, y)
    BY <1>1, <2>1 DEF AnalysesKeyed
  <2>3. DOMAIN x = DOMAIN y /\ x.key = y.key /\ x.interface = y.interface
    BY <2>1, <2>2 DEF AnalysisKeyed
  <2> QED
    BY <2>2, <2>3 DEF AnalysisKeyed
<1>3. AnalysesKeyed(meaning)'
  <2>1. Cacheable' = Cacheable
    BY ScriptKept
  <2> QED
    BY <1>2, <2>1 DEF AnalysesKeyed, AnalysisKeyed
<1>4. PICK kept : kept = cache' /\ CacheKeyed(meaning, kept)
  BY <1>1
<1> QED
  BY <1>1, <1>3, <1>4, KeysStep

LEMMA RestKeys ==
  ASSUME KeysInv, UNCHANGED <<script, cache, projects, previous>>, MessagesOK',
         \/ work' = work
         \/ /\ work' = [kind |-> work'.kind, for |-> work'.for, at |-> work'.at]
            /\ work'.kind # "visit",
         NEW fs, fs = files', NEW ov, ov = overlays', NEW dk, dk = disk',
         Allowed(ov, dk), DirectoriesOK(fs, ov, dk)
  PROVE  KeysInv'
<1>1. InOrder'
  BY ScriptKept DEF KeysInv, InOrder
<1>2. \A p \in Cacheable : \A x \in Held(p)' : x \in Held(p)
  BY DEF Held
<1> QED
  BY <1>1, <1>2, StillKeyed

\* What a step that leaves the files, the buffers and the disk alone keeps.
LEMMA OutsideKeys ==
  ASSUME KeysInv
  PROVE  /\ Allowed(overlays, disk) /\ DirectoriesOK(files, overlays, disk) /\ MessagesOK
         /\ UNCHANGED <<script, inbox>> => MessagesOK'
BY DEF KeysInv, MessagesOK, Message

LEMMA StartKeys ==
  ASSUME KeysInv, NEW for, StartRefresh(for), UNCHANGED <<script, cache, overlays, disk, inbox>>
  PROVE  KeysInv'
<1>1. /\ previous' = projects /\ projects' = << >>
      /\ files' = [files EXCEPT !.observed = [path \in Files |-> Unread]]
      /\ work' = [kind |-> "visit", for |-> for, at |-> 1]
  BY DEF StartRefresh, NoProjects
<1>2. DOMAIN projects' = {}
  BY <1>1
<1>3. script \in Scripts /\ DOMAIN projects \subseteq Graph
  BY DEF KeysInv, InOrder, Allowed
<1>4. DOMAIN projects' = Before(1) /\ 1 \in 1..(Len(Order) + 1)
  BY <1>2, <1>3, BeforeFacts, OrderFacts
<1>5. InOrder'
  BY <1>1, <1>2, <1>3, <1>4, ScriptKept DEF InOrder
<1>6. \A p \in Cacheable : \A x \in Held(p)' : x \in Held(p)
  BY <1>1, <1>2 DEF Held
<1>7. PICK fs, ov, dk : fs = files' /\ ov = overlays /\ dk = disk
  OBVIOUS
<1>8. Allowed(ov, dk) /\ DirectoriesOK(fs, ov, dk) /\ MessagesOK'
  BY <1>1, <1>7, OutsideKeys, EndedDirectories
<1> QED
  BY <1>5, <1>6, <1>7, <1>8, StillKeyed

\* Only the worker's schedule changes.
LEMMA ScheduleKeys ==
  ASSUME KeysInv, UNCHANGED <<script, cache, projects, previous, files, overlays, disk, inbox>>,
         \/ work' = work
         \/ work'.kind # "visit"
              /\ work' = [kind |-> work'.kind, for |-> work'.for, at |-> work'.at]
  PROVE  KeysInv'
<1>1. PICK fs, ov, dk : fs = files /\ ov = overlays /\ dk = disk
  OBVIOUS
<1>2. Allowed(ov, dk) /\ DirectoriesOK(fs, ov, dk) /\ MessagesOK'
  BY <1>1, OutsideKeys
<1> QED
  BY <1>1, <1>2, RestKeys

LEMMA EndCheckKeys ==
  ASSUME KeysInv, EndCheck \/ CancelLowering, UNCHANGED script
  PROVE  KeysInv'
<1>1. /\ UNCHANGED <<cache, projects, previous, files, overlays, disk, inbox>>
      /\ work' = [kind |-> "idle", for |-> None, at |-> 0]
  BY DEF EndCheck, CancelLowering, Idle, session, outside
<1> QED
  BY <1>1, ScheduleKeys

LEMMA StartingKeys ==
  ASSUME KeysInv, UNCHANGED script,
         StartCheck \/ StartEdit \/ (\E p \in Graph : Ask(p)) \/ FollowDefinition
  PROVE  KeysInv'
<1>1. UNCHANGED <<cache, overlays, disk, inbox>>
  BY DEF StartCheck, StartEdit, Ask, FollowDefinition, outside
<1>2. \/ \E for : StartRefresh(for)
      \/ /\ UNCHANGED <<previous, projects, files>>
         /\ work' = work \/ work' = [Idle EXCEPT !.kind = "load"]
  BY DEF StartCheck, StartEdit, Ask, FollowDefinition
<1>3. CASE \E for : StartRefresh(for)
  BY <1>1, <1>3, StartKeys
<1>4. CASE /\ UNCHANGED <<previous, projects, files>>
           /\ work' = work \/ work' = [Idle EXCEPT !.kind = "load"]
  <2>1. work' # work => work' = [kind |-> "load", for |-> None, at |-> 0]
    BY <1>4 DEF Idle
  <2> QED
    BY <1>1, <1>4, <2>1, ScheduleKeys
<1> QED
  BY <1>2, <1>3, <1>4

LEMMA LoadArtifactsKeys ==
  ASSUME KeysInv, LoadArtifacts, UNCHANGED script
  PROVE  KeysInv'
<1>1. PICK missing : missing = {p \in Wanting : Found(p) = {}}
  OBVIOUS
<1>2. PICK loaded : loaded = [p \in DOMAIN projects |->
              IF p \in Wanting \ missing
              THEN [projects[p] EXCEPT !.artifact = {(CHOOSE e \in Found(p) : TRUE).artifact}]
              ELSE projects[p]]
  OBVIOUS
<1>3. /\ UNCHANGED <<cache, overlays, inbox, disk>>
      /\ \/ /\ projects' = loaded
            /\ work' = [Idle EXCEPT !.kind = "lower", !.at = 1]
            /\ UNCHANGED <<previous, files>>
         \/ /\ previous' = loaded /\ projects' = NoProjects
            /\ files' = [files EXCEPT !.observed = [path \in Files |-> Unread]]
            /\ work' = [kind |-> "visit", for |-> "lower", at |-> 1]
  BY <1>1, <1>2 DEF LoadArtifacts, outside
<1>4. DOMAIN loaded = DOMAIN projects
  BY <1>2
<1>5. ASSUME NEW p \in DOMAIN loaded
      PROVE  \E y \in Held(p) :
               loaded[p] = y \/ \E artifact : loaded[p] = [y EXCEPT !.artifact = artifact]
  <2>1. projects[p] \in Held(p)
    BY <1>4 DEF Held
  <2>2. \/ loaded[p] = projects[p]
        \/ loaded[p] = [projects[p] EXCEPT !.artifact = {(CHOOSE e \in Found(p) : TRUE).artifact}]
    BY <1>2, <1>4
  <2> QED
    BY <2>1, <2>2
<1>6. script \in Scripts /\ DOMAIN projects \subseteq Graph /\ DOMAIN previous \subseteq Graph
  BY DEF KeysInv, InOrder, Allowed
<1>7. CASE /\ projects' = loaded
           /\ work' = [Idle EXCEPT !.kind = "lower", !.at = 1]
           /\ UNCHANGED <<previous, files>>
  <2>1. work' = [kind |-> "lower", for |-> None, at |-> 1]
    BY <1>7 DEF Idle
  <2>2. InOrder'
    BY <1>4, <1>6, <1>7, <2>1, ScriptKept DEF InOrder
  <2>3. ASSUME NEW p \in Cacheable, NEW x \in Held(p)'
        PROVE  \E y \in Held(p) : x = y \/ \E artifact : x = [y EXCEPT !.artifact = artifact]
    <3>1. (p \in DOMAIN loaded /\ x = loaded[p]) \/ x \in Held(p)
      BY <1>7 DEF Held
    <3> QED
      BY <1>5, <3>1
  <2>4. PICK fs, ov, dk : fs = files /\ ov = overlays /\ dk = disk
    OBVIOUS
  <2>5. Allowed(ov, dk) /\ DirectoriesOK(fs, ov, dk) /\ MessagesOK'
    BY <1>3, <2>4, OutsideKeys
  <2> QED
    BY <1>3, <1>7, <2>2, <2>3, <2>4, <2>5, StillKeyed
<1>8. CASE /\ previous' = loaded /\ projects' = NoProjects
           /\ files' = [files EXCEPT !.observed = [path \in Files |-> Unread]]
           /\ work' = [kind |-> "visit", for |-> "lower", at |-> 1]
  <2>1. DOMAIN projects' = {}
    BY <1>8 DEF NoProjects
  <2>2. DOMAIN projects' = Before(1) /\ 1 \in 1..(Len(Order) + 1)
    BY <1>6, <2>1, BeforeFacts, OrderFacts
  <2>3. InOrder'
    BY <1>4, <1>6, <1>8, <2>1, <2>2, ScriptKept DEF InOrder
  <2>4. ASSUME NEW p \in Cacheable, NEW x \in Held(p)'
        PROVE  \E y \in Held(p) : x = y \/ \E artifact : x = [y EXCEPT !.artifact = artifact]
    <3>1. p \in DOMAIN loaded /\ x = loaded[p]
      BY <1>8, <2>1 DEF Held
    <3> QED
      BY <1>5, <3>1
  <2>5. PICK fs, ov, dk : fs = files' /\ ov = overlays /\ dk = disk
    OBVIOUS
  <2>6. Allowed(ov, dk) /\ DirectoriesOK(fs, ov, dk) /\ MessagesOK'
    BY <1>3, <1>8, <2>5, OutsideKeys, EndedDirectories
  <2> QED
    BY <1>3, <2>3, <2>4, <2>5, <2>6, StillKeyed
<1> QED
  BY <1>3, <1>7, <1>8

LEMMA LowerKeys ==
  ASSUME KeysInv, Lower, UNCHANGED script
  PROVE  KeysInv'
<1>1. /\ work' = [work EXCEPT !.at = @ + 1] /\ work.kind = "lower"
      /\ UNCHANGED <<files, previous, overlays, inbox, disk>>
  BY DEF Lower, Busy, outside
<1>2. PICK p : p = Visiting
  OBVIOUS
<1>3. PICK new : new = Artifact(projects[p].inputs, [q \in Deps[p] |-> Lowered(projects[q])])
  OBVIOUS
<1>4. \/ UNCHANGED <<projects, cache>>
      \/ /\ p \in DOMAIN projects
         /\ projects' = [projects EXCEPT ![p].artifact = {new}]
         /\ cache' = IF p \in Cacheable
                     THEN Store(cache, "artifacts",
                                [key |-> projects[p].key, artifact |-> new,
                                 interface |-> projects[p].interface])
                     ELSE cache
  BY <1>2, <1>3 DEF Lower
<1>5. work' = [kind |-> "lower", for |-> work.for, at |-> work'.at] /\ work'.kind # "visit"
      /\ work' = [kind |-> work'.kind, for |-> work'.for, at |-> work'.at]
  BY <1>1 DEF KeysInv, InOrder
<1>6. CASE UNCHANGED <<projects, cache>>
  BY <1>1, <1>5, <1>6, ScheduleKeys
<1>7. CASE /\ p \in DOMAIN projects
           /\ projects' = [projects EXCEPT ![p].artifact = {new}]
           /\ cache' = IF p \in Cacheable
                       THEN Store(cache, "artifacts",
                                  [key |-> projects[p].key, artifact |-> new,
                                   interface |-> projects[p].interface])
                       ELSE cache
  <2>1. PICK meaning : /\ Interprets(meaning) /\ AnalysesKeyed(meaning)
                       /\ CacheKeyed(meaning, cache)
    BY DEF KeysInv
  <2>2. DOMAIN projects' = DOMAIN projects
    BY <1>7
  <2>3. \A q \in DOMAIN projects :
          projects'[q] = IF q = p THEN [projects[q] EXCEPT !.artifact = {new}] ELSE projects[q]
    BY <1>7
  <2>4. InOrder'
    BY <1>1, <1>5, <2>2, ScriptKept DEF KeysInv, InOrder
  <2>5. ASSUME NEW q \in Cacheable, NEW x \in Held(q)' PROVE AnalysisKeyed(meaning, q, x)
    <3>1. CASE x \in Held(q)
      BY <2>1, <3>1 DEF AnalysesKeyed
    <3>2. CASE x \notin Held(q)
      <4>1. q \in DOMAIN projects /\ x = projects'[q] /\ projects[q] \in Held(q)
        BY <1>1, <2>2, <3>2 DEF Held
      <4>2. x = [projects[q] EXCEPT !.artifact = {new}]
        BY <2>3, <3>2, <4>1
      <4>3. AnalysisKeyed(meaning, q, projects[q])
        BY <2>1, <4>1 DEF AnalysesKeyed
      <4>4. DOMAIN x = DOMAIN projects[q] /\ x.key = projects[q].key
            /\ x.interface = projects[q].interface
        BY <4>2, <4>3 DEF AnalysisKeyed
      <4> QED
        BY <4>3, <4>4 DEF AnalysisKeyed
    <3> QED
      BY <3>1, <3>2
  <2>6. AnalysesKeyed(meaning)'
    <3>1. Cacheable' = Cacheable
      BY ScriptKept
    <3> QED
      BY <2>5, <3>1 DEF AnalysesKeyed, AnalysisKeyed
  <2>7. CacheKeyed(meaning, cache')
    <3>1. CASE p \notin Cacheable
      BY <1>7, <2>1, <3>1
    <3>2. CASE p \in Cacheable
      <4>1. AnalysisKeyed(meaning, p, projects[p])
        BY <1>7, <2>1, <3>2 DEF AnalysesKeyed, Held
      <4>2. PICK entry : entry = [key |-> projects[p].key, artifact |-> new,
                                  interface |-> projects[p].interface]
        OBVIOUS
      <4>3. entry.key \in DOMAIN meaning /\ entry.interface = meaning[entry.key]
        BY <4>1, <4>2 DEF AnalysisKeyed
      <4>4. cache' = [cache EXCEPT !["artifacts"] = {e \in @ : e.key # entry.key} \cup {entry}]
        BY <1>7, <3>2, <4>2 DEF Store
      <4>5. /\ cache'.interfaces = cache.interfaces
            /\ cache'.artifacts = {e \in cache.artifacts : e.key # entry.key} \cup {entry}
            /\ cache' = [interfaces |-> cache'.interfaces, inputs |-> cache'.inputs,
                         artifacts |-> cache'.artifacts]
        BY <2>1, <4>4 DEF CacheKeyed
      <4> QED
        BY <2>1, <4>3, <4>5 DEF CacheKeyed
    <3> QED
      BY <3>1, <3>2
  <2>8. PICK fs, ov, dk : fs = files /\ ov = overlays /\ dk = disk
    OBVIOUS
  <2>9. PICK kept : kept = cache'
    OBVIOUS
  <2>10. Allowed(ov, dk) /\ DirectoriesOK(fs, ov, dk) /\ MessagesOK'
    BY <1>1, <2>8, OutsideKeys
  <2> QED
    BY <1>1, <2>1, <2>4, <2>6, <2>7, <2>8, <2>9, <2>10, KeysStep
<1> QED
  BY <1>4, <1>6, <1>7

LEMMA VisitKeys ==
  ASSUME KeysInv, Visit, UNCHANGED script
  PROVE  KeysInv'
<1>1. Busy("visit") /\ (Reuse(Visiting) \/ Admit(Visiting) \/ Rebuild(Visiting))
  BY DEF Visit
<1>2. PICK a, gs : KeyedVisit(a, gs)
  BY <1>1, ReuseKeys, AdmitKeys, RebuildKeys
<1> QED
  BY <1>1, <1>2, KeyedVisitStep

\* A refresh that ends, in one way or the other, leaves no visit.
LEMMA EndedWork ==
  ASSUME NEW fs, NEW wrong \in BOOLEAN, Ended(fs, wrong)
  PROVE  /\ work' = [kind |-> work'.kind, for |-> work'.for, at |-> work'.at]
         /\ work'.kind # "visit" /\ previous' = NoProjects
         /\ files' = RetainAcquired(fs) /\ UNCHANGED <<overlays, inbox, disk>>
<1>1. \/ work' = [kind |-> "idle", for |-> None, at |-> 0]
      \/ work' = [kind |-> "load", for |-> None, at |-> 0]
      \/ work' = [kind |-> "lower", for |-> None, at |-> 1]
  BY DEF Ended, Idle
<1>2. /\ work' = [kind |-> work'.kind, for |-> work'.for, at |-> work'.at]
      /\ work'.kind # "visit"
  BY <1>1
<1>3. /\ previous' = NoProjects /\ files' = RetainAcquired(fs)
      /\ UNCHANGED <<overlays, inbox, disk>>
  BY DEF Ended
<1> QED
  BY <1>2, <1>3

LEMMA FinishKeys ==
  ASSUME KeysInv, Finish, UNCHANGED script
  PROVE  KeysInv'
<1>1. Ended(files, FALSE) /\ UNCHANGED <<projects, cache>>
  BY DEF Finish
<1>2. /\ work' = [kind |-> work'.kind, for |-> work'.for, at |-> work'.at]
      /\ work'.kind # "visit" /\ previous' = NoProjects
      /\ files' = RetainAcquired(files) /\ UNCHANGED <<overlays, inbox, disk>>
  BY <1>1, EndedWork
<1>3. DOMAIN previous' = {}
  BY <1>2 DEF NoProjects
<1>4. InOrder'
  BY <1>1, <1>2, <1>3, ScriptKept DEF KeysInv, InOrder
<1>5. \A p \in Cacheable : \A x \in Held(p)' : x \in Held(p)
  BY <1>1, <1>3 DEF Held
<1>6. PICK fs, ov, dk : fs = files' /\ ov = overlays /\ dk = disk
  OBVIOUS
<1>7. Allowed(ov, dk) /\ DirectoriesOK(fs, ov, dk) /\ MessagesOK'
  BY <1>2, <1>6, OutsideKeys, EndedDirectories
<1> QED
  BY <1>1, <1>2, <1>4, <1>5, <1>6, <1>7, StillKeyed

\* A refresh that was looking into a project ends there: what it held stays or
\* goes.
LEMMA LeftKeys ==
  ASSUME KeysInv, Busy("visit"), UNCHANGED <<script, overlays, disk, inbox>>,
         NEW look \in Looked(Visiting), cache' = look.cache,
         NEW paths, NEW fs, fs = ReadBy(look.files, paths),
         files' = RetainAcquired(fs) \/ files' = AbandonAcquired(fs),
         work' = [kind |-> work'.kind, for |-> work'.for, at |-> work'.at],
         work'.kind # "visit",
         DOMAIN projects' \cup DOMAIN previous' \subseteq Graph,
         \A p \in Cacheable : \A x \in Held(p)' : x \in Held(p)
  PROVE  KeysInv'
<1>1. PICK meaning : /\ Interprets(meaning) /\ AnalysesKeyed(meaning)
                     /\ CacheKeyed(meaning, cache)
  BY DEF KeysInv
<1>2. DirectoriesOK(look.files, overlays, disk) /\ CacheKeyed(meaning, look.cache)
  BY <1>1, VisitingKeys, LookKeys
<1>3. PICK ov, dk, gs, kept : ov = overlays /\ dk = disk /\ gs = files' /\ kept = look.cache
  OBVIOUS
<1>4. Allowed(ov, dk) /\ MessagesOK'
  BY <1>3, OutsideKeys
<1>5. DirectoriesOK(fs, ov, dk)
  BY <1>2, <1>3, <1>4, ReadDirectories DEF ReadBy
<1>6. DirectoriesOK(gs, ov, dk)
  BY <1>3, <1>5, EndedDirectories
<1>7. InOrder'
  BY ScriptKept DEF InOrder
<1>8. AnalysesKeyed(meaning)'
  <2>1. \A p \in Cacheable : \A x \in Held(p)' : AnalysisKeyed(meaning, p, x)
    BY <1>1 DEF AnalysesKeyed
  <2>2. Cacheable' = Cacheable
    BY ScriptKept
  <2> QED
    BY <2>1, <2>2 DEF AnalysesKeyed, AnalysisKeyed
<1> QED
  BY <1>1, <1>2, <1>3, <1>4, <1>6, <1>7, <1>8, KeysStep

LEMMA FailKeys ==
  ASSUME KeysInv, Fail, UNCHANGED script
  PROVE  KeysInv'
<1>1. PICK look \in Looked(Visiting) :
        cache' = look.cache /\ Ended(ReadBy(look.files, {Main[Visiting]}), TRUE)
  BY DEF Fail
<1>2. PICK fs : fs = ReadBy(look.files, {Main[Visiting]})
  OBVIOUS
<1>3. /\ work' = [kind |-> work'.kind, for |-> work'.for, at |-> work'.at]
      /\ work'.kind # "visit" /\ previous' = NoProjects
      /\ files' = RetainAcquired(fs) /\ UNCHANGED <<overlays, inbox, disk>>
  BY <1>1, <1>2, EndedWork
<1>4. DOMAIN previous' = {} /\ DOMAIN projects' = {} /\ Busy("visit")
  BY <1>3 DEF NoProjects, Fail
<1>5. \A p \in Cacheable : \A x \in Held(p)' : x \in Held(p)
  BY <1>4 DEF Held
<1> QED
  BY <1>1, <1>2, <1>3, <1>4, <1>5, LeftKeys

LEMMA CancelVisitKeys ==
  ASSUME KeysInv, CancelVisit, UNCHANGED script
  PROVE  KeysInv'
<1>1. Busy("visit") /\ UNCHANGED <<overlays, disk, inbox>>
  BY DEF CancelVisit, Untouched, outside
<1>2. \/ Unwound(files) /\ UNCHANGED cache
      \/ \E look \in Looked(Visiting) : \E paths :
           Unwound(ReadBy(look.files, paths)) /\ cache' = look.cache
  BY DEF CancelVisit
<1>3. ASSUME NEW fs, Unwound(fs)
      PROVE  /\ files' = AbandonAcquired(fs)
             /\ work' = [kind |-> work'.kind, for |-> work'.for, at |-> work'.at]
             /\ work'.kind # "visit"
             /\ DOMAIN projects' \cup DOMAIN previous' \subseteq Graph
             /\ \A p \in Cacheable : \A x \in Held(p)' : x \in Held(p)
  <2>1. /\ files' = AbandonAcquired(fs) /\ work' = [kind |-> "idle", for |-> None, at |-> 0]
        /\ projects' = [p \in DOMAIN projects \cup DOMAIN previous |->
                         IF p \in DOMAIN projects THEN projects[p] ELSE previous[p]]
        /\ previous' = NoProjects
    BY <1>3 DEF Unwound, Idle
  <2>2. DOMAIN previous' = {} /\ DOMAIN projects' = DOMAIN projects \cup DOMAIN previous
    BY <2>1 DEF NoProjects
  <2>3. DOMAIN projects' \cup DOMAIN previous' \subseteq Graph
    BY <2>2 DEF KeysInv, InOrder
  <2>4. ASSUME NEW p, NEW x \in Held(p)' PROVE x \in Held(p)
    <3>1. p \in DOMAIN projects' /\ x = projects'[p]
      BY <2>2 DEF Held
    <3>2. x = IF p \in DOMAIN projects THEN projects[p] ELSE previous[p]
      BY <2>1, <2>2, <3>1
    <3> QED
      BY <2>2, <3>1, <3>2 DEF Held
  <2> QED
    BY <2>1, <2>3, <2>4
<1>4. CASE Unwound(files) /\ UNCHANGED cache
  <2>1. PICK gs, ov, dk : gs = files' /\ ov = overlays /\ dk = disk
    OBVIOUS
  <2>2. Allowed(ov, dk) /\ DirectoriesOK(gs, ov, dk) /\ MessagesOK'
    BY <1>1, <1>3, <1>4, <2>1, OutsideKeys, EndedDirectories
  <2>3. InOrder'
    BY <1>3, <1>4, ScriptKept DEF InOrder
  <2> QED
    BY <1>1, <1>3, <1>4, <2>1, <2>2, <2>3, StillKeyed
<1>5. CASE \E look \in Looked(Visiting) : \E paths :
             Unwound(ReadBy(look.files, paths)) /\ cache' = look.cache
  <2>1. PICK look \in Looked(Visiting) : \E paths :
             Unwound(ReadBy(look.files, paths)) /\ cache' = look.cache
    BY <1>5
  <2>2. PICK paths : Unwound(ReadBy(look.files, paths)) /\ cache' = look.cache
    BY <2>1
  <2>3. PICK fs : fs = ReadBy(look.files, paths)
    OBVIOUS
  <2>4. Unwound(fs)
    BY <2>2, <2>3
  <2> QED
    BY <1>1, <1>3, <2>2, <2>3, <2>4, LeftKeys
<1> QED
  BY <1>2, <1>4, <1>5

LEMMA HandleKeys ==
  ASSUME KeysInv, Handle, UNCHANGED script
  PROVE  KeysInv'
<1>1. PICK message : message = Head(inbox)
  OBVIOUS
<1>2. PICK edit : edit = Overlaid(message.path, message.text)
  OBVIOUS
<1>3. /\ inbox # << >> /\ inbox' = Tail(inbox)
      /\ UNCHANGED <<projects, previous, cache, work, disk>>
      /\ \/ /\ files' = Invalidate(files, message.paths) /\ UNCHANGED overlays
         \/ UNCHANGED <<files, overlays>>
         \/ /\ message.kind # "files" /\ files' = edit.files
            /\ overlays' = [overlays EXCEPT ![message.path] = message.text]
  BY <1>1, <1>2 DEF Handle, outside
<1>4. MessagesOK /\ Allowed(overlays, disk) /\ DirectoriesOK(files, overlays, disk)
  BY DEF KeysInv
<1>5. /\ message \in Message /\ MessagesOK'
      /\ message.kind = "edit" => /\ message.path \in Files
                                  /\ message.text \in script.typings[message.path]
  BY <1>1, <1>3, <1>4, MessageTaken
<1>6. PICK fs, ov, dk : fs = files' /\ ov = overlays' /\ dk = disk
  OBVIOUS
<1>7. Allowed(ov, dk) /\ DirectoriesOK(fs, ov, dk)
  <2>1. CASE files' = Invalidate(files, message.paths) /\ UNCHANGED overlays
    BY <1>4, <1>6, <2>1, InvalidateDirectories
  <2>2. CASE UNCHANGED <<files, overlays>>
    BY <1>4, <1>6, <2>2
  <2>3. CASE /\ message.kind # "files" /\ files' = edit.files
             /\ overlays' = [overlays EXCEPT ![message.path] = message.text]
    <3>1. message.kind = "edit"
      BY <1>5, <2>3 DEF Message
    <3>2. message.path \in Files /\ message.text \in script.typings[message.path]
      BY <1>5, <3>1
    <3>3. PICK path \in Files, text \in script.typings[message.path] : path = message.path /\ text = message.text
      BY <3>2
    <3> QED
      BY <1>2, <1>4, <1>6, <2>3, <3>3, OverlaidDirectories
  <2> QED
    BY <1>3, <2>1, <2>2, <2>3
<1> QED
  BY <1>3, <1>5, <1>6, <1>7, RestKeys

LEMMA TypeKeys ==
  ASSUME KeysInv, UNCHANGED script, NEW path \in Files, NEW text \in script.typings[path],
         Type(path, text)
  PROVE  KeysInv'
<1>1. PICK message : message = [kind |-> "edit", path |-> path, text |-> text, paths |-> {}]
  OBVIOUS
<1>2. /\ inbox' = Append(inbox, message)
      /\ UNCHANGED <<files, projects, previous, cache, work, overlays, disk>>
  BY <1>1 DEF Type, Worker, session, outside
<1>3. text \in Texts \cup {None} /\ message \in Message
  <2>1. script \in Scripts
    BY DEF KeysInv, Allowed
  <2>2. text \in Texts \cup {None}
    BY <2>1, WorkspaceAssumption
  <2> QED
    BY <1>1, <2>2 DEF Message
<1>4. MessagesOK'
  BY <1>1, <1>2, <1>3, MessageSent, OutsideKeys
<1>5. PICK fs, ov, dk : fs = files /\ ov = overlays /\ dk = disk
  OBVIOUS
<1>6. Allowed(ov, dk) /\ DirectoriesOK(fs, ov, dk)
  BY <1>5, OutsideKeys
<1> QED
  BY <1>2, <1>4, <1>5, <1>6, RestKeys

LEMMA SaveKeys ==
  ASSUME KeysInv, UNCHANGED script, NEW path \in Files, NEW text \in script.saves[path],
         Save(path, text)
  PROVE  KeysInv'
<1>1. /\ disk' = [disk EXCEPT ![path] = text]
      /\ UNCHANGED <<files, projects, previous, cache, work, overlays, inbox>>
  BY DEF Save, Worker, session
<1>2. PICK fs, ov, dk : fs = files /\ ov = overlays /\ dk = disk'
  OBVIOUS
<1>3. Allowed(ov, dk) /\ DirectoriesOK(fs, ov, dk) /\ MessagesOK'
  BY <1>1, <1>2, OutsideKeys, SavedDirectories
<1> QED
  BY <1>1, <1>2, <1>3, RestKeys

LEMMA ReportKeys ==
  ASSUME KeysInv, UNCHANGED script, NEW paths, Report(paths)
  PROVE  KeysInv'
<1>1. PICK message : message = [kind |-> "files", path |-> None, text |-> None,
                                paths |-> Differing(paths)]
  OBVIOUS
<1>2. inbox' \in {inbox, Append(inbox, message)}
      /\ UNCHANGED <<files, projects, previous, cache, work, overlays, disk>>
  BY <1>1 DEF Report, Worker, session
<1>3. message \in Message /\ message.kind # "edit"
  BY <1>1 DEF Message, Differing, Watched
<1>4. MessagesOK'
  BY <1>2, <1>3, MessageSent, OutsideKeys
<1>5. PICK fs, ov, dk : fs = files /\ ov = overlays /\ dk = disk
  OBVIOUS
<1>6. Allowed(ov, dk) /\ DirectoriesOK(fs, ov, dk)
  BY <1>5, OutsideKeys
<1> QED
  BY <1>2, <1>4, <1>5, <1>6, RestKeys

LEMMA WatcherKeys ==
  ASSUME KeysInv, UNCHANGED script, WatcherStep \/ Reconcile
  PROVE  KeysInv'
<1>1. CASE Drain
  <2>1. UNCHANGED <<files, projects, previous, cache, work, overlays, disk, inbox>>
    BY <1>1 DEF Drain, Worker, session
  <2> QED
    BY <2>1, ScheduleKeys
<1>2. CASE \E paths : Report(paths)
  BY <1>2, ReportKeys
<1> QED
  BY <1>1, <1>2 DEF WatcherStep, ReadChanged, Reconcile

LEMMA NothingReadDirectories ==
  ASSUME NEW ov, NEW dk, Allowed(ov, dk)
  PROVE  DirectoriesOK(NothingRead, ov, dk)
<1>1. PICK fs : fs = NothingRead
  OBVIOUS
<1>2. /\ fs.disk = [path \in Files |-> Unread] /\ fs.acquired = {}
      /\ fs.listings = [project \in Projects |-> None]
      /\ fs.fingerprints = [project \in Projects |-> None]
      /\ fs = [disk |-> fs.disk, observed |-> fs.observed, acquired |-> fs.acquired,
               pending |-> fs.pending, listings |-> fs.listings,
               fingerprints |-> fs.fingerprints]
  BY <1>1 DEF NothingRead
<1>3. \A p \in Cacheable : DirectoryOK(fs, p, ov, dk)
  BY <1>2 DEF DirectoryOK, In
<1>4. DirectoriesOK(fs, ov, dk)
  BY <1>2, <1>3 DEF DirectoriesOK
<1> QED
  BY <1>1, <1>4

LEMMA RestartKeys ==
  ASSUME KeysInv, UNCHANGED script, Restart
  PROVE  KeysInv'
<1>1. /\ files' = NothingRead /\ projects' = NoProjects /\ previous' = NoProjects
      /\ work' = [kind |-> "idle", for |-> None, at |-> 0]
      /\ UNCHANGED <<disk, overlays, cache, inbox>>
  BY DEF Restart, Idle
<1>2. DOMAIN projects' = {} /\ DOMAIN previous' = {}
  BY <1>1 DEF NoProjects
<1>3. InOrder'
  BY <1>1, <1>2 DEF InOrder
<1>4. \A p \in Cacheable : \A x \in Held(p)' : x \in Held(p)
  BY <1>2 DEF Held
<1>5. PICK fs, ov, dk : fs = files' /\ ov = overlays /\ dk = disk
  OBVIOUS
<1>6. Allowed(ov, dk) /\ DirectoriesOK(fs, ov, dk) /\ MessagesOK'
  BY <1>1, <1>5, OutsideKeys, NothingReadDirectories
<1> QED
  BY <1>1, <1>3, <1>4, <1>5, <1>6, StillKeyed

LEMMA KeysInit ==
  ASSUME Init, Steady
  PROVE  KeysInv
<1>1. /\ script \in Scripts /\ disk = script.disk /\ overlays = script.overlays
      /\ files = NothingRead /\ projects = NoProjects /\ previous = NoProjects
      /\ cache = [interfaces |-> {}, inputs |-> {}, artifacts |-> {}]
      /\ work = [kind |-> "idle", for |-> None, at |-> 0] /\ inbox = << >>
  BY DEF Init, NoEntries, Idle
<1>2. Allowed(overlays, disk)
  BY <1>1, WorkspaceAssumption DEF Allowed, DiskTexts, BufferTexts
<1>3. DOMAIN projects = {} /\ DOMAIN previous = {}
  BY <1>1 DEF NoProjects
<1>4. MessagesOK /\ InOrder
  BY <1>1, <1>3 DEF MessagesOK, InOrder
<1>5. DirectoriesOK(files, overlays, disk)
  BY <1>1, <1>2, NothingReadDirectories
<1>6. PICK meaning : meaning = [key \in {} |-> None]
  OBVIOUS
<1>7. Interprets(meaning) /\ AnalysesKeyed(meaning)
  BY <1>3, <1>6 DEF Interprets, AnalysesKeyed, Held
<1>8. CacheKeyed(meaning, cache)
  BY <1>1 DEF CacheKeyed
<1> QED
  BY <1>2, <1>4, <1>5, <1>7, <1>8 DEF KeysInv

LEMMA KeysNext ==
  ASSUME KeysInv, [Next]_vars
  PROVE  KeysInv'
<1>1. CASE UNCHANGED vars
  <2>1. UNCHANGED script
        /\ UNCHANGED <<cache, projects, previous, files, overlays, disk, inbox, work>>
    BY <1>1 DEF vars, unscripted
  <2> QED
    BY <2>1, ScheduleKeys
<1>2. CASE Next
  <2> USE <1>2 DEF Next
  <2>1. CASE WorkerStep
    BY <2>1, VisitKeys, FailKeys, FinishKeys, StartingKeys, LoadArtifactsKeys, LowerKeys,
       EndCheckKeys, HandleKeys DEF WorkerStep
  <2>2. CASE CancelVisit \/ CancelLowering
    BY <2>2, CancelVisitKeys, EndCheckKeys
  <2>3. CASE (\E p \in Graph : Ask(p)) \/ FollowDefinition
    BY <2>3, StartingKeys
  <2>4. CASE WatcherStep \/ Reconcile
    BY <2>4, WatcherKeys
  <2>5. CASE \E path \in Files : \E text \in script.saves[path] : Save(path, text)
    BY <2>5, SaveKeys
  <2>6. CASE \E path \in Files : \E text \in script.typings[path] : Type(path, text)
    BY <2>6, TypeKeys
  <2>7. CASE Restart
    BY <2>7, RestartKeys
  <2> QED
    BY <2>1, <2>2, <2>3, <2>4, <2>5, <2>6, <2>7 DEF Step
<1> QED
  BY <1>1, <1>2

LEMMA AlwaysKeys ==
  Spec /\ Steady => []KeysInv
<1>1. Init /\ Steady => KeysInv
  BY KeysInit
<1>2. KeysInv /\ [Next]_vars => KeysInv'
  BY KeysNext
<1> QED
  BY <1>1, <1>2, PTL DEF Spec

-----------------------------------------------------------------------------
(* What a key stands for.                                                  *)

LEMMA Least ==
  ASSUME NEW S \in SUBSET Nat, S # {}
  PROVE  \E m \in S : \A k \in S : ~(k < m)
<1>1. PICK R : R = OpToRel(<, Nat)
  OBVIOUS
<1>2. IsWellFoundedOn(R, Nat)
  BY <1>1, NatLessThanWellFounded
<1>3. PICK m \in S : \A k \in S : <<k, m>> \notin R
  BY <1>2, WFMin
<1>4. ASSUME NEW k \in S, k < m PROVE FALSE
  BY <1>1, <1>3, <1>4 DEF OpToRel
<1> QED
  BY <1>3, <1>4

\* Induction, of a set of numbers.
LEMMA Inductively ==
  ASSUME NEW S \in SUBSET Nat, 0 \in S, \A n \in S : n + 1 \in S
  PROVE  S = Nat
<1>1. SUFFICES ASSUME Nat \ S # {} PROVE FALSE
  OBVIOUS
<1>2. PICK m \in Nat \ S : \A k \in Nat \ S : ~(k < m)
  BY <1>1, Least
<1>3. m - 1 \in Nat /\ m - 1 < m
  BY <1>2
<1>4. m - 1 \in S
  BY <1>2, <1>3
<1> QED
  BY <1>2, <1>3, <1>4

LEMMA DepsInOrder ==
  ASSUME script \in Scripts, NEW i \in 1 .. Len(Order), NEW q \in Deps[Order[i]]
  PROVE  \E j \in 1 .. (i - 1) : q = Order[j]
<1>1. q \in Before(i)
  BY OrderFacts
<1> QED
  BY <1>1 DEF Before

\* The keys a key digests, by how far they are from it.
DepsOf(keys) == UNION {Range(k.deps) : k \in keys}
Levels(g, key, n) == g = [m \in 0 .. n |-> IF m = 0 THEN {key} ELSE DepsOf(g[m - 1])]

LEMMA DigestedLevels ==
  ASSUME NEW key
  PROVE  \E g : /\ g = (CHOOSE s : Levels(s, key, Len(Order)))
                /\ Digested(key) = UNION {g[n] : n \in 0 .. Len(Order)}
BY DEF Digested, Levels, DepsOf

LEMMA LevelsLonger ==
  ASSUME NEW key, NEW n \in Nat, NEW g, Levels(g, key, n)
  PROVE  \E s : Levels(s, key, n + 1)
<1>1. PICK s : s = [m \in 0 .. n + 1 |-> IF m \in 0 .. n THEN g[m] ELSE DepsOf(g[n])]
  OBVIOUS
<1>2. ASSUME NEW m \in 0 .. n + 1 PROVE s[m] = IF m = 0 THEN {key} ELSE DepsOf(s[m - 1])
  <2>1. CASE m = 0
    BY <1>1, <2>1 DEF Levels
  <2>2. CASE m \in 1 .. n
    <3>1. s[m] = g[m] /\ s[m - 1] = g[m - 1] /\ m # 0 /\ m \in 0 .. n
      BY <1>1, <2>2
    <3>2. \A k \in 0 .. n : g[k] = IF k = 0 THEN {key} ELSE DepsOf(g[k - 1])
      BY DEF Levels
    <3> QED
      BY <3>1, <3>2
  <2>3. CASE m = n + 1
    <3>1. s[m] = DepsOf(g[n]) /\ s[m - 1] = g[n] /\ m # 0
      BY <1>1, <2>3
    <3> QED
      BY <3>1
  <2> QED
    BY <2>1, <2>2, <2>3
<1>3. s = [m \in 0 .. n + 1 |-> s[m]]
  BY <1>1
<1>4. Levels(s, key, n + 1)
  BY <1>2, <1>3 DEF Levels
<1> QED
  BY <1>4

LEMMA LevelsAre ==
  ASSUME NEW key
  PROVE  \A n \in Nat : \E g : Levels(g, key, n)
<1>1. PICK S : S = {n \in Nat : \E g : Levels(g, key, n)}
  OBVIOUS
<1>2. 0 \in S
  <2>1. PICK g : g = [m \in 0 .. 0 |-> {key}]
    OBVIOUS
  <2>2. Levels(g, key, 0)
    BY <2>1 DEF Levels
  <2> QED
    BY <1>1, <2>2
<1>3. ASSUME NEW n \in S PROVE n + 1 \in S
  BY <1>1, LevelsLonger
<1>4. S = Nat
  BY <1>1, <1>2, <1>3, Inductively
<1> QED
  BY <1>1, <1>4

LEMMA LevelSteps ==
  ASSUME NEW key, script \in Scripts
  PROVE  \E g : /\ Digested(key) = UNION {g[n] : n \in 0 .. Len(Order)}
                /\ g[0] = {key}
                /\ \A n \in 0 .. Len(Order) : n + 1 \in 0 .. Len(Order) => g[n + 1] = DepsOf(g[n])
<1>1. PICK g : /\ g = (CHOOSE s : Levels(s, key, Len(Order)))
               /\ Digested(key) = UNION {g[n] : n \in 0 .. Len(Order)}
  BY DigestedLevels
<1>2. Len(Order) \in Nat
  BY OrderFacts
<1>3. Levels(g, key, Len(Order))
  BY <1>1, <1>2, LevelsAre
<1>4. \A n \in 0 .. Len(Order) : g[n] = IF n = 0 THEN {key} ELSE DepsOf(g[n - 1])
  BY <1>3 DEF Levels
<1>5. ASSUME NEW n \in 0 .. Len(Order), n + 1 \in 0 .. Len(Order)
      PROVE  g[n + 1] = DepsOf(g[n])
  <2>1. n + 1 # 0 /\ (n + 1) - 1 = n
    BY <1>2
  <2> QED
    BY <1>4, <1>5, <2>1
<1>6. g[0] = {key}
  BY <1>2, <1>4
<1> QED
  BY <1>1, <1>5, <1>6

\* They are among those with a meaning, of fewer and fewer projects, so the
\* last level is empty.
LEMMA DigestedFacts ==
  ASSUME script \in Scripts, NEW meaning, Interprets(meaning), NEW key \in DOMAIN meaning
  PROVE  /\ key \in Digested(key) /\ Digested(key) \subseteq DOMAIN meaning
         /\ \A k \in Digested(key) : \A q \in DOMAIN k.deps : k.deps[q] \in Digested(key)
<1>1. PICK g : /\ Digested(key) = UNION {g[n] : n \in 0 .. Len(Order)}
               /\ g[0] = {key}
               /\ \A n \in 0 .. Len(Order) :
                    n + 1 \in 0 .. Len(Order) => g[n + 1] = DepsOf(g[n])
  BY LevelSteps
<1>2. PICK N : N = Len(Order) /\ N \in Nat
  BY OrderFacts
<1>3. \A i \in 1 .. N : \A q \in Deps[Order[i]] : \E j \in 1 .. (i - 1) : q = Order[j]
  BY <1>2, DepsInOrder
<1>4. \A k \in DOMAIN meaning : \E i \in 1 .. N : k.project = Order[i]
  BY <1>2, OrderFacts DEF Interprets
<1>5. \A k \in DOMAIN meaning : DOMAIN k.deps = Deps[k.project]
  BY DEF Interprets
<1>6. \A k \in DOMAIN meaning : \A q \in DOMAIN k.deps :
        k.deps[q] \in DOMAIN meaning /\ k.deps[q].project = q
  BY DEF Interprets
<1>7. PICK S : S = {n \in Nat : n \in 0 .. N =>
                      /\ g[n] \subseteq DOMAIN meaning
                      /\ \A k \in g[n] : \E i \in 1 .. (N - n) : k.project = Order[i]}
  OBVIOUS
<1>8. 0 \in S
  BY <1>1, <1>2, <1>4, <1>7
<1>9. ASSUME NEW n \in S PROVE n + 1 \in S
  <2>1. n \in Nat /\ n + 1 \in Nat
    BY <1>7
  <2>2. CASE n + 1 \notin 0 .. N
    BY <1>7, <2>1, <2>2
  <2>3. CASE n + 1 \in 0 .. N
    <3>1. n \in 0 .. N
      BY <1>2, <2>1, <2>3
    <3>2. g[n] \subseteq DOMAIN meaning
      BY <1>7, <3>1
    <3>3. \A k \in g[n] : \E i \in 1 .. (N - n) : k.project = Order[i]
      BY <1>7, <3>1
    <3>4. g[n + 1] = DepsOf(g[n])
      BY <1>1, <1>2, <2>3, <3>1
    <3>5. ASSUME NEW x \in g[n + 1]
          PROVE  x \in DOMAIN meaning /\ \E j \in 1 .. (N - (n + 1)) : x.project = Order[j]
      <4>1. PICK k \in g[n] : x \in Range(k.deps)
        BY <3>4 DEF DepsOf
      <4>2. PICK q \in DOMAIN k.deps : x = k.deps[q]
        BY <4>1 DEF Range
      <4>3. x \in DOMAIN meaning /\ x.project = q /\ q \in Deps[k.project]
        BY <1>5, <1>6, <3>2, <4>2
      <4>4. PICK i \in 1 .. (N - n) : k.project = Order[i]
        BY <3>3
      <4>5. i \in 1 .. N
        BY <1>2, <2>1
      <4>6. PICK j \in 1 .. (i - 1) : q = Order[j]
        BY <1>3, <4>3, <4>4, <4>5
      <4>7. j \in 1 .. (N - (n + 1))
        BY <1>2, <2>1
      <4> QED
        BY <4>3, <4>6, <4>7
    <3> QED
      BY <1>7, <2>1, <3>5
  <2> QED
    BY <2>2, <2>3
<1>10. S = Nat
  BY <1>7, <1>8, <1>9, Inductively
<1>11. \A n \in 0 .. N : g[n] \subseteq DOMAIN meaning
  BY <1>2, <1>7, <1>10
<1>12. g[N] = {}
  <2>1. \A k \in g[N] : \E i \in 1 .. (N - N) : k.project = Order[i]
    BY <1>2, <1>7, <1>10
  <2> QED
    BY <1>2, <2>1
<1>13. ASSUME NEW k \in Digested(key), NEW q \in DOMAIN k.deps
       PROVE  k.deps[q] \in Digested(key)
  <2>1. PICK n \in 0 .. N : k \in g[n]
    BY <1>1, <1>2
  <2>2. n + 1 \in 0 .. N
    BY <1>2, <1>12, <2>1
  <2>3. k.deps[q] \in g[n + 1]
    BY <1>1, <1>2, <2>1, <2>2 DEF DepsOf, Range
  <2> QED
    BY <1>1, <1>2, <2>2, <2>3
<1>14. key \in Digested(key)
  BY <1>1, <1>2
<1>15. Digested(key) \subseteq DOMAIN meaning
  BY <1>1, <1>2, <1>11
<1> QED
  BY <1>13, <1>14, <1>15

\* The interfaces of some keys over those of the ones they digest.
Interfacing(of, keys) ==
    of = [k \in keys |-> Interface(KeyInputs(k), ImportsOf(of, k))]

LEMMA KeyInterfaceIs ==
  ASSUME NEW key
  PROVE  \E of : /\ of = (CHOOSE s : Interfacing(s, Digested(key)))
                 /\ KeyInterface(key) = of[key]
BY DEF KeyInterface, Interfacing, ImportsOf

LEMMA KeyMeans ==
  ASSUME script \in Scripts, NEW meaning, Interprets(meaning), NEW key \in DOMAIN meaning
  PROVE  KeyInterface(key) = meaning[key]
<1>1. PICK of : /\ of = (CHOOSE s : Interfacing(s, Digested(key)))
                /\ KeyInterface(key) = of[key]
  BY KeyInterfaceIs
<1>2. PICK keys : keys = Digested(key)
  OBVIOUS
<1>3. key \in keys /\ keys \subseteq DOMAIN meaning
  BY <1>2, DigestedFacts
<1>4. \A k \in keys : \A q \in DOMAIN k.deps : k.deps[q] \in keys
  BY <1>2, DigestedFacts
<1>5. \A k \in DOMAIN meaning : meaning[k] = Interface(KeyInputs(k), ImportsOf(meaning, k))
  BY DEF Interprets
<1>6. \E s : Interfacing(s, keys)
  <2>1. PICK s : s = [k \in keys |-> meaning[k]]
    OBVIOUS
  <2>2. ASSUME NEW k \in keys PROVE s[k] = Interface(KeyInputs(k), ImportsOf(s, k))
    <3>1. ImportsOf(s, k) = ImportsOf(meaning, k)
      BY <1>4, <2>1 DEF ImportsOf
    <3> QED
      BY <1>3, <1>5, <2>1, <3>1
  <2>3. s = [k \in keys |-> s[k]]
    BY <2>1
  <2>4. Interfacing(s, keys)
    BY <2>2, <2>3 DEF Interfacing
  <2> QED
    BY <2>4
<1>7. Interfacing(of, keys)
  BY <1>1, <1>2, <1>6
<1>8. \A k \in keys : of[k] = Interface(KeyInputs(k), ImportsOf(of, k))
  BY <1>7 DEF Interfacing
<1>9. PICK N : N = Len(Order) /\ N \in Nat
  BY OrderFacts
<1>10. \A i \in 1 .. N : \A q \in Deps[Order[i]] : \E j \in 1 .. (i - 1) : q = Order[j]
  BY <1>9, DepsInOrder
<1>11. PICK S : S = {n \in Nat : \A k \in keys : \A i \in 1 .. N :
                       i <= n /\ k.project = Order[i] => of[k] = meaning[k]}
  OBVIOUS
<1>12. 0 \in S
  BY <1>9, <1>11
<1>13. ASSUME NEW n \in S PROVE n + 1 \in S
  <2>1. n \in Nat /\ n + 1 \in Nat
    BY <1>11
  <2>2. ASSUME NEW k \in keys, NEW i \in 1 .. N, i <= n + 1, k.project = Order[i]
        PROVE  of[k] = meaning[k]
    <3>1. ASSUME NEW q \in DOMAIN k.deps PROVE of[k.deps[q]] = meaning[k.deps[q]]
      <4>1. k.deps[q] \in keys /\ k.deps[q].project = q /\ q \in Deps[k.project]
        BY <1>3, <1>4 DEF Interprets
      <4>2. PICK j \in 1 .. (i - 1) : q = Order[j]
        BY <1>10, <2>2, <4>1
      <4>3. j \in 1 .. N /\ j <= n
        BY <1>9, <2>1, <2>2
      <4> QED
        BY <1>11, <4>1, <4>2, <4>3
    <3>2. ImportsOf(of, k) = ImportsOf(meaning, k)
      BY <3>1 DEF ImportsOf
    <3> QED
      BY <1>3, <1>5, <1>8, <3>2
  <2> QED
    BY <1>11, <2>1, <2>2
<1>14. S = Nat
  BY <1>11, <1>12, <1>13, Inductively
<1>15. PICK i \in 1 .. N : key.project = Order[i]
  BY <1>9, OrderFacts DEF Interprets
<1>16. i \in S /\ i <= i
  BY <1>9, <1>14
<1> QED
  BY <1>1, <1>3, <1>11, <1>15, <1>16

LEMMA WhenKeyed ==
  ASSUME KeysInv
  PROVE  InterfacesAreKeyed
<1>1. PICK meaning : Interprets(meaning) /\ CacheKeyed(meaning, cache)
  BY DEF KeysInv
<1>2. script \in Scripts
  BY DEF KeysInv, Allowed
<1>3. \A e \in cache.interfaces : e.key \in DOMAIN meaning /\ e.interface = meaning[e.key]
  BY <1>1 DEF CacheKeyed
<1> QED
  BY <1>1, <1>2, <1>3, KeyMeans DEF InterfacesAreKeyed

\* Whatever is edited, saved and closed, and however old the listing, the
\* texts and the fingerprint a refresh finds kept, an interface in the
\* persistent cache is the one that the texts its key digests have, over the
\* interfaces the keys of its dependencies stand for (project_key and
\* store_frontend in workspace.rs): no later session can admit another one.
\* Nobody removes a file of a cacheable project's directory: then it is false.
THEOREM CachedInterfacesStandForTheirKeys ==
  Spec /\ Steady => []InterfacesAreKeyed
<1>1. KeysInv => InterfacesAreKeyed
  BY WhenKeyed
<1> QED
  BY <1>1, AlwaysKeys, PTL
================================================================================
