----------------------------- MODULE CachesProofs -----------------------------
(***************************************************************************)
(* Theorems about the two caches of compiled dependencies.  About that of  *)
(* the artifacts, for any number of processes, compilers, contents and     *)
(* edits and a chain of any length: CacheInv is inductive, and each of its *)
(* parts has a lemma with one step per action.  About the debugger's memo, *)
(* for any number of threads, requests and projects and any capacity.      *)
(***************************************************************************)
EXTENDS Caches, FiniteSetTheorems, TLAPS

\* The invariant holds initially: nothing is cached and nobody is at work.
LEMMA Initially == Init => CacheInv
<1> SUFFICES ASSUME Init PROVE CacheInv
  OBVIOUS
<1>1. /\ \A p \in Process : keys[p] = << >> /\ got[p] = << >> /\ pc[p] = "idle"
      /\ DOMAIN entries = {}
  BY DEF Init
<1>2. TypeInv
  BY <1>1 DEF Init, TypeInv, Content, Stamp, Steps, Unread
<1>3. Lengths /\ Seen /\ Stamped /\ Current
  BY <1>1, DepthIsPositive DEF Lengths, Seen, Stamped, Current
<1>4. AllFollow
  BY <1>1 DEF AllFollow
<1> QED
  BY <1>2, <1>3, <1>4 DEF CacheInv

-----------------------------------------------------------------------------
\* A key or artifact is longer by one than its dependency's, and begins with it.
LEMMA Digested ==
  ASSUME NEW c \in Compiler, NEW source \in Content, NEW d \in Seq(Stamp)
  PROVE  /\ Digest(c, source, d) \in Seq(Stamp)
         /\ Len(Digest(c, source, d)) = Len(d) + 1
         /\ \A j \in 1..Len(d) : Digest(c, source, d)[j] = d[j]
         /\ Digest(c, source, d)[Len(d) + 1] = [compiler |-> c, source |-> source]
BY DEF Digest, Stamp

\* What a process has of the dependency of project i.
LEMMA Children ==
  ASSUME NEW s \in Seq(Seq(Stamp)), NEW i \in Nat \ {0}, i <= Len(s) + 1
  PROVE  Child(s, i) \in Seq(Stamp)
BY DEF Child

\* One more key or artifact leaves the others as they are.
LEMMA Appended ==
  ASSUME NEW s \in Seq(Seq(Stamp)), NEW e \in Seq(Stamp)
  PROVE  /\ Append(s, e) \in Seq(Seq(Stamp))
         /\ Len(Append(s, e)) = Len(s) + 1
         /\ \A i \in 1..Len(s) : Append(s, e)[i] = s[i]
         /\ Append(s, e)[Len(s) + 1] = e
         /\ \A i \in 1..Len(s) + 1 : Child(Append(s, e), i) = Child(s, i)
BY DEF Child

-----------------------------------------------------------------------------
\* The actions that neither read sources nor take an artifact: they move a
\* process on and change what is in the cache.
Stores(p) ==
  \/ Miss(p) \/ Prepare(p) \/ Create(p) \/ Rename(p) \/ StoreFails(p) \/ Advance(p)
  \/ \E c \in Compiler : PruneFiles(p, c) \/ PruneDirectory(p, c)

LEMMA StoresKeep ==
  ASSUME TypeInv, NEW p \in Process, Stores(p)
  PROVE  /\ UNCHANGED <<disk, role, compiler, keys, got, acquired, seen>>
         /\ pc' \in [Process -> Steps]
         /\ \A q \in Process : q # p => pc'[q] = pc[q]
         /\ pc[p] # "idle"
         /\ \/ pc[p] = "load" /\ pc'[p] = "compile"
            \/ pc[p] = "prepare" /\ pc'[p] \in {"prune", "next"}
            \/ pc[p] = "prune" /\ pc'[p] \in {"prune", "rename", "next"}
            \/ pc[p] = "rename" /\ pc'[p] = "next"
            \/ pc[p] = "next" /\ pc'[p] = IF Len(keys[p]) < Depth THEN "fingerprint" ELSE "done"
<1> USE DEF TypeInv, Steps, mine, GoTo
<1>1. CASE Miss(p)
  BY <1>1 DEF Miss
<1>2. CASE Prepare(p)
  BY <1>2 DEF Prepare
<1>3. CASE Create(p)
  BY <1>3 DEF Create
<1>4. CASE Rename(p)
  BY <1>4 DEF Rename
<1>5. CASE StoreFails(p)
  BY <1>5 DEF StoreFails
<1>6. CASE Advance(p)
  BY <1>6 DEF Advance, At
<1>7. ASSUME NEW c \in Compiler, PruneFiles(p, c)
      PROVE  UNCHANGED <<disk, pc, role, compiler, keys, got, acquired, seen>> /\ pc[p] = "prune"
  BY <1>7 DEF PruneFiles
<1>8. ASSUME NEW c \in Compiler, PruneDirectory(p, c)
      PROVE  UNCHANGED <<disk, pc, role, compiler, keys, got, acquired, seen>> /\ pc[p] = "prune"
  BY <1>8 DEF PruneDirectory
<1> QED
  BY <1>1, <1>2, <1>3, <1>4, <1>5, <1>6, <1>7, <1>8 DEF Stores

\* The cache holds what it held, less some of it, unless an artifact is renamed
\* into place.
LEMMA StoresPut ==
  ASSUME TypeInv, NEW p \in Process, Stores(p)
  PROVE  \A x \in DOMAIN entries' :
           \/ x \in DOMAIN entries /\ entries'[x] = entries[x]
           \/ pc[p] = "rename" /\ x = Path(Kind(p), Key(p)) /\ entries'[x] = got[p][At(p)]
<1> USE DEF mine
<1>1. CASE Miss(p) \/ Prepare(p) \/ Create(p) \/ StoreFails(p) \/ Advance(p)
  BY <1>1 DEF Miss, Prepare, Create, StoreFails, Advance
<1>2. CASE Rename(p)
  BY <1>2 DEF Rename, Put
<1>3. ASSUME NEW c \in Compiler, PruneFiles(p, c)
      PROVE  \A x \in DOMAIN entries' : x \in DOMAIN entries /\ entries'[x] = entries[x]
  BY <1>3 DEF PruneFiles, Without
<1>4. ASSUME NEW c \in Compiler, PruneDirectory(p, c)
      PROVE  entries' = entries
  BY <1>4 DEF PruneDirectory
<1> QED
  BY <1>1, <1>2, <1>3, <1>4 DEF Stores

\* What an action taken by a process is.
LEMMA Cases ==
  ASSUME [Next]_vars
  PROVE  \/ \E p \in Process :
              /\ \/ Stores(p) \/ Fingerprint(p) \/ Load(p) \/ LoadOlder(p) \/ Compile(p) \/ Quit(p)
                 \/ \E r \in Role : Start(p, r)
              /\ UNCHANGED undercut
         \/ \E i \in Project : Edit(i)
         \/ UNCHANGED vars
BY DEF Next, Work, Stores, vars

\* A build that was overtaken by an edit stays so.
LEMMA UndercutGrows ==
  ASSUME [Next]_vars
  PROVE  undercut \subseteq undercut'
<1>1. ASSUME NEW i \in Project, Edit(i)
      PROVE  undercut \subseteq undercut'
  BY <1>1 DEF Edit
<1> QED
  BY <1>1, Cases DEF vars

\* The key of project i is made of i stamps.
LEMMA KeysHold ==
  ASSUME TypeInv, Stamped, NEW p \in Process, NEW i \in 1..Len(keys[p])
  PROVE  /\ keys[p][i] \in Seq(Stamp)
         /\ Len(keys[p][i]) = i
         /\ \A j \in 1..i : keys[p][i][j] \in Stamp
<1>1. keys[p] \in Seq(Seq(Stamp))
  BY DEF TypeInv
<1>2. keys[p][i] \in Seq(Stamp)
  BY <1>1
<1>3. Len(keys[p][i]) = i
  BY DEF Stamped
<1> QED
  BY <1>2, <1>3

-----------------------------------------------------------------------------
LEMMA TypeStep ==
  ASSUME CacheInv, [Next]_vars
  PROVE  TypeInv'
<1> USE DEF CacheInv, TypeInv
<1>1. ASSUME NEW p \in Process, Stores(p)
      PROVE  TypeInv'
  <2>1. pc[p] = "rename" => /\ Path(Kind(p), Key(p)) \in [kind : {"artifact", "interface"}, key : Seq(Stamp)]
                            /\ got[p][At(p)] \in Seq(Stamp)
    <3> SUFFICES ASSUME pc[p] = "rename"
                 PROVE  /\ Path(Kind(p), Key(p)) \in [kind : {"artifact", "interface"}, key : Seq(Stamp)]
                        /\ got[p][At(p)] \in Seq(Stamp)
      OBVIOUS
    <3>1. Len(keys[p]) = Len(got[p]) /\ Len(keys[p]) > 0
      BY DEF Lengths
    <3>2. keys[p] \in Seq(Seq(Stamp)) /\ got[p] \in Seq(Seq(Stamp))
      OBVIOUS
    <3>3. Key(p) \in Seq(Stamp) /\ got[p][At(p)] \in Seq(Stamp)
      BY <3>1, <3>2 DEF Key, At
    <3> QED
      BY <3>3 DEF Path, Kind
  <2> QED
    BY <1>1, <2>1, StoresKeep, StoresPut
<1>2. ASSUME NEW p \in Process, Fingerprint(p)
      PROVE  TypeInv'
  <2> DEFINE i == At(p) + 1
             key == Digest(compiler[p], disk[i], Child(keys[p], i))
  <2>1. i \in Nat \ {0} /\ i <= Len(keys[p]) + 1 /\ i \in Project
    BY <1>2, DepthIsPositive DEF Fingerprint, At, Lengths, Project
  <2>2. key \in Seq(Stamp)
    BY <2>1, Children, Digested
  <2>3. keys' = [keys EXCEPT ![p] = Append(@, key)] /\ Append(keys[p], key) \in Seq(Seq(Stamp))
    BY <1>2, <2>2, Appended DEF Fingerprint
  <2>4. keys' \in [Process -> Seq(Seq(Stamp))]
    BY <2>3
  <2>5. acquired' \in [Process -> Content \cup {Unread}]
    BY <1>2, <2>1 DEF Fingerprint
  <2> QED
    BY <1>2, <2>4, <2>5 DEF Fingerprint, Steps, GoTo
<1>3. ASSUME NEW p \in Process, Load(p)
      PROVE  TypeInv'
  <2>1. got' = [got EXCEPT ![p] = Append(@, entries[Path(Kind(p), Key(p))])]
        /\ entries[Path(Kind(p), Key(p))] \in Seq(Stamp)
    BY <1>3 DEF Load, Readable, Hit
  <2>2. got' \in [Process -> Seq(Seq(Stamp))]
    BY <2>1, Appended
  <2> QED
    BY <1>3, <2>2 DEF Load, Hit, Steps, GoTo
<1>4. ASSUME NEW p \in Process, LoadOlder(p)
      PROVE  TypeInv'
  <2>1. got' = [got EXCEPT ![p] = Append(@, entries[Path("artifact", Key(p))])]
        /\ entries[Path("artifact", Key(p))] \in Seq(Stamp)
    BY <1>4 DEF LoadOlder, Readable, Hit
  <2>2. got' \in [Process -> Seq(Seq(Stamp))]
    BY <2>1, Appended
  <2> QED
    BY <1>4, <2>2 DEF LoadOlder, Hit, Steps, GoTo
<1>5. ASSUME NEW p \in Process, Compile(p)
      PROVE  TypeInv'
  <2> DEFINE i == At(p)
             source == IF role[p] = "editor" THEN acquired[p] ELSE disk[i]
             made == Digest(compiler[p], source, Child(got[p], i))
  <2>1. i \in Nat \ {0} /\ i <= Len(got[p]) + 1 /\ i \in Project
    BY <1>5, DepthIsPositive DEF Compile, At, Lengths, Project
  <2>2. source \in Content
    <3>1. CASE role[p] = "editor"
      <4>1. i \in 1..Len(keys[p])
        BY <1>5, <2>1 DEF Compile, At
      <4>2. Key(p)[i].source \in Content
        BY <4>1, KeysHold DEF Key, At, Stamp
      <4> QED
        BY <1>5, <3>1, <4>2 DEF Compile, Current, At
    <3>2. CASE role[p] # "editor"
      BY <2>1, <3>2
    <3> QED
      BY <3>1, <3>2
  <2>3. made \in Seq(Stamp)
    BY <2>1, <2>2, Children, Digested
  <2>4. got' = [got EXCEPT ![p] = Append(@, made)] /\ Append(got[p], made) \in Seq(Seq(Stamp))
    BY <1>5, <2>3, Appended DEF Compile
  <2>5. got' \in [Process -> Seq(Seq(Stamp))]
    BY <2>4
  <2> QED
    BY <1>5, <2>5 DEF Compile, Steps, GoTo
<1>6. ASSUME NEW p \in Process, Quit(p)
      PROVE  TypeInv'
  BY <1>6 DEF Quit, Steps, GoTo
<1>7. ASSUME NEW p \in Process, NEW r \in Role, Start(p, r)
      PROVE  TypeInv'
  BY <1>7, RolesAreKnown DEF Start, Steps, GoTo
<1>8. ASSUME NEW i \in Project, Edit(i)
      PROVE  TypeInv'
  BY <1>8 DEF Edit, Content, mine
<1>9. CASE UNCHANGED vars
  BY <1>9 DEF vars, mine
<1> QED
  BY <1>1, <1>2, <1>3, <1>4, <1>5, <1>6, <1>7, <1>8, <1>9, Cases

LEMMA LengthsStep ==
  ASSUME CacheInv, [Next]_vars
  PROVE  Lengths'
<1> USE DEF CacheInv, TypeInv, Lengths, Steps
<1>0. Depth \in Nat \ {0} /\ \A q \in Process : Len(keys[q]) \in Nat /\ Len(got[q]) \in Nat
  BY DepthIsPositive
<1>1. ASSUME NEW p \in Process, Stores(p)
      PROVE  Lengths'
  <2>1. UNCHANGED <<keys, got>> /\ \A q \in Process : q # p => pc'[q] = pc[q]
    BY <1>1, StoresKeep
  <2>2. \/ pc[p] = "load" /\ pc'[p] = "compile"
        \/ pc[p] = "prepare" /\ pc'[p] \in {"prune", "next"}
        \/ pc[p] = "prune" /\ pc'[p] \in {"prune", "rename", "next"}
        \/ pc[p] = "rename" /\ pc'[p] = "next"
        \/ pc[p] = "next" /\ pc'[p] = IF Len(keys[p]) < Depth THEN "fingerprint" ELSE "done"
    BY <1>1, StoresKeep
  <2> QED
    BY <1>0, <2>1, <2>2
<1>2. ASSUME NEW p \in Process, Fingerprint(p)
      PROVE  Lengths'
  <2> DEFINE key == Digest(compiler[p], disk[At(p) + 1], Child(keys[p], At(p) + 1))
  <2>1. /\ keys' = [keys EXCEPT ![p] = Append(@, key)] /\ got' = got
        /\ pc[p] = "fingerprint" /\ pc' = [pc EXCEPT ![p] = "load"]
    BY <1>2 DEF Fingerprint, GoTo
  <2>2. keys'[p] = Append(keys[p], key) /\ Len(keys'[p]) = Len(keys[p]) + 1
    BY <2>1
  <2> HIDE DEF key
  <2> QED
    BY <1>0, <2>1, <2>2
<1>3. ASSUME NEW p \in Process, NEW a, NEW step, Hit(p, a, step), step \in {"next", "prepare"},
             pc[p] = "load"
      PROVE  Lengths'
  <2>1. /\ got' = [got EXCEPT ![p] = Append(@, a)] /\ keys' = keys
        /\ pc' = [pc EXCEPT ![p] = step]
    BY <1>3 DEF Hit, GoTo
  <2>2. got'[p] = Append(got[p], a) /\ Len(got'[p]) = Len(got[p]) + 1
    BY <2>1
  <2> QED
    BY <1>0, <1>3, <2>1, <2>2
<1>4. ASSUME NEW p \in Process, Compile(p)
      PROVE  Lengths'
  <2> DEFINE made == Digest(compiler[p], IF role[p] = "editor" THEN acquired[p] ELSE disk[At(p)],
                            Child(got[p], At(p)))
  <2>1. /\ got' = [got EXCEPT ![p] = Append(@, made)] /\ keys' = keys
        /\ pc[p] = "compile" /\ pc' = [pc EXCEPT ![p] = "prepare"]
    BY <1>4 DEF Compile, GoTo
  <2>2. got'[p] = Append(got[p], made) /\ Len(got'[p]) = Len(got[p]) + 1
    BY <2>1
  <2> HIDE DEF made
  <2> QED
    BY <1>0, <2>1, <2>2
<1>5. ASSUME NEW p \in Process, Quit(p)
      PROVE  Lengths'
  BY <1>0, <1>5 DEF Quit, GoTo
<1>6. ASSUME NEW p \in Process, NEW r \in Role, Start(p, r)
      PROVE  Lengths'
  BY <1>0, <1>6 DEF Start, GoTo
<1>7. CASE UNCHANGED vars \/ \E i \in Project : Edit(i)
  BY <1>7 DEF vars, mine, Edit
<1>8. ASSUME NEW p \in Process, Load(p) \/ LoadOlder(p)
      PROVE  Lengths'
  BY <1>3, <1>8 DEF Load, LoadOlder
<1> QED
  BY <1>1, <1>2, <1>4, <1>5, <1>6, <1>7, <1>8, Cases

\* What a step of a process leaves of the disk and of what others have seen.
LEMMA SeenKept ==
  ASSUME TypeInv, NEW p \in Process,
         \/ Stores(p) \/ Fingerprint(p) \/ Load(p) \/ LoadOlder(p) \/ Compile(p)
  PROVE  /\ UNCHANGED <<disk, role, compiler, seen>>
         /\ \A q \in Process : (pc'[q] = "idle") <=> (pc[q] = "idle")
<1>1. CASE Stores(p)
  BY <1>1, StoresKeep
<1>2. CASE Fingerprint(p)
  BY <1>2 DEF Fingerprint, GoTo, TypeInv
<1>3. CASE Load(p) \/ LoadOlder(p)
  BY <1>3 DEF Load, LoadOlder, Hit, GoTo, TypeInv
<1>4. CASE Compile(p)
  BY <1>4 DEF Compile, GoTo, TypeInv
<1> QED
  BY <1>1, <1>2, <1>3, <1>4

LEMMA SeenStep ==
  ASSUME CacheInv, [Next]_vars
  PROVE  Seen'
<1> USE DEF CacheInv, TypeInv, Seen
<1>1. ASSUME NEW p \in Process,
             \/ Stores(p) \/ Fingerprint(p) \/ Load(p) \/ LoadOlder(p) \/ Compile(p)
      PROVE  Seen'
  BY <1>1, SeenKept
<1>2. ASSUME NEW p \in Process, Quit(p)
      PROVE  Seen'
  BY <1>2 DEF Quit, GoTo
<1>3. ASSUME NEW p \in Process, NEW r \in Role, Start(p, r)
      PROVE  Seen'
  BY <1>3 DEF Start, GoTo
<1>4. ASSUME NEW i \in Project, Edit(i)
      PROVE  Seen'
  <2>1. PICK v \in Version :
          /\ disk' = [disk EXCEPT ![i] = v]
          /\ seen' = [p \in Process |->
                       IF pc[p] = "idle" THEN seen[p] ELSE [seen[p] EXCEPT ![i] = @ \cup {v}]]
    BY <1>4 DEF Edit
  <2>2. pc' = pc
    BY <1>4 DEF Edit
  <2> QED
    BY <2>1, <2>2
<1>5. CASE UNCHANGED vars
  BY <1>5 DEF vars, mine
<1> QED
  BY <1>1, <1>2, <1>3, <1>4, <1>5, Cases

\* A step that leaves the keys and compilers and forgets nothing seen keeps the
\* stamps.
LEMMA StampedKept ==
  ASSUME Stamped, UNCHANGED <<keys, compiler>>, TypeInv,
         \A p \in Process : Len(keys[p]) > 0 => \A i \in Project : seen[p][i] \subseteq seen'[p][i],
         Lengths
  PROVE  Stamped'
<1> SUFFICES ASSUME NEW p \in Process, NEW i \in 1..Len(keys[p]), NEW j \in 1..i
             PROVE  keys[p][i][j].source \in seen'[p][j]
  BY DEF Stamped
<1>1. Len(keys[p]) \in Nat /\ Len(keys[p]) <= Depth
  BY DEF TypeInv, Lengths
<1>2. j \in Project /\ Len(keys[p]) > 0
  BY <1>1, DepthIsPositive DEF Project
<1> QED
  BY <1>2 DEF Stamped

LEMMA StampedStep ==
  ASSUME CacheInv, [Next]_vars
  PROVE  Stamped'
<1> USE DEF CacheInv, TypeInv
<1>1. ASSUME NEW p \in Process, Stores(p) \/ Load(p) \/ LoadOlder(p) \/ Compile(p)
      PROVE  Stamped'
  <2>1. UNCHANGED <<keys, compiler, seen>>
    BY <1>1, StoresKeep DEF Load, LoadOlder, Hit, Compile
  <2> QED
    BY <2>1, StampedKept
<1>2. ASSUME NEW p \in Process, Fingerprint(p)
      PROVE  Stamped'
  <2> DEFINE i == At(p) + 1
             key == Digest(compiler[p], disk[i], Child(keys[p], i))
  <2>1. i \in Nat \ {0} /\ i = Len(keys[p]) + 1 /\ i \in Project
    BY <1>2, DepthIsPositive DEF Fingerprint, At, Lengths, Project
  <2>2. /\ key \in Seq(Stamp)
        /\ Len(key) = Len(Child(keys[p], i)) + 1
        /\ \A j \in 1..Len(Child(keys[p], i)) : key[j] = Child(keys[p], i)[j]
        /\ key[Len(Child(keys[p], i)) + 1] = [compiler |-> compiler[p], source |-> disk[i]]
    BY <2>1, Children, Digested
  <2>3. /\ Len(Child(keys[p], i)) = i - 1
        /\ \A j \in 1..(i - 1) : /\ Child(keys[p], i)[j].compiler = compiler[p]
                                  /\ Child(keys[p], i)[j].source \in seen[p][j]
    <3>1. CASE i = 1
      BY <3>1 DEF Child
    <3>2. CASE i # 1
      <4>1. i - 1 \in 1..Len(keys[p]) /\ Child(keys[p], i) = keys[p][i - 1]
        BY <2>1, <3>2 DEF Child
      <4> QED
        BY <4>1 DEF Stamped
    <3> QED
      BY <3>1, <3>2
  <2>4. disk[i] \in seen[p][i]
    BY <1>2, <2>1 DEF Fingerprint, Seen
  <2>5. Len(key) = i /\ \A j \in 1..i : key[j].compiler = compiler[p] /\ key[j].source \in seen[p][j]
    <3>1. Len(key) = i /\ key[i] = [compiler |-> compiler[p], source |-> disk[i]]
          /\ \A j \in 1..(i - 1) : key[j] = Child(keys[p], i)[j]
      BY <2>1, <2>2, <2>3
    <3> HIDE DEF key
    <3>2. key[i].compiler = compiler[p] /\ key[i].source = disk[i]
      BY <3>1
    <3>3. ASSUME NEW j \in 1..i
          PROVE  key[j].compiler = compiler[p] /\ key[j].source \in seen[p][j]
      <4>1. CASE j = i
        BY <2>4, <3>2, <4>1
      <4>2. CASE j # i
        <5>1. j \in 1..(i - 1)
          BY <2>1, <4>2
        <5>2. key[j] = Child(keys[p], i)[j]
          BY <3>1, <5>1
        <5> QED
          BY <2>3, <5>1, <5>2
      <4> QED
        BY <4>1, <4>2
    <3> QED
      BY <3>1, <3>3
  <2>6. /\ keys' = [keys EXCEPT ![p] = Append(@, key)]
        /\ UNCHANGED <<compiler, seen>>
    BY <1>2 DEF Fingerprint
  <2>7. /\ Len(keys'[p]) = i /\ keys'[p][i] = key
        /\ \A k \in 1..(i - 1) : keys'[p][k] = keys[p][k]
    BY <2>1, <2>2, <2>6, Appended
  <2> HIDE DEF key, i
  <2>8. ASSUME NEW q \in Process, NEW k \in 1..Len(keys'[q])
        PROVE  /\ Len(keys'[q][k]) = k
               /\ \A j \in 1..k : /\ keys'[q][k][j].compiler = compiler[q]
                                  /\ keys'[q][k][j].source \in seen[q][j]
    <3>1. CASE q # p
      BY <2>6, <3>1 DEF Stamped
    <3>2. CASE q = p /\ k = i
      BY <2>5, <2>7, <3>2
    <3>3. CASE q = p /\ k # i
      <4>1. k \in 1..Len(keys[p]) /\ keys'[p][k] = keys[p][k]
        BY <2>1, <2>7, <3>3
      <4> QED
        BY <3>3, <4>1 DEF Stamped
    <3> QED
      BY <3>1, <3>2, <3>3
  <2>9. compiler' = compiler /\ seen' = seen
    BY <2>6
  <2> QED
    BY <2>8, <2>9, Zenon DEF Stamped
<1>3. ASSUME NEW p \in Process, Quit(p)
      PROVE  Stamped'
  <2>1. /\ keys' = [keys EXCEPT ![p] = << >>]
        /\ seen' = [seen EXCEPT ![p] = [i \in Project |-> {}]]
        /\ UNCHANGED compiler
    BY <1>3 DEF Quit
  <2>2. Len(keys'[p]) = 0
    BY <2>1
  <2>3. \A q \in Process : q # p => keys'[q] = keys[q] /\ seen'[q] = seen[q]
    BY <2>1
  <2>4. ASSUME NEW q \in Process, NEW k \in 1..Len(keys'[q])
        PROVE  /\ Len(keys'[q][k]) = k
               /\ \A j \in 1..k : /\ keys'[q][k][j].compiler = compiler'[q]
                                  /\ keys'[q][k][j].source \in seen'[q][j]
    <3>1. q # p
      BY <2>2, <2>4
    <3>2. keys'[q] = keys[q] /\ seen'[q] = seen[q] /\ compiler'[q] = compiler[q]
      BY <2>1, <2>3, <3>1
    <3>3. k \in 1..Len(keys[q])
      BY <2>4, <3>2
    <3>4. /\ Len(keys[q][k]) = k
          /\ \A j \in 1..k : /\ keys[q][k][j].compiler = compiler[q]
                             /\ keys[q][k][j].source \in seen[q][j]
      BY <3>3 DEF Stamped
    <3> QED
      BY <3>2, <3>4
  <2> QED
    BY <2>4, Zenon DEF Stamped
<1>4. ASSUME NEW p \in Process, NEW r \in Role, Start(p, r)
      PROVE  Stamped'
  <2>1. UNCHANGED <<keys, compiler>>
    BY <1>4 DEF Start
  <2>2. seen' = [seen EXCEPT ![p] = [i \in Project |-> {disk[i]}]] /\ Len(keys[p]) = 0
    BY <1>4 DEF Start, Lengths
  <2> QED
    BY <2>1, <2>2, StampedKept
<1>5. ASSUME NEW i \in Project, Edit(i)
      PROVE  Stamped'
  <2>1. UNCHANGED <<keys, compiler>>
    BY <1>5 DEF Edit, mine
  <2>2. \A p \in Process : \A j \in Project : seen[p][j] \subseteq seen'[p][j]
    BY <1>5 DEF Edit
  <2> QED
    BY <2>1, <2>2, StampedKept
<1>6. CASE UNCHANGED vars
  <2>1. keys' = keys /\ compiler' = compiler /\ seen' = seen
    BY <1>6 DEF vars, mine
  <2> QED
    BY <2>1, StampedKept
<1> QED
  BY <1>1, <1>2, <1>3, <1>4, <1>5, <1>6, Cases

LEMMA CurrentStep ==
  ASSUME CacheInv, [Next]_vars
  PROVE  Current'
<1> USE DEF CacheInv, TypeInv
<1>0. undercut \subseteq undercut'
  BY UndercutGrows
<1>1. ASSUME NEW p \in Process, \A q \in Process : q # p => pc'[q] = pc[q],
             pc'[p] \in {"load", "compile"} => pc[p] \in {"load", "compile"},
             UNCHANGED <<disk, compiler, role>>,
             \A q \in Process : pc'[q] \in {"load", "compile"} =>
               keys'[q] = keys[q] /\ acquired'[q] = acquired[q]
      PROVE  Current'
  BY <1>0, <1>1 DEF Current, Key, At
<1>2. ASSUME NEW p \in Process, Stores(p)
      PROVE  Current'
  <2>1. UNCHANGED <<disk, compiler, role, keys, acquired>>
    BY <1>2, StoresKeep
  <2>2. pc'[p] \in {"load", "compile"} => pc[p] \in {"load", "compile"}
    BY <1>2, StoresKeep
  <2> QED
    BY <1>1, <1>2, <2>1, <2>2, StoresKeep
<1>3. ASSUME NEW p \in Process, Load(p) \/ LoadOlder(p)
      PROVE  Current'
  BY <1>1, <1>3 DEF Load, LoadOlder, Hit, GoTo
<1>4. ASSUME NEW p \in Process, Compile(p)
      PROVE  Current'
  BY <1>1, <1>4 DEF Compile, GoTo
<1>5. ASSUME NEW p \in Process, Fingerprint(p)
      PROVE  Current'
  <2> DEFINE i == At(p) + 1
             key == Digest(compiler[p], disk[i], Child(keys[p], i))
  <2>1. i \in Nat \ {0} /\ i = Len(keys[p]) + 1 /\ i \in Project
    BY <1>5, DepthIsPositive DEF Fingerprint, At, Lengths, Project
  <2>2. /\ key \in Seq(Stamp) /\ Len(key) = Len(Child(keys[p], i)) + 1
        /\ key[Len(Child(keys[p], i)) + 1] = [compiler |-> compiler[p], source |-> disk[i]]
    BY <2>1, Children, Digested
  <2>3. /\ keys' = [keys EXCEPT ![p] = Append(@, key)]
        /\ UNCHANGED <<compiler, role, disk>>
        /\ pc' = [pc EXCEPT ![p] = "load"]
        /\ acquired' = [acquired EXCEPT ![p] = IF role[p] = "editor" THEN disk[i] ELSE Unread]
    BY <1>5 DEF Fingerprint, GoTo
  <2>4. Len(keys'[p]) = i /\ keys'[p][i] = key /\ Child(keys'[p], i) = Child(keys[p], i)
    BY <2>1, <2>2, <2>3, Appended
  <2>5. Len(Child(keys[p], i)) + 1 = i
    <3>1. CASE i = 1
      BY <3>1 DEF Child
    <3>2. CASE i # 1
      BY <2>1, <3>2 DEF Child, Stamped
    <3> QED
      BY <3>1, <3>2
  <2>6. key[i].source = disk[i]
    BY <2>2, <2>5
  <2>7. ASSUME NEW q \in Process, q # p, pc'[q] \in {"load", "compile"}
        PROVE  /\ keys'[q] = keys[q] /\ acquired'[q] = acquired[q] /\ pc'[q] = pc[q]
    BY <2>3, <2>7
  <2> QED
    BY <1>0, <2>3, <2>4, <2>6, <2>7 DEF Current, Key, At
<1>6. ASSUME NEW p \in Process, Quit(p)
      PROVE  Current'
  <2>1. /\ pc' = [pc EXCEPT ![p] = "idle"] /\ role' = [role EXCEPT ![p] = "build"]
        /\ keys' = [keys EXCEPT ![p] = << >>] /\ acquired' = [acquired EXCEPT ![p] = Unread]
        /\ UNCHANGED <<disk, compiler>>
    BY <1>6 DEF Quit, GoTo
  <2> QED
    BY <1>0, <2>1 DEF Current, Key, At
<1>7. ASSUME NEW p \in Process, NEW r \in Role, Start(p, r)
      PROVE  Current'
  <2>1. /\ pc' = [pc EXCEPT ![p] = "fingerprint"] /\ role' = [role EXCEPT ![p] = r]
        /\ UNCHANGED <<disk, compiler, keys, acquired>>
    BY <1>7 DEF Start, GoTo
  <2> QED
    BY <1>0, <2>1 DEF Current, Key, At
<1>8. ASSUME NEW i \in Project, Edit(i)
      PROVE  Current'
  <2>1. /\ UNCHANGED <<compiler, keys, acquired, role, pc>>
        /\ \A j \in Project : j # i => disk'[j] = disk[j]
        /\ undercut' = undercut \cup {Key(p) : p \in {q \in Process : Exposed(q, i)}}
    BY <1>8 DEF Edit, mine
  <2>2. ASSUME NEW p \in Process, pc[p] \in {"load", "compile"}, role[p] # "editor",
               Key(p)[At(p)].source = disk[At(p)] \/ Key(p) \in undercut
        PROVE  Key(p)[At(p)].source = disk'[At(p)] \/ Key(p) \in undercut'
    <3>1. CASE At(p) = i
      <4>1. Exposed(p, i)
        BY <2>2, <3>1 DEF Exposed, TypeInv
      <4> QED
        BY <2>1, <4>1
    <3>2. CASE At(p) # i
      <4>1. At(p) \in Project
        BY <2>2, DepthIsPositive DEF Lengths, At, Project
      <4> QED
        BY <2>1, <2>2, <3>2, <4>1
    <3> QED
      BY <3>1, <3>2
  <2> QED
    BY <2>1, <2>2 DEF Current, Key, At
<1>9. CASE UNCHANGED vars
  BY <1>9 DEF vars, mine, Current, Key, At
<1> QED
  BY <1>2, <1>3, <1>4, <1>5, <1>6, <1>7, <1>8, <1>9, Cases

-----------------------------------------------------------------------------
\* What begins a key begins its dependency's.
LEMMA Prefixes ==
  ASSUME NEW k \in Seq(Stamp), NEW stamp \in Stamp
  PROVE  /\ \A i \in 1..Len(k) : Upto(Append(k, stamp), i) = Upto(k, i)
         /\ Upto(Append(k, stamp), Len(k) + 1) = Append(k, stamp)
BY DEF Upto

\* What extends the artifact of the dependency follows what extends its key.
LEMMA FollowsDigest ==
  ASSUME NEW c \in Compiler, NEW made \in Content, NEW keyed \in Content,
         NEW a \in Seq(Stamp), NEW k \in Seq(Stamp), Follows(a, k),
         made = keyed \/ Digest(c, keyed, k) \in undercut
  PROVE  Follows(Digest(c, made, a), Digest(c, keyed, k))
<1> DEFINE b == Digest(c, made, a)
           l == Digest(c, keyed, k)
<1>1. /\ Len(a) = Len(k) /\ Len(b) = Len(k) + 1 /\ Len(l) = Len(k) + 1 /\ Len(k) \in Nat
      /\ \A j \in 1..Len(k) : b[j] = a[j] /\ l[j] = k[j]
      /\ b[Len(k) + 1] = [compiler |-> c, source |-> made]
      /\ l[Len(k) + 1] = [compiler |-> c, source |-> keyed]
  BY Digested DEF Follows
<1>2. /\ b[Len(k) + 1].compiler = l[Len(k) + 1].compiler
      /\ b[Len(k) + 1].source = made /\ l[Len(k) + 1].source = keyed
  BY <1>1
<1>3. /\ \A j \in 1..Len(k) : Upto(l, j) = Upto(k, j)
      /\ Upto(l, Len(k) + 1) = l
  BY Prefixes DEF Digest, Stamp
<1>4. made = keyed \/ l \in undercut
  OBVIOUS
<1> HIDE DEF b, l
<1>5. ASSUME NEW j \in 1..Len(l)
      PROVE  /\ b[j].compiler = l[j].compiler
             /\ b[j].source = l[j].source \/ Upto(l, j) \in undercut
  <2>1. CASE j = Len(k) + 1
    BY <1>2, <1>3, <1>4, <2>1
  <2>2. CASE j # Len(k) + 1
    <3>1. j \in 1..Len(k) /\ b[j] = a[j] /\ l[j] = k[j] /\ Upto(l, j) = Upto(k, j)
      BY <1>1, <1>3, <2>2
    <3> QED
      BY <3>1 DEF Follows
  <2> QED
    BY <2>1, <2>2
<1>6. Len(b) = Len(l)
  BY <1>1
<1> QED
  BY <1>5, <1>6 DEF Follows, b, l

\* What followed a key follows it still.
LEMMA FollowsPrimed ==
  ASSUME undercut \subseteq undercut', NEW a, NEW k, Follows(a, k)
  PROVE  Follows(a, k)'
BY DEF Follows

\* A process that takes an artifact for the project it is looking up keeps the
\* relation if the artifact follows the key.
LEMMA Taken ==
  ASSUME CacheInv, UNCHANGED <<keys, entries>>, undercut \subseteq undercut',
         NEW p \in Process, pc[p] \in {"load", "compile"},
         NEW a \in Seq(Stamp), got' = [got EXCEPT ![p] = Append(@, a)],
         Follows(a, Key(p))
  PROVE  AllFollow'
<1> USE DEF CacheInv, TypeInv
<1>1. Len(keys[p]) = Len(got[p]) + 1 /\ Len(got[p]) \in Nat
  BY DEF Lengths
<1>2. /\ Len(got'[p]) = Len(got[p]) + 1
      /\ got'[p][Len(got[p]) + 1] = a
      /\ \A i \in 1..Len(got[p]) : got'[p][i] = got[p][i]
      /\ \A q \in Process : q # p => got'[q] = got[q]
  BY Appended
<1>3. ASSUME NEW q \in Process, NEW i \in 1..Len(got'[q])
      PROVE  Follows(got'[q][i], keys[q][i])
  <2>1. CASE q # p
    BY <1>2, <2>1 DEF AllFollow
  <2>2. CASE q = p /\ i = Len(got[p]) + 1
    BY <1>1, <1>2, <2>2 DEF Key, At
  <2>3. CASE q = p /\ i # Len(got[p]) + 1
    <3>1. i \in 1..Len(got[p])
      BY <1>1, <1>2, <2>3
    <3> QED
      BY <1>2, <2>3, <3>1 DEF AllFollow
  <2> QED
    BY <2>1, <2>2, <2>3
<1>4. \A x \in DOMAIN entries : Len(x.key) \in 1..Depth /\ Follows(entries[x], x.key)
  BY DEF AllFollow
<1>5. keys' = keys /\ entries' = entries
  OBVIOUS
<1> QED
  BY <1>3, <1>4, <1>5, FollowsPrimed DEF AllFollow

\* Keys are as long as their project is far up the chain, and there are no
\* others.
LEMMA Reach ==
  ASSUME CacheInv, NEW p \in Process
  PROVE  /\ Len(keys[p]) \in 0..Depth
         /\ \A i \in 1..Len(keys[p]) : Len(keys[p][i]) = i /\ i \in Project
         /\ Len(got[p]) \in Nat /\ Len(got[p]) <= Len(keys[p])
<1>1. Len(keys[p]) \in Nat /\ Len(got[p]) \in Nat
  BY DEF CacheInv, TypeInv
<1> QED
  BY <1>1, DepthIsPositive DEF CacheInv, Lengths, Stamped, Project

LEMMA FollowStep ==
  ASSUME CacheInv, [Next]_vars
  PROVE  AllFollow'
<1> USE DEF CacheInv, TypeInv
<1>0. undercut \subseteq undercut'
  BY UndercutGrows
<1>1. ASSUME NEW p \in Process, Stores(p)
      PROVE  AllFollow'
  <2>1. keys' = keys /\ got' = got
    BY <1>1, StoresKeep
  <2>2. \A q \in Process : \A i \in 1..Len(got[q]) : Follows(got[q][i], keys[q][i])
    BY DEF AllFollow
  <2>3. ASSUME NEW x \in DOMAIN entries'
        PROVE  Len(x.key) \in 1..Depth /\ Follows(entries'[x], x.key)
    <3>1. CASE x \in DOMAIN entries /\ entries'[x] = entries[x]
      BY <3>1 DEF AllFollow
    <3>2. CASE pc[p] = "rename" /\ x = Path(Kind(p), Key(p)) /\ entries'[x] = got[p][At(p)]
      <4>0. Len(keys[p]) = Len(got[p]) /\ Len(keys[p]) > 0 /\ Len(keys[p]) \in 0..Depth
        BY <3>2, Reach DEF Lengths
      <4>1. At(p) \in 1..Len(got[p]) /\ At(p) \in 1..Len(keys[p]) /\ At(p) \in 1..Depth
        BY <4>0, DepthIsPositive DEF At
      <4>2. x.key = keys[p][At(p)] /\ Len(x.key) = At(p)
        BY <3>2, <4>1, Reach DEF Path, Key
      <4> QED
        BY <2>2, <3>2, <4>1, <4>2
    <3> QED
      BY <1>1, <3>1, <3>2, StoresPut
  <2> QED
    BY <1>0, <2>1, <2>2, <2>3, FollowsPrimed DEF AllFollow
<1>2. ASSUME NEW p \in Process, Fingerprint(p)
      PROVE  AllFollow'
  <2> DEFINE key == Digest(compiler[p], disk[At(p) + 1], Child(keys[p], At(p) + 1))
  <2>1. /\ keys' = [keys EXCEPT ![p] = Append(@, key)]
        /\ UNCHANGED <<got, entries>>
    BY <1>2 DEF Fingerprint
  <2> HIDE DEF key
  <2>2. \A q \in Process : \A i \in 1..Len(got[q]) : keys'[q][i] = keys[q][i]
    BY <2>1, Reach
  <2>3. \A q \in Process : \A i \in 1..Len(got[q]) : Follows(got[q][i], keys'[q][i])
    BY <2>2 DEF AllFollow
  <2>4. \A x \in DOMAIN entries : Len(x.key) \in 1..Depth /\ Follows(entries[x], x.key)
    BY DEF AllFollow
  <2> QED
    BY <1>0, <2>1, <2>3, <2>4, FollowsPrimed DEF AllFollow
<1>3. ASSUME NEW p \in Process, NEW path, path \in DOMAIN entries, path.key = Key(p),
             pc[p] = "load", got' = [got EXCEPT ![p] = Append(@, entries[path])],
             UNCHANGED <<keys, entries>>
      PROVE  AllFollow'
  <2>1. entries[path] \in Seq(Stamp) /\ Follows(entries[path], Key(p))
    BY <1>3 DEF AllFollow
  <2> QED
    BY <1>0, <1>3, <2>1, Taken
<1>4. ASSUME NEW p \in Process, Load(p) \/ LoadOlder(p)
      PROVE  AllFollow'
  BY <1>3, <1>4 DEF Load, LoadOlder, Hit, Readable, Path
<1>5. ASSUME NEW p \in Process, Compile(p)
      PROVE  AllFollow'
  <2> DEFINE i == At(p)
             made == IF role[p] = "editor" THEN acquired[p] ELSE disk[i]
             keyed == Key(p)[i].source
             a == Child(got[p], i)
             k == Child(keys[p], i)
  <2>1. /\ pc[p] = "compile"
        /\ got' = [got EXCEPT ![p] = Append(@, Digest(compiler[p], made, a))]
        /\ UNCHANGED <<keys, entries>>
    BY <1>5 DEF Compile
  <2>2. i \in 1..Len(keys[p]) /\ i \in Project /\ i = Len(got[p]) + 1 /\ i \in Nat \ {0}
    BY <2>1, Reach DEF Lengths, At, Project
  <2>3. Key(p) = Digest(compiler[p], keyed, k)
    BY <2>1 DEF Current
  <2>4. keyed \in Content /\ keyed \in seen[p][i]
    BY <2>2, KeysHold DEF Key, At, Stamp, Stamped
  <2>5. a \in Seq(Stamp) /\ k \in Seq(Stamp)
    BY <2>2, Children
  <2>6. Len(k) + 1 = i
    <3>1. CASE i = 1
      BY <3>1 DEF Child
    <3>2. CASE i # 1
      BY <2>2, <3>2, Reach DEF Child
    <3> QED
      BY <3>1, <3>2
  <2>7. Follows(a, k)
    <3>1. CASE i = 1
      BY <3>1 DEF Child, Follows
    <3>2. CASE i # 1
      <4>1. i - 1 \in 1..Len(got[p]) /\ a = got[p][i - 1] /\ k = keys[p][i - 1]
        BY <2>2, <3>2 DEF Child
      <4> QED
        BY <4>1 DEF AllFollow
    <3> QED
      BY <3>1, <3>2
  <2>8. made \in Content
    <3>1. CASE role[p] = "editor"
      BY <2>1, <2>4, <3>1 DEF Current
    <3>2. CASE role[p] # "editor"
      BY <2>2, <3>2
    <3> QED
      BY <3>1, <3>2
  <2>9. made = keyed \/ Digest(compiler[p], keyed, k) \in undercut
    BY <2>1, <2>3 DEF Current
  <2> HIDE DEF i, made, keyed, a, k
  <2>10. Follows(Digest(compiler[p], made, a), Key(p))
    BY <2>3, <2>4, <2>5, <2>7, <2>8, <2>9, FollowsDigest
  <2>11. Digest(compiler[p], made, a) \in Seq(Stamp)
    BY <2>5, <2>8, Digested
  <2> QED
    BY <1>0, <2>1, <2>10, <2>11, Taken
<1>6. ASSUME NEW p \in Process, Quit(p)
      PROVE  AllFollow'
  <2>1. /\ got' = [got EXCEPT ![p] = << >>] /\ keys' = [keys EXCEPT ![p] = << >>]
        /\ UNCHANGED entries
    BY <1>6 DEF Quit
  <2>2. \A q \in Process : \A i \in 1..Len(got'[q]) : Follows(got'[q][i], keys'[q][i])
    BY <2>1 DEF AllFollow
  <2>3. \A x \in DOMAIN entries : Len(x.key) \in 1..Depth /\ Follows(entries[x], x.key)
    BY DEF AllFollow
  <2> QED
    BY <1>0, <2>1, <2>2, <2>3, FollowsPrimed DEF AllFollow
<1>7. CASE UNCHANGED <<got, keys, entries>>
  BY <1>0, <1>7, FollowsPrimed DEF AllFollow
<1>8. ASSUME NEW p \in Process, NEW r \in Role, Start(p, r)
      PROVE  UNCHANGED <<got, keys, entries>>
  BY <1>8 DEF Start
<1>9. ASSUME NEW i \in Project, Edit(i)
      PROVE  UNCHANGED <<got, keys, entries>>
  BY <1>9 DEF Edit, mine
<1>10. CASE UNCHANGED vars
  BY <1>7, <1>10 DEF vars, mine
<1> QED
  BY <1>1, <1>2, <1>4, <1>5, <1>6, <1>7, <1>8, <1>9, <1>10, Cases

-----------------------------------------------------------------------------
LEMMA Invariant == Spec => []CacheInv
<1>1. CacheInv /\ [Next]_vars => CacheInv'
  <2> SUFFICES ASSUME CacheInv, [Next]_vars
               PROVE  CacheInv'
    OBVIOUS
  <2> QED
    BY TypeStep, LengthsStep, SeenStep, StampedStep, CurrentStep, FollowStep DEF CacheInv
<1> QED
  BY Initially, <1>1, PTL DEF Spec

\* Every entry of the cache is of its own compiler and, but for the projects a
\* build was overtaken at, of the sources its key says, for any number of
\* processes, compilers, contents and edits and a chain of any length.
THEOREM EntriesMatch == Spec => []EntriesMatchTheirKeys
<1>1. CacheInv => EntriesMatchTheirKeys
  BY DEF CacheInv, AllFollow, EntriesMatchTheirKeys
<1> QED
  BY Invariant, <1>1, PTL

\* A process that is done holds an artifact of contents its projects had while it
\* ran, whoever wrote the entries it used and whatever was edited and undone
\* meanwhile, unless a build was overtaken by an edit under that very key.
THEOREM SourcesOfItsTime == Spec => []UsesSourcesUnlessUndercut
<1>1. ASSUME CacheInv PROVE UsesSourcesUnlessUndercut
  <2> SUFFICES ASSUME NEW p \in Process, pc[p] = "done"
               PROVE  /\ Len(got[p][Depth]) = Depth
                      /\ \A i \in Project :
                           /\ got[p][Depth][i].compiler = compiler[p]
                           /\ got[p][Depth][i].source \in seen[p][i] \/ Upto(keys[p][Depth], i) \in undercut
    BY DEF UsesSourcesUnlessUndercut
  <2> DEFINE a == got[p][Depth]
             k == keys[p][Depth]
  <2>1. Len(keys[p]) = Depth /\ Len(got[p]) = Depth /\ Depth \in 1..Depth
    BY <1>1, DepthIsPositive DEF CacheInv, Lengths
  <2>2. Follows(a, k)
    BY <1>1, <2>1 DEF CacheInv, AllFollow
  <2>3. Len(k) = Depth /\ \A i \in Project : k[i].compiler = compiler[p] /\ k[i].source \in seen[p][i]
    BY <1>1, <2>1 DEF CacheInv, Stamped, Project
  <2> HIDE DEF a, k
  <2>4. Len(a) = Depth /\ \A i \in Project : /\ a[i].compiler = k[i].compiler
                                             /\ a[i].source = k[i].source \/ Upto(k, i) \in undercut
    BY <2>2, <2>3 DEF Follows, Project
  <2>5. Len(a) = Depth /\ \A i \in Project : /\ a[i].compiler = compiler[p]
                                             /\ a[i].source \in seen[p][i] \/ Upto(k, i) \in undercut
    BY <2>3, <2>4
  <2> QED
    BY <2>5 DEF a, k
<1> QED
  BY Invariant, <1>1, PTL

-----------------------------------------------------------------------------
\* The empty function is the empty sequence.
LEMMA NothingRead == DOMAIN << >> = {}
OBVIOUS

\* The memo's module counts as this one does.
LEMMA SameCount ==
  /\ \A S : Memo!IsFiniteSet(S) = IsFiniteSet(S)
  /\ \A S : Memo!Cardinality(S) = Cardinality(S)
<1>1. \A S : Memo!IsFiniteSet(S) = IsFiniteSet(S)
  BY DEF Memo!IsFiniteSet, IsFiniteSet
<1>2. \A S : Memo!Cardinality(S) = Cardinality(S)
  BY <1>1 DEF Memo!Cardinality, Cardinality
<1> QED
  BY <1>1, <1>2

LEMMA BoundedAtFirst == Memo!Sensible /\ Memo!Init => Memo!Bounded
<1> SUFFICES ASSUME Memo!Sensible, Memo!Init
             PROVE  Memo!Bounded
  OBVIOUS
<1>1. DOMAIN memo = {}
  BY NothingRead DEF Memo!Init
<1>2. IsFiniteSet({}) /\ Cardinality({}) = 0
  BY FS_EmptySet
<1>3. (CHOOSE k \in Request : TRUE) \in Request
  BY DEF Memo!Sensible
<1>4. asked \in [Thread -> Request]
  BY <1>3 DEF Memo!Init
<1> QED
  BY SameCount, <1>1, <1>2, <1>4 DEF Memo!Init, Memo!Bounded, Memo!MemoIsBounded, Memo!Steps, Memo!Sensible

\* A memo that is not full has room for one more, and an emptied one has too.
LEMMA RemembersWithinCapacity ==
  ASSUME Memo!Sensible, NEW S, IsFiniteSet(S), Cardinality(S) <= Capacity, NEW k
  PROVE  LET kept == IF Cardinality(S) >= Capacity THEN {} ELSE S
         IN  IsFiniteSet(kept \cup {k}) /\ Cardinality(kept \cup {k}) <= Capacity
<1> DEFINE kept == IF Cardinality(S) >= Capacity THEN {} ELSE S
<1>1. IsFiniteSet(kept) /\ Cardinality(kept) \in Nat /\ Cardinality(kept) < Capacity
  BY FS_EmptySet, FS_CardinalityType DEF Memo!Sensible
<1>2. /\ IsFiniteSet(kept \cup {k})
      /\ Cardinality(kept \cup {k}) = IF k \in kept THEN Cardinality(kept) ELSE Cardinality(kept) + 1
  BY <1>1, FS_AddElement
<1> HIDE DEF kept
<1>3. Cardinality(kept \cup {k}) <= Capacity
  BY <1>1, <1>2 DEF Memo!Sensible
<1> QED
  BY <1>2, <1>3 DEF kept

LEMMA BoundedStep ==
  ASSUME Memo!Sensible, Memo!Bounded, [Memo!Next]_(Memo!vars)
  PROVE  Memo!Bounded'
<1> USE DEF Memo!Bounded, Memo!Steps, Memo!GoTo
<1>1. ASSUME NEW t \in Thread, NEW k \in Request, Memo!Ask(t, k)
      PROVE  Memo!Bounded'
  BY <1>1 DEF Memo!Ask, Memo!MemoIsBounded
<1>2. ASSUME NEW t \in Thread, Memo!Lookup(t)
      PROVE  Memo!Bounded'
  <2>1. CASE graph' = [graph EXCEPT ![t] = memo[asked[t]].graph] /\ memoPc' = [memoPc EXCEPT ![t] = "answered"]
    BY <1>2, <2>1 DEF Memo!Lookup, Memo!Found, Memo!MemoIsBounded
  <2>2. CASE UNCHANGED graph /\ memoPc' = [memoPc EXCEPT ![t] = "read"]
    BY <1>2, <2>2, NothingRead DEF Memo!Lookup, Memo!MemoIsBounded
  <2> QED
    BY <1>2, <2>1, <2>2 DEF Memo!Lookup, Memo!Found
<1>3. ASSUME NEW t \in Thread, NEW p \in Source, Memo!Read(t, p)
      PROVE  Memo!Bounded'
  <2>1. DOMAIN graph'[t] = DOMAIN graph[t] \cup {p}
    BY <1>3 DEF Memo!Read
  <2>2. \A u \in Thread : u # t => graph'[u] = graph[u]
    BY <1>3 DEF Memo!Read
  <2> QED
    BY <1>3, <2>1, <2>2 DEF Memo!Read, Memo!MemoIsBounded
<1>4. ASSUME NEW t \in Thread, Memo!Fail(t)
      PROVE  Memo!Bounded'
  BY <1>4, NothingRead DEF Memo!Fail, Memo!Finish, Memo!MemoIsBounded
<1>5. ASSUME NEW t \in Thread, Memo!Digest(t)
      PROVE  Memo!Bounded'
  BY <1>5 DEF Memo!Digest, Memo!MemoIsBounded
<1>6. ASSUME NEW t \in Thread, Memo!Remember(t)
      PROVE  Memo!Bounded'
  <2> DEFINE kept == IF Cardinality(DOMAIN memo) >= Capacity THEN {} ELSE DOMAIN memo
  <2>1. IsFiniteSet(kept \cup {asked[t]}) /\ Cardinality(kept \cup {asked[t]}) <= Capacity
    BY SameCount, RemembersWithinCapacity DEF Memo!MemoIsBounded
  <2>2. /\ DOMAIN memo' = kept \cup {asked[t]}
        /\ \A k \in kept \cup {asked[t]} :
             memo'[k] = IF k = asked[t] THEN [graph |-> graph[t], digest |-> digest[t], raced |-> raced[t]] ELSE memo[k]
    BY SameCount, <1>6 DEF Memo!Remember
  <2>3. \A k \in DOMAIN memo' : DOMAIN memo'[k].graph = Reads[k]
    BY <1>6, <2>2 DEF Memo!Remember, Memo!MemoIsBounded
  <2>4. DOMAIN memo' \subseteq Request
    BY <2>2
  <2>5. Memo!MemoIsBounded' /\ IsFiniteSet(DOMAIN memo')
    BY SameCount, <2>1, <2>2, <2>3 DEF Memo!MemoIsBounded
  <2> QED
    BY SameCount, <1>6, <2>4, <2>5 DEF Memo!Remember
<1>7. ASSUME NEW t \in Thread, Memo!Reply(t)
      PROVE  Memo!Bounded'
  BY <1>7, NothingRead DEF Memo!Reply, Memo!Finish, Memo!MemoIsBounded
<1>8. ASSUME NEW p \in Source, Memo!Edit(p)
      PROVE  Memo!Bounded'
  BY <1>8 DEF Memo!Edit, Memo!MemoIsBounded
<1>9. CASE UNCHANGED Memo!vars
  BY <1>9 DEF Memo!vars, Memo!MemoIsBounded
<1> QED
  BY <1>1, <1>2, <1>3, <1>4, <1>5, <1>6, <1>7, <1>8, <1>9 DEF Memo!Next

\* However many threads find the memo full at once, it never holds more than
\* CAPACITY graphs (debug/src/dependency_cache.rs:92), and each is whole.
THEOREM WithinCapacity ==
  ASSUME Memo!Sensible
  PROVE  Memo!Spec => []Memo!MemoIsBounded
<1>1. Memo!Init => Memo!Bounded
  BY BoundedAtFirst
<1>2. Memo!Bounded /\ [Memo!Next]_(Memo!vars) => Memo!Bounded'
  BY BoundedStep
<1>3. Memo!Bounded => Memo!MemoIsBounded
  BY DEF Memo!Bounded
<1> QED
  BY <1>1, <1>2, <1>3, PTL DEF Memo!Spec

-----------------------------------------------------------------------------
\* What a step does not touch of a thread goes on being of its time.
LEMMA OthersFresh ==
  ASSUME NEW u \in Thread, Memo!OfItsTime(u), UNCHANGED memoDisk,
         memoPc'[u] = memoPc[u], graph'[u] = graph[u], digest'[u] = digest[u],
         since'[u] = since[u], raced'[u] = raced[u]
  PROVE  Memo!OfItsTime(u)'
BY DEF Memo!OfItsTime

LEMMA FreshStep ==
  ASSUME Memo!Sensible, Memo!Bounded, Memo!Fresh, [Memo!Next]_(Memo!vars)
  PROVE  Memo!Fresh'
<1> USE DEF Memo!Bounded, Memo!Fresh, Memo!Steps, Memo!GoTo
<1>0. Memo!Functions /\ Memo!AsDigested /\ \A t \in Thread : Memo!OfItsTime(t)
  OBVIOUS
<1>1. ASSUME NEW t \in Thread, NEW k \in Request, Memo!Ask(t, k)
      PROVE  Memo!Fresh'
  <2>1. /\ since' = [since EXCEPT ![t] = [p \in Source |-> {memoDisk[p]}]]
        /\ memoPc' = [memoPc EXCEPT ![t] = "lookup"]
        /\ UNCHANGED <<memoDisk, memo, graph, digest, raced>>
    BY <1>1 DEF Memo!Ask
  <2>2. \A u \in Thread : u # t => since'[u] = since[u] /\ memoPc'[u] = memoPc[u]
    BY <2>1
  <2>3. memoPc'[t] = "lookup" /\ \A p \in Source : since'[t][p] = {memoDisk[p]}
    BY <2>1 DEF Memo!Functions
  <2>4. since' = [u \in Thread |-> [p \in Source |-> since'[u][p]]]
    BY <2>1 DEF Memo!Functions
  <2>5. Memo!OfItsTime(t)'
    BY <2>1, <2>3 DEF Memo!OfItsTime
  <2>6. Memo!Functions' /\ Memo!AsDigested'
    BY <1>0, <2>1, <2>4 DEF Memo!AsDigested, Memo!Functions
  <2>7. \A u \in Thread : u # t => Memo!OfItsTime(u)'
    BY <1>0, <2>1, <2>2, OthersFresh
  <2> QED
    BY <2>5, <2>6, <2>7
<1>2. ASSUME NEW t \in Thread, Memo!Lookup(t)
      PROVE  Memo!Fresh'
  <2>0. UNCHANGED <<memoDisk, memo, asked, digest, since>> /\ memoPc[t] = "lookup"
    BY <1>2 DEF Memo!Lookup
  <2>1. CASE asked[t] \in DOMAIN memo /\ memo[asked[t]].digest = Memo!Contents(asked[t])
    <3> DEFINE held == memo[asked[t]]
    <3>1. /\ graph' = [graph EXCEPT ![t] = held.graph] /\ raced' = [raced EXCEPT ![t] = held.raced]
          /\ memoPc' = [memoPc EXCEPT ![t] = "answered"]
      BY <1>2, <2>1 DEF Memo!Lookup, Memo!Found
    <3>2. ASSUME NEW p \in DOMAIN held.graph \ held.raced
          PROVE  held.graph[p] \in since[t][p]
      <4>1. asked[t] \in Request /\ DOMAIN held.graph = Reads[asked[t]]
        BY <2>1 DEF Memo!MemoIsBounded
      <4>2. p \in Reads[asked[t]] /\ p \in Source
        BY <4>1 DEF Memo!Sensible
      <4>3. held.digest[p] = memoDisk[p]
        BY <2>1, <4>2 DEF Memo!Contents
      <4>4. held.graph[p] = held.digest[p]
        BY <2>1 DEF Memo!AsDigested
      <4>5. memoDisk[p] \in since[t][p]
        BY <1>0, <2>0, <4>2 DEF Memo!OfItsTime
      <4> QED
        BY <4>3, <4>4, <4>5
    <3>3. \A u \in Thread : u # t => graph'[u] = graph[u] /\ raced'[u] = raced[u] /\ memoPc'[u] = memoPc[u]
      BY <3>1
    <3>4. graph'[t] = held.graph /\ raced'[t] = held.raced /\ memoPc'[t] = "answered"
      BY <3>1 DEF Memo!Functions
    <3>5. raced' = [u \in Thread |-> raced'[u]]
      BY <3>1 DEF Memo!Functions
    <3> HIDE DEF held
    <3>6. Memo!OfItsTime(t)'
      BY <1>0, <2>0, <3>2, <3>4 DEF Memo!OfItsTime
    <3> QED
      BY <2>0, <3>3, <3>5, <3>6, OthersFresh DEF Memo!AsDigested, Memo!Functions
  <2>2. CASE ~(asked[t] \in DOMAIN memo /\ memo[asked[t]].digest = Memo!Contents(asked[t]))
    <3>1. memoPc' = [memoPc EXCEPT ![t] = "read"] /\ UNCHANGED <<graph, raced>>
      BY <1>2, <2>2 DEF Memo!Lookup
    <3>2. DOMAIN graph[t] = {}
      BY <2>0, NothingRead
    <3>3. memoPc'[t] = "read" /\ \A u \in Thread : u # t => memoPc'[u] = memoPc[u]
      BY <3>1
    <3>4. Memo!OfItsTime(t)'
      BY <1>0, <2>0, <3>1, <3>2, <3>3 DEF Memo!OfItsTime
    <3> QED
      BY <2>0, <3>1, <3>3, <3>4, OthersFresh DEF Memo!AsDigested, Memo!Functions
  <2> QED
    BY <2>1, <2>2
<1>3. ASSUME NEW t \in Thread, NEW p \in Source, Memo!Read(t, p)
      PROVE  Memo!Fresh'
  <2>1. /\ memoPc[t] = "read" /\ UNCHANGED <<memoDisk, memo, memoPc, digest, since, raced>>
        /\ graph' = [graph EXCEPT ![t] = [q \in DOMAIN @ \cup {p} |-> IF q = p THEN memoDisk[p] ELSE @[q]]]
    BY <1>3 DEF Memo!Read
  <2>2. /\ DOMAIN graph'[t] = DOMAIN graph[t] \cup {p}
        /\ \A q \in DOMAIN graph'[t] : graph'[t][q] = IF q = p THEN memoDisk[p] ELSE graph[t][q]
    BY <2>1
  <2>3. \A u \in Thread : u # t => graph'[u] = graph[u]
    BY <2>1
  <2>4. memoDisk[p] \in since[t][p]
    BY <1>0, <2>1 DEF Memo!OfItsTime
  <2>5. Memo!OfItsTime(t)'
    BY <1>0, <2>1, <2>2, <2>4 DEF Memo!OfItsTime
  <2> QED
    BY <1>0, <2>1, <2>3, <2>5, OthersFresh DEF Memo!AsDigested, Memo!Functions
<1>4. ASSUME NEW t \in Thread, Memo!Finish(t)
      PROVE  Memo!Fresh'
  <2>1. /\ graph' = [graph EXCEPT ![t] = << >>] /\ digest' = [digest EXCEPT ![t] = << >>]
        /\ since' = [since EXCEPT ![t] = [p \in Source |-> {}]]
        /\ raced' = [raced EXCEPT ![t] = {}] /\ memoPc' = [memoPc EXCEPT ![t] = "idle"]
        /\ UNCHANGED <<memoDisk, memo>>
    BY <1>4 DEF Memo!Finish
  <2>2. \A u \in Thread : u # t => /\ graph'[u] = graph[u] /\ digest'[u] = digest[u]
                                    /\ since'[u] = since[u] /\ raced'[u] = raced[u]
                                    /\ memoPc'[u] = memoPc[u]
    BY <2>1 DEF Memo!Functions
  <2>3. memoPc'[t] = "idle"
    BY <2>1
  <2>4. since' = [u \in Thread |-> [p \in Source |-> since'[u][p]]] /\ raced' = [u \in Thread |-> raced'[u]]
    BY <2>1 DEF Memo!Functions
  <2>5. Memo!OfItsTime(t)'
    BY <2>3 DEF Memo!OfItsTime
  <2>6. Memo!Functions' /\ Memo!AsDigested'
    BY <1>0, <2>1, <2>4 DEF Memo!AsDigested, Memo!Functions
  <2>7. \A u \in Thread : u # t => Memo!OfItsTime(u)'
    BY <1>0, <2>1, <2>2, OthersFresh
  <2> QED
    BY <2>5, <2>6, <2>7
<1>5. ASSUME NEW t \in Thread, Memo!Digest(t)
      PROVE  Memo!Fresh'
  <2>1. /\ memoPc[t] = "read" /\ DOMAIN graph[t] = Reads[asked[t]]
        /\ digest' = [digest EXCEPT ![t] = Memo!Contents(asked[t])]
        /\ memoPc' = [memoPc EXCEPT ![t] = "remember"]
        /\ UNCHANGED <<memoDisk, memo, graph, since, raced>>
    BY <1>5 DEF Memo!Digest
  <2>2. \A u \in Thread : u # t => digest'[u] = digest[u] /\ memoPc'[u] = memoPc[u]
    BY <2>1
  <2>3. memoPc'[t] = "remember" /\ \A p \in DOMAIN graph[t] : digest'[t][p] = memoDisk[p]
    BY <2>1 DEF Memo!Contents
  <2>4. Memo!OfItsTime(t)'
    BY <1>0, <2>1, <2>3 DEF Memo!OfItsTime
  <2> QED
    BY <2>1, <2>2, <2>4, OthersFresh DEF Memo!AsDigested, Memo!Functions
<1>6. ASSUME NEW t \in Thread, Memo!Remember(t)
      PROVE  Memo!Fresh'
  <2>1. \A k \in DOMAIN memo' :
          \/ memo'[k] = [graph |-> graph[t], digest |-> digest[t], raced |-> raced[t]]
          \/ k \in DOMAIN memo /\ memo'[k] = memo[k]
    BY <1>6 DEF Memo!Remember
  <2>2. /\ memoPc[t] = "remember" /\ memoPc' = [memoPc EXCEPT ![t] = "answered"]
        /\ UNCHANGED <<memoDisk, graph, digest, since, raced>>
    BY <1>6 DEF Memo!Remember
  <2>3. ASSUME NEW k \in DOMAIN memo', NEW p \in DOMAIN memo'[k].graph \ memo'[k].raced
        PROVE  memo'[k].graph[p] = memo'[k].digest[p]
    <3>1. CASE memo'[k] = [graph |-> graph[t], digest |-> digest[t], raced |-> raced[t]]
      <4>1. memo'[k].graph = graph[t] /\ memo'[k].digest = digest[t] /\ memo'[k].raced = raced[t]
        BY <3>1
      <4> QED
        BY <1>0, <2>2, <2>3, <4>1 DEF Memo!OfItsTime
    <3>2. CASE k \in DOMAIN memo /\ memo'[k] = memo[k]
      BY <2>3, <3>2 DEF Memo!AsDigested
    <3> QED
      BY <2>1, <3>1, <3>2
  <2>4. memoPc'[t] = "answered" /\ \A u \in Thread : u # t => memoPc'[u] = memoPc[u]
    BY <2>2
  <2>5. Memo!OfItsTime(t)'
    BY <1>0, <2>2, <2>4 DEF Memo!OfItsTime
  <2>6. Memo!AsDigested'
    BY <2>3 DEF Memo!AsDigested
  <2> QED
    BY <2>2, <2>4, <2>5, <2>6, OthersFresh DEF Memo!Functions
<1>7. ASSUME NEW p \in Source, Memo!Edit(p)
      PROVE  Memo!Fresh'
  <2>1. PICK v \in Version \ {memoDisk[p]} :
          /\ memoDisk' = [memoDisk EXCEPT ![p] = v]
          /\ since' = [t \in Thread |->
                        IF memoPc[t] = "idle" THEN since[t] ELSE [since[t] EXCEPT ![p] = @ \cup {v}]]
    BY <1>7 DEF Memo!Edit
  <2>2. /\ raced' = [t \in Thread |->
                       raced[t] \cup IF memoPc[t] = "read" /\ p \in DOMAIN graph[t] THEN {p} ELSE {}]
        /\ UNCHANGED <<memo, memoPc, graph, digest>>
    BY <1>7 DEF Memo!Edit
  <2>3. memoDisk' = [q \in Source |-> memoDisk'[q]] /\ raced' = [t \in Thread |-> raced'[t]]
    BY <2>1, <2>2 DEF Memo!Functions
  <2>4. since' = [t \in Thread |-> [q \in Source |-> since'[t][q]]]
    <3>1. \A t \in Thread : since'[t] = [q \in Source |-> since'[t][q]]
      BY <2>1 DEF Memo!Functions
    <3> QED
      BY <2>1, <3>1
  <2>5. \A t \in Thread : \A q \in Source : since[t][q] \subseteq since'[t][q]
    BY <2>1 DEF Memo!Functions
  <2>6. \A t \in Thread : memoPc[t] # "idle" => v \in since'[t][p]
    BY <2>1 DEF Memo!Functions
  <2>7. \A t \in Thread : raced[t] \subseteq raced'[t]
    BY <2>2
  <2>8. memoDisk'[p] = v /\ \A q \in Source : q # p => memoDisk'[q] = memoDisk[q]
    BY <2>1 DEF Memo!Functions
  <2>9. \A t \in Thread : memoPc[t] = "read" /\ p \in DOMAIN graph[t] => p \in raced'[t]
    BY <2>2
  <2>10. ASSUME NEW t \in Thread, memoPc[t] # "idle"
         PROVE  DOMAIN graph[t] \subseteq Source
    <3>1. Reads[asked[t]] \subseteq Source
      BY DEF Memo!Sensible
    <3>2. DOMAIN graph[t] = {} \/ DOMAIN graph[t] \subseteq Reads[asked[t]]
      BY <2>10, NothingRead
    <3> QED
      BY <3>1, <3>2
  <2>11. ASSUME NEW t \in Thread, memoPc[t] # "idle", NEW q \in Source
         PROVE  memoDisk'[q] \in since'[t][q]
    BY <1>0, <2>5, <2>6, <2>8, <2>11 DEF Memo!OfItsTime
  <2>12. ASSUME NEW t \in Thread, memoPc[t] = "read", NEW q \in DOMAIN graph[t] \ raced'[t]
         PROVE  graph[t][q] = memoDisk'[q]
    BY <1>0, <2>7, <2>8, <2>9, <2>10, <2>12 DEF Memo!OfItsTime
  <2>13. ASSUME NEW t \in Thread, memoPc[t] \in {"read", "remember"}, NEW q \in DOMAIN graph[t]
         PROVE  graph[t][q] \in since'[t][q]
    BY <1>0, <2>5, <2>10, <2>13 DEF Memo!OfItsTime
  <2>14. ASSUME NEW t \in Thread, memoPc[t] = "remember", NEW q \in DOMAIN graph[t] \ raced'[t]
         PROVE  graph[t][q] = digest[t][q]
    BY <1>0, <2>7, <2>14 DEF Memo!OfItsTime
  <2>15. ASSUME NEW t \in Thread, memoPc[t] = "answered", NEW q \in DOMAIN graph[t] \ raced'[t]
         PROVE  graph[t][q] \in since'[t][q]
    BY <1>0, <2>5, <2>7, <2>10, <2>15 DEF Memo!OfItsTime
  <2>16. ASSUME NEW t \in Thread
         PROVE  Memo!OfItsTime(t)'
    BY <2>2, <2>11, <2>12, <2>13, <2>14, <2>15 DEF Memo!OfItsTime
  <2>17. Memo!Functions'
    BY <2>3, <2>4 DEF Memo!Functions
  <2> QED
    BY <2>2, <2>16, <2>17 DEF Memo!AsDigested
<1>8. CASE UNCHANGED Memo!vars
  BY <1>8 DEF Memo!vars, Memo!Functions, Memo!AsDigested, Memo!OfItsTime
<1> QED
  BY <1>1, <1>2, <1>3, <1>4, <1>5, <1>6, <1>7, <1>8 DEF Memo!Next, Memo!Reply, Memo!Fail

\* A behaviour of the two caches is one of the memo.
LEMMA GraphsStep ==
  ASSUME [CachesNext /\ UNCHANGED side]_<<side, vars, memoVars>>
  PROVE  [Memo!Next]_(Memo!vars)
  BY DEF CachesNext, memoVars, Memo!vars

\* And one of the artifact cache.
LEMMA ArtifactsStep ==
  ASSUME [CachesNext /\ UNCHANGED side]_<<side, vars, memoVars>>
  PROVE  [Next]_vars
  BY DEF CachesNext

\* An answer, remembered or not, is of contents its projects had while its request
\* was at work, but for projects edited during the compile that made it, for any
\* number of threads that look up, compile and remember the same or different
\* requests side by side, and whatever is edited and undone; and the memo is bounded.
THEOREM MemoRight ==
  ASSUME Memo!Sensible
  PROVE  CachesSpec => []MemoIsRight
<1>1. CachesInit => Memo!Bounded /\ Memo!Fresh
  BY BoundedAtFirst, NothingRead DEF CachesInit, Memo!Init, Memo!Fresh, Memo!Functions, Memo!AsDigested, Memo!OfItsTime
<1>2. Memo!Bounded /\ Memo!Fresh /\ [CachesNext /\ UNCHANGED side]_<<side, vars, memoVars>>
        => (Memo!Bounded /\ Memo!Fresh)'
  BY GraphsStep, BoundedStep, FreshStep
<1>3. Memo!Bounded /\ Memo!Fresh => MemoIsRight
  BY DEF Memo!Bounded, Memo!Fresh, Memo!OfItsTime, Memo!StaleOnlyIfEdited, Memo!MemoIsRight, MemoIsRight
<1> QED
  BY <1>1, <1>2, <1>3, PTL DEF CachesSpec

\* What the artifact cache promises, the two side by side promise.
THEOREM SideBySide == CachesSpec => [](EntriesMatchTheirKeys /\ UsesSourcesUnlessUndercut)
<1>1. CachesSpec => Spec
  <2>1. CachesInit => Init
    BY DEF CachesInit
  <2> QED
    BY <2>1, ArtifactsStep, PTL DEF CachesSpec, Spec
<1> QED
  BY <1>1, EntriesMatch, SourcesOfItsTime, PTL
=============================================================================
