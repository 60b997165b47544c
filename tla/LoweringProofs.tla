--------------------------- MODULE LoweringProofs ---------------------------
(***************************************************************************)
(* Proofs about incremental lowering and the inference inputs it feeds,    *)
(* for every number of definitions and every text that may be written.     *)
(***************************************************************************)
EXTENDS Lowering, FiniteSetTheorems, WellFoundedInduction, TLAPS

-----------------------------------------------------------------------------
(* Sums.                                                                   *)

LEMMA Least ==
  ASSUME NEW S \in SUBSET Nat, S # {}
  PROVE  \E m \in S : \A k \in S : ~(k < m)
<1>1. PICK R : R = OpToRel(<, Nat)
  OBVIOUS
<1>2. IsWellFoundedOn(R, Nat)
  BY <1>1, NatLessThanWellFounded
<1>3. PICK m \in S : \A k \in S : <<k, m>> \notin R
  BY <1>2, WFMin
<1>4. ASSUME NEW k \in S, k < m PROVE FALSE
  BY <1>1, <1>3, <1>4 DEF OpToRel
<1> QED
  BY <1>3, <1>4

\* Induction, of a set of numbers.
LEMMA Inductively ==
  ASSUME NEW S \in SUBSET Nat, 0 \in S, \A n \in S : n + 1 \in S
  PROVE  S = Nat
<1>1. SUFFICES ASSUME Nat \ S # {} PROVE FALSE
  OBVIOUS
<1>2. PICK m \in Nat \ S : \A k \in Nat \ S : ~(k < m)
  BY <1>1, Least
<1>3. m - 1 \in Nat /\ m - 1 < m
  BY <1>2
<1>4. m - 1 \in S
  BY <1>2, <1>3
<1> QED
  BY <1>2, <1>3, <1>4

\* The partial sums that SumTo is the last of.
Sums(g, f, n) == g = [k \in 0 .. n |-> IF k = 0 THEN 0 ELSE g[k - 1] + f[k]]

LEMMA SumIsLast ==
  ASSUME NEW f, NEW n
  PROVE  \E g : g = (CHOOSE s : Sums(s, f, n)) /\ SumTo(f, n) = g[n]
BY DEF SumTo, Sums

LEMMA SumsLonger ==
  ASSUME NEW f, NEW n \in Nat, NEW g, Sums(g, f, n)
  PROVE  \E s : Sums(s, f, n + 1)
<1>1. PICK s : s = [k \in 0 .. n + 1 |-> IF k \in 0 .. n THEN g[k] ELSE g[n] + f[n + 1]]
  OBVIOUS
<1>2. ASSUME NEW k \in 0 .. n + 1 PROVE s[k] = IF k = 0 THEN 0 ELSE s[k - 1] + f[k]
  <2>1. CASE k = 0
    BY <1>1, <2>1 DEF Sums
  <2>2. CASE k \in 1 .. n
    BY <1>1, <2>2 DEF Sums
  <2>3. CASE k = n + 1
    BY <1>1, <2>3
  <2> QED
    BY <2>1, <2>2, <2>3
<1>3. s = [k \in 0 .. n + 1 |-> s[k]]
  BY <1>1
<1>4. Sums(s, f, n + 1)
  BY <1>2, <1>3 DEF Sums
<1> QED
  BY <1>4

LEMMA SumsAre ==
  ASSUME NEW f
  PROVE  \A n \in Nat : \E g : Sums(g, f, n)
<1>1. PICK S : S = {n \in Nat : \E g : Sums(g, f, n)}
  OBVIOUS
<1>2. 0 \in S
  <2>1. PICK g : g = [k \in 0 .. 0 |-> 0]
    OBVIOUS
  <2>2. Sums(g, f, 0)
    BY <2>1 DEF Sums
  <2> QED
    BY <1>1, <2>2
<1>3. ASSUME NEW n \in S PROVE n + 1 \in S
  BY <1>1, SumsLonger
<1>4. S = Nat
  BY <1>1, <1>2, <1>3, Inductively
<1> QED
  BY <1>1, <1>4

LEMMA SumSteps ==
  ASSUME NEW f, NEW n \in Nat
  PROVE  \E g : /\ SumTo(f, n) = g[n] /\ g[0] = 0
                /\ \A k \in 0 .. n : k + 1 \in 0 .. n => g[k + 1] = g[k] + f[k + 1]
<1>1. PICK g : g = (CHOOSE s : Sums(s, f, n)) /\ SumTo(f, n) = g[n]
  BY SumIsLast
<1>2. Sums(g, f, n)
  BY <1>1, SumsAre
<1>3. \A k \in 0 .. n : g[k] = IF k = 0 THEN 0 ELSE g[k - 1] + f[k]
  BY <1>2 DEF Sums
<1>4. ASSUME NEW k \in 0 .. n, k + 1 \in 0 .. n PROVE g[k + 1] = g[k] + f[k + 1]
  BY <1>3, <1>4
<1>5. g[0] = 0
  BY <1>3
<1> QED
  BY <1>1, <1>4, <1>5

\* A sum of naturals is one, and none of them is more.
LEMMA SumBounds ==
  ASSUME NEW f, NEW n \in Nat, \A k \in 1 .. n : f[k] \in Nat
  PROVE  /\ SumTo(f, n) \in Nat
         /\ \A k \in 1 .. n : f[k] <= SumTo(f, n)
<1>1. PICK g : /\ SumTo(f, n) = g[n] /\ g[0] = 0
               /\ \A k \in 0 .. n : k + 1 \in 0 .. n => g[k + 1] = g[k] + f[k + 1]
  BY SumSteps
<1>2. PICK S : S = {m \in Nat : m \in 0 .. n => /\ g[m] \in Nat
                                               /\ \A k \in 1 .. m : f[k] <= g[m]}
  OBVIOUS
<1>3. 0 \in S
  BY <1>1, <1>2
<1>4. ASSUME NEW m \in S PROVE m + 1 \in S
  <2>1. CASE m + 1 \notin 0 .. n
    BY <1>2, <2>1
  <2>2. CASE m + 1 \in 0 .. n
    <3>1. m \in 0 .. n /\ g[m] \in Nat /\ g[m + 1] = g[m] + f[m + 1] /\ f[m + 1] \in Nat
      BY <1>1, <1>2, <2>2
    <3>2. ASSUME NEW k \in 1 .. m + 1 PROVE f[k] <= g[m + 1]
      <4>1. CASE k = m + 1
        BY <3>1, <4>1
      <4>2. CASE k \in 1 .. m
        <5>1. f[k] <= g[m] /\ f[k] \in Nat
          BY <1>2, <3>1, <4>2
        <5> QED
          BY <3>1, <5>1
      <4> QED
        BY <1>2, <4>1, <4>2
    <3>3. g[m + 1] \in Nat /\ m + 1 \in Nat
      BY <1>2, <3>1
    <3> QED
      BY <1>2, <3>2, <3>3
  <2> QED
    BY <2>1, <2>2
<1>5. n \in S
  BY <1>2, <1>3, <1>4, Inductively
<1> QED
  BY <1>1, <1>2, <1>5

LEMMA SumOfNothing ==
  ASSUME NEW f, NEW n \in Nat, \A k \in 1 .. n : f[k] = 0
  PROVE  SumTo(f, n) = 0
<1>1. PICK g : /\ SumTo(f, n) = g[n] /\ g[0] = 0
               /\ \A k \in 0 .. n : k + 1 \in 0 .. n => g[k + 1] = g[k] + f[k + 1]
  BY SumSteps
<1>2. PICK S : S = {m \in Nat : m \in 0 .. n => g[m] = 0}
  OBVIOUS
<1>3. 0 \in S
  BY <1>1, <1>2
<1>4. ASSUME NEW m \in S PROVE m + 1 \in S
  BY <1>1, <1>2
<1>5. n \in S
  BY <1>2, <1>3, <1>4, Inductively
<1> QED
  BY <1>1, <1>2, <1>5

-----------------------------------------------------------------------------
(* Texts.                                                                  *)

Bodies == {Erased} \cup UNION {x.bodies : x \in Habits}
Definitions == [h : {None, 1, 2}, attr : BOOLEAN, gap : Nat, mid : Nat, body : Bodies]
AllTexts == [Defs -> Definitions]

LEMMA DefsAreNumbered ==
  /\ Cardinality(Defs) \in Nat
  /\ \A i \in Defs : i \in 1 .. Cardinality(Defs)
  /\ \A i \in 1 .. Cardinality(Defs) : i \in Defs
BY TextAssumption, FS_CardinalityType DEF TextAssumption

LEMMA BodiesAreSized ==
  ASSUME NEW b \in Bodies
  PROVE  b.width \in Nat \ {0} /\ b.rigids \in Nat /\ b.muts \in Nat
BY TextAssumption DEF TextAssumption, Bodies, Erased

LEMMA AbsentIsWritten == Absent \in Definitions
BY DEF Absent, Written, Definitions, Bodies

LEMMA WidthsAreNatural ==
  ASSUME NEW d \in Definitions, d.h # None
  PROVE  /\ d.h \in {1, 2} /\ HeaderWidth(d.h) = 2 + d.h
         /\ LetAt(d) \in Nat /\ EndAt(d) \in Nat
<1>1. d.h \in {1, 2} /\ d.mid \in Nat /\ d.body \in Bodies
  BY DEF Definitions
<1>2. d.body.width \in Nat
  BY <1>1, BodiesAreSized
<1> QED
  BY <1>1, <1>2 DEF HeaderWidth, LetAt, AttributeWidth, EndAt

LEMMA AboveIsNatural ==
  ASSUME NEW t \in AllTexts, NEW i \in Defs
  PROVE  Above(t, i) \in Nat
<1>1. PICK f : f = [j \in Defs |-> IF FileOf[j] = FileOf[i] /\ t[j].h # None
                                   THEN t[j].gap + EndAt(t[j]) + 1 ELSE 0]
  OBVIOUS
<1>2. ASSUME NEW j \in Defs PROVE f[j] \in Nat
  <2>1. t[j] \in Definitions /\ t[j].gap \in Nat
    BY DEF AllTexts, Definitions
  <2>2. t[j].h # None => EndAt(t[j]) \in Nat
    BY <2>1, WidthsAreNatural
  <2> QED
    BY <1>1, <2>1, <2>2
<1>3. i - 1 \in Nat /\ \A k \in 1 .. i - 1 : k \in Defs
  BY DefsAreNumbered
<1>4. SumTo(f, i - 1) \in Nat
  BY <1>2, <1>3, SumBounds
<1> QED
  BY <1>1, <1>4 DEF Above

\* A name follows its let, and a body its header.
LEMMA PlacesAreNatural ==
  ASSUME NEW t \in AllTexts, NEW i \in Present(t)
  PROVE  \E let \in Nat : /\ Places(t)[i].name = let + 1
                          /\ Places(t)[i].body = let + 2 + t[i].h
                          /\ t[i].h \in {1, 2}
<1>1. i \in Defs /\ t[i] \in Definitions /\ t[i].h # None /\ t[i].gap \in Nat
  BY DEF Present, AllTexts, Definitions
<1>2. Above(t, i) \in Nat /\ LetAt(t[i]) \in Nat /\ HeaderWidth(t[i].h) = 2 + t[i].h /\ t[i].h \in {1, 2}
  BY <1>1, AboveIsNatural, WidthsAreNatural
<1>3. PICK let : let = Above(t, i) + t[i].gap + LetAt(t[i])
  OBVIOUS
<1>4. let \in Nat
  BY <1>1, <1>2, <1>3
<1>5. Places(t)[i].name = let + 1 /\ Places(t)[i].body = let + HeaderWidth(t[i].h)
  BY <1>3 DEF Places
<1> QED
  BY <1>2, <1>4, <1>5

LEMMA NodesBegin ==
  ASSUME NEW b \in Bodies, NEW n \in DOMAIN Nodes(b)
  PROVE  Nodes(b)[n][1] \in Nat
<1>1. CASE b.width > 1
  BY <1>1 DEF Nodes
<1>2. CASE ~(b.width > 1)
  BY <1>2 DEF Nodes
<1> QED
  BY <1>1, <1>2

\* The anchor of a name does not tell where it is written.
LEMMA NameStands ==
  ASSUME NEW t \in AllTexts, NEW i \in Present(t)
  PROVE  NameAnchor(i, Places(t)[i]) = [of |-> i, node |-> <<0, 1>>]
<1>1. PICK let \in Nat : Places(t)[i].name = let + 1
  BY PlacesAreNatural
<1> QED
  BY <1>1 DEF NameAnchor, Anchor, NodeOf

\* Nor do those of a body.
LEMMA BodyStands ==
  ASSUME NEW t \in AllTexts, NEW i \in Present(t)
  PROVE  BodyAnchors(i, Places(t)[i], t[i].body) =
           [n \in DOMAIN Nodes(t[i].body) |->
              [of |-> i, node |-> <<1 + t[i].h + Nodes(t[i].body)[n][1], Nodes(t[i].body)[n][2]>>]]
<1>1. PICK let \in Nat : /\ Places(t)[i].name = let + 1
                         /\ Places(t)[i].body = let + 2 + t[i].h
                         /\ t[i].h \in {1, 2}
  BY PlacesAreNatural
<1>2. PICK b : b = t[i].body
  OBVIOUS
<1>3. b \in Bodies
  BY <1>2 DEF Present, AllTexts, Definitions
<1>4. ASSUME NEW n \in DOMAIN Nodes(b)
      PROVE  Anchor(i, Places(t)[i].name, Places(t)[i].body + Nodes(b)[n][1], Nodes(b)[n][2])
               = [of |-> i, node |-> <<1 + t[i].h + Nodes(b)[n][1], Nodes(b)[n][2]>>]
  <2>1. PICK from \in Nat : from = Nodes(b)[n][1]
    BY <1>3, <1>4, NodesBegin
  <2>2. PICK width : width = Nodes(b)[n][2]
    OBVIOUS
  <2>3. NodeOf(let + 1, let + 2 + t[i].h + from, width) = <<1 + t[i].h + from, width>>
    BY <1>1 DEF NodeOf
  <2> QED
    BY <1>1, <2>1, <2>2, <2>3 DEF Anchor
<1> QED
  BY <1>2, <1>4 DEF BodyAnchors

-----------------------------------------------------------------------------
(* What the ordinary builder makes of a text.                              *)

Loops(t) == Circling(AllLinks([i \in Present(t) |-> t[i].body]))

\* No definition has an error.
Clean(t) ==
  /\ \A i \in Present(t) : i \notin Loops(t) /\ -i \notin Loops(t)
  /\ \A i \in Present(t) : ~Wrong(t[i].body, Present(t))

ReferencesIn(t) == [i \in Present(t) |-> References(t[i].body, Present(t))]
UsesOfMut(t) == [i \in Present(t) |-> t[i].body.muts]

LEMMA BuildIsOf ==
  ASSUME NEW t
  PROVE  /\ DOMAIN Build(t).terms = Present(t)
         /\ \A i \in Present(t) : \E value : Build(t).terms[i] = Term(i, t[i], Places(t)[i], value, RigidStart(t, i))
         /\ Build(t).mut = (MutsIn(UsesOfMut(t)) > 0)
         /\ Build(t).errors = {i \in Present(t) : \/ Wrong(t[i].body, Present(t))
                                                  \/ i \in Loops(t) \/ -i \in Loops(t)}
BY DEF Build, Loops, UsesOfMut

LEMMA ErrorsAreUnclean ==
  ASSUME NEW t
  PROVE  Build(t).errors = {} <=> Clean(t)
BY BuildIsOf DEF Clean

LEMMA CleanBuild ==
  ASSUME NEW t, Clean(t)
  PROVE  /\ \A i \in Present(t) :
              Build(t).terms[i] = Term(i, t[i], Places(t)[i], t[i].body, RigidStart(t, i))
         /\ Build(t).groups = Grouping(ReferencesIn(t))
<1> DEFINE value(i) == IF i \in Loops(t) \/ -i \in Loops(t) THEN Erased ELSE t[i].body
<1>1. /\ Build(t).terms = [i \in Present(t) |-> Term(i, t[i], Places(t)[i], value(i), RigidStart(t, i))]
      /\ Build(t).groups = Grouping([i \in Present(t) |-> References(value(i), Present(t))])
  BY DEF Build, Loops
<1>2. \A i \in Present(t) : value(i) = t[i].body
  BY DEF Clean
<1>3. [i \in Present(t) |-> References(value(i), Present(t))] = ReferencesIn(t)
  BY <1>2 DEF ReferencesIn
<1> QED
  BY <1>1, <1>2, <1>3

LEMMA GroupsAreWithin ==
  ASSUME NEW refs, NEW g \in Grouping(refs)
  PROVE  g \subseteq DOMAIN refs
BY DEF Grouping

\* What goes in a circle is a definition, or nested in one.
LEMMA CirclesAreOfNames ==
  ASSUME NEW links, NEW x \in Circling(links)
  PROVE  \E l \in links : l[1] = x
BY DEF Circling

LEMMA LoopsAreInText ==
  ASSUME NEW t, Clean(t)
  PROVE  Loops(t) = {}
<1>1. SUFFICES ASSUME NEW x \in Loops(t) PROVE FALSE
  OBVIOUS
<1>2. PICK l \in AllLinks([i \in Present(t) |-> t[i].body]) : l[1] = x
  BY CirclesAreOfNames DEF Loops
<1>3. PICK i \in Present(t) : l \in Links(i, t[i].body)
  BY DEF AllLinks
<1>4. x = i \/ x = -i
  BY <1>2, <1>3 DEF Links
<1> QED
  BY <1>1, <1>4 DEF Clean

LEMMA ReferencesAreGrouped ==
  ASSUME NEW t, NEW g \in Grouping(ReferencesIn(t))
  PROVE  g \subseteq Present(t)
BY GroupsAreWithin DEF ReferencesIn

-----------------------------------------------------------------------------
(* Ranges of rigid variables and uses of mut.                              *)

LEMMA RigidsAreNatural ==
  ASSUME NEW t \in AllTexts, NEW i \in Defs
  PROVE  RigidsOf(t[i]) \in Nat
<1>1. t[i].body \in Bodies
  BY DEF AllTexts, Definitions
<1>2. t[i].body.rigids \in Nat
  BY <1>1, BodiesAreSized
<1> QED
  BY <1>2 DEF RigidsOf

LEMMA RigidStartIsNatural ==
  ASSUME NEW t \in AllTexts, NEW i \in Defs
  PROVE  RigidStart(t, i) \in Nat
<1>1. PICK f : f = [j \in Defs |-> IF t[j].h = None THEN 0 ELSE RigidsOf(t[j])]
  OBVIOUS
<1>2. \A j \in Defs : f[j] \in Nat
  BY <1>1, RigidsAreNatural
<1>3. i - 1 \in Nat /\ \A k \in 1 .. i - 1 : k \in Defs
  BY DefsAreNumbered
<1>4. SumTo(f, i - 1) \in Nat
  BY <1>2, <1>3, SumBounds
<1> QED
  BY <1>1, <1>4 DEF RigidStart

\* While every definition quantifies as many, the ranges of all stand.
LEMMA RangesStand ==
  ASSUME NEW t \in AllTexts, NEW u \in AllTexts, Present(t) = Present(u),
         \A i \in Present(t) : RigidsOf(t[i]) = RigidsOf(u[i])
  PROVE  \A i \in Defs : RigidStart(t, i) = RigidStart(u, i)
<1>1. \A j \in Defs : /\ (t[j].h = None) = (u[j].h = None)
                      /\ t[j].h # None => RigidsOf(t[j]) = RigidsOf(u[j])
  BY DEF Present
<1>2. [j \in Defs |-> IF t[j].h = None THEN 0 ELSE RigidsOf(t[j])]
        = [j \in Defs |-> IF u[j].h = None THEN 0 ELSE RigidsOf(u[j])]
  BY <1>1
<1> QED
  BY <1>2 DEF RigidStart

LEMMA UsesAreCounted ==
  ASSUME NEW t \in AllTexts
  PROVE  /\ MutsIn(UsesOfMut(t)) \in Nat
         /\ MutsIn(UsesOfMut(t)) = 0 <=> \A i \in Present(t) : t[i].body.muts = 0
<1>1. PICK f : f = [i \in Defs |-> IF i \in DOMAIN UsesOfMut(t) THEN UsesOfMut(t)[i] ELSE 0]
  OBVIOUS
<1>2. ASSUME NEW i \in Defs PROVE f[i] = IF i \in Present(t) THEN t[i].body.muts ELSE 0
  BY <1>1 DEF UsesOfMut
<1>3. ASSUME NEW i \in Defs PROVE f[i] \in Nat
  <2>1. t[i].body \in Bodies
    BY DEF AllTexts, Definitions
  <2>2. t[i].body.muts \in Nat
    BY <2>1, BodiesAreSized
  <2> QED
    BY <1>2, <2>2
<1>4. MutsIn(UsesOfMut(t)) = SumTo(f, Cardinality(Defs))
  BY <1>1 DEF MutsIn
<1>5. /\ SumTo(f, Cardinality(Defs)) \in Nat
      /\ \A k \in 1 .. Cardinality(Defs) : f[k] <= SumTo(f, Cardinality(Defs))
  BY <1>3, DefsAreNumbered, SumBounds
<1>6. ASSUME SumTo(f, Cardinality(Defs)) = 0, NEW i \in Present(t) PROVE t[i].body.muts = 0
  <2>1. i \in Defs
    BY DEF Present
  <2>2. f[i] <= 0 /\ f[i] \in Nat
    BY <1>3, <1>5, <1>6, <2>1, DefsAreNumbered
  <2> QED
    BY <1>2, <2>1, <2>2
<1>7. ASSUME \A i \in Present(t) : t[i].body.muts = 0 PROVE SumTo(f, Cardinality(Defs)) = 0
  BY <1>2, <1>7, DefsAreNumbered, SumOfNothing
<1> QED
  BY <1>4, <1>5, <1>6, <1>7

-----------------------------------------------------------------------------
(* A cache, and what it says.                                              *)

IsTerm(x) ==
  x = [h |-> x.h, value |-> x.value, rigid |-> x.rigid, name |-> x.name, attr |-> x.attr, nodes |-> x.nodes]

IsProgram(out) ==
  /\ out = [terms |-> out.terms, groups |-> out.groups, mut |-> out.mut, errors |-> out.errors,
            scopes |-> out.scopes, source |-> out.source]
  /\ \A i \in DOMAIN out.terms : IsTerm(out.terms[i])

\* An output is, but for places, what the builder makes of a text.
Says(out, t) ==
  /\ DOMAIN out.terms = Present(t)
  /\ \A i \in Present(t) : Code(out.terms[i]) = Code(Build(t).terms[i])
  /\ out.groups = Build(t).groups /\ out.mut = Build(t).mut /\ out.errors = Build(t).errors

\* A cache is of a text without errors, and of the program it became.
IsCache(c, t, out) ==
  /\ c = Snapshot(t, out) /\ out.errors = {}
  /\ t \in AllTexts /\ IsProgram(out) /\ Says(out, t)

LEMMA BuildIsAProgram ==
  ASSUME NEW t
  PROVE  IsProgram(Build(t)) /\ Says(Build(t), t)
<1>1. \A i \in Present(t) : IsTerm(Build(t).terms[i])
  <2> TAKE i \in Present(t)
  <2>1. PICK term, value : /\ term = Build(t).terms[i]
                           /\ term = Term(i, t[i], Places(t)[i], value, RigidStart(t, i))
    BY BuildIsOf
  <2>2. IsTerm(term)
    BY <2>1 DEF IsTerm, Term
  <2> QED
    BY <2>1, <2>2
<1>2. DOMAIN Build(t).terms = Present(t)
  BY BuildIsOf
<1>3. Build(t) = [terms |-> Build(t).terms, groups |-> Build(t).groups, mut |-> Build(t).mut,
                  errors |-> Build(t).errors, scopes |-> Build(t).scopes, source |-> Build(t).source]
  BY DEF Build
<1> QED
  BY <1>1, <1>2, <1>3 DEF IsProgram, Says

LEMMA SameShape ==
  ASSUME NEW t, NEW u, ShapeHeaders(t) = ShapeHeaders(u)
  PROVE  Present(t) = Present(u) /\ \A i \in Present(t) : t[i].h = u[i].h
<1>1. DOMAIN ShapeHeaders(t) = Present(t) /\ DOMAIN ShapeHeaders(u) = Present(u)
  BY DEF ShapeHeaders
<1>2. \A i \in Present(t) : <<t[i].h, t[i].attr>> = ShapeHeaders(t)[i]
  BY DEF ShapeHeaders
<1>3. \A i \in Present(u) : <<u[i].h, u[i].attr>> = ShapeHeaders(u)[i]
  BY DEF ShapeHeaders
<1> QED
  BY <1>1, <1>2, <1>3

-----------------------------------------------------------------------------
(* An edit that the cache follows.                                         *)

LEMMA CacheFields ==
  ASSUME NEW c, NEW t, NEW out, IsCache(c, t, out)
  PROVE  /\ c.text = t /\ c.output = out /\ c.muts = UsesOfMut(t) /\ c.refs = ReferencesIn(t)
         /\ c.aliases = [i \in Present(t) |-> Links(i, t[i].body)]
<1>1. c = Snapshot(t, out)
  BY DEF IsCache
<1>2. c.text = t /\ c.output = out
  BY <1>1 DEF Snapshot
<1>3. c.muts = UsesOfMut(t) /\ c.refs = ReferencesIn(t)
  BY <1>1 DEF Snapshot, UsesOfMut, ReferencesIn
<1>4. c.aliases = [i \in Present(t) |-> Links(i, t[i].body)]
  BY <1>1 DEF Snapshot
<1> QED
  BY <1>2, <1>3, <1>4

RangesOf(t) == [i \in Present(t) |-> <<RigidStart(t, i), RigidStart(t, i) + RigidsOf(t[i])>>]

LEMMA CacheRanges ==
  ASSUME NEW c, NEW t, NEW out, IsCache(c, t, out)
  PROVE  c.rigids = RangesOf(t)
BY DEF IsCache, Snapshot, RangesOf

LEMMA EditKeepsHeaders ==
  ASSUME NEW c, NEW t, NEW out, NEW u, IsCache(c, t, out), Reusable(c, u)
  PROVE  /\ Present(t) = Present(u)
         /\ \A i \in Present(u) : t[i].h = u[i].h
<1>1. ShapeHeaders(t) = ShapeHeaders(u)
  BY CacheFields DEF Reusable
<1> QED
  BY <1>1, SameShape

\* The edited text has no error, and everything is referred to, used and
\* quantified as the update says.
LEMMA EditIsClean ==
  ASSUME NEW c, NEW t, NEW out, NEW u \in AllTexts, IsCache(c, t, out), Reusable(c, u)
  PROVE  /\ Clean(t) /\ Clean(u)
         /\ Updated(c, u).refs = ReferencesIn(u) /\ Updated(c, u).muts = UsesOfMut(u)
         /\ Updated(c, u).aliases = [i \in Present(u) |-> Links(i, u[i].body)]
<1>1. /\ c.text = t /\ c.output = out /\ c.muts = UsesOfMut(t) /\ c.refs = ReferencesIn(t)
      /\ c.aliases = [i \in Present(t) |-> Links(i, t[i].body)]
  BY CacheFields
<1>2. Present(t) = Present(u)
  BY EditKeepsHeaders
<1>3. PICK edited : edited = {i \in Present(u) : t[i].body # u[i].body}
  OBVIOUS
<1>4. ChangedBodies(c.text, u) = edited
  BY <1>1, <1>3 DEF ChangedBodies
<1>5. \A i \in Present(u) \ edited : t[i].body = u[i].body
  BY <1>3
<1>6. Clean(t)
  BY ErrorsAreUnclean DEF IsCache, Says
<1>7. Updated(c, u).refs = ReferencesIn(u)
  <2>1. Updated(c, u).refs = [i \in Present(u) |-> IF i \in edited THEN References(u[i].body, Present(u))
                                                   ELSE c.refs[i]]
    BY <1>4 DEF Updated
  <2>2. \A i \in Present(u) \ edited : c.refs[i] = References(u[i].body, Present(u))
    BY <1>1, <1>2, <1>5 DEF ReferencesIn
  <2> QED
    BY <2>1, <2>2 DEF ReferencesIn
<1>8. Updated(c, u).muts = UsesOfMut(u)
  <2>1. Updated(c, u).muts = [i \in Present(u) |-> IF i \in edited THEN u[i].body.muts ELSE c.muts[i]]
    BY <1>4 DEF Updated
  <2>2. \A i \in Present(u) \ edited : c.muts[i] = u[i].body.muts
    BY <1>1, <1>2, <1>5 DEF UsesOfMut
  <2> QED
    BY <2>1, <2>2 DEF UsesOfMut
<1>9. Updated(c, u).aliases = [i \in Present(u) |-> Links(i, u[i].body)]
  <2>1. Updated(c, u).aliases = [i \in Present(u) |-> IF i \in edited THEN Links(i, u[i].body)
                                                      ELSE c.aliases[i]]
    BY <1>4 DEF Updated, Relinked
  <2>2. \A i \in Present(u) \ edited : c.aliases[i] = Links(i, u[i].body)
    BY <1>1, <1>2, <1>5
  <2> QED
    BY <2>1, <2>2
<1>10. \A i \in Present(u) : ~Wrong(u[i].body, Present(u))
  <2>1. \A i \in edited : ~Wrong(u[i].body, Present(u))
    BY <1>4 DEF Reusable
  <2>2. \A i \in Present(u) \ edited : ~Wrong(u[i].body, Present(u))
    BY <1>2, <1>5, <1>6 DEF Clean
  <2> QED
    BY <2>1, <2>2
<1>11. Loops(u) = {}
  <2>1. AllLinks([i \in Present(u) |-> u[i].body]) = UNION {Updated(c, u).aliases[i] : i \in DOMAIN Updated(c, u).aliases}
    BY <1>9 DEF AllLinks
  <2>2. CASE Updated(c, u).aliases # c.aliases
    BY <2>1, <2>2 DEF Reusable, NoLoop, Loops
  <2>3. CASE Updated(c, u).aliases = c.aliases
    <3>1. AllLinks([i \in Present(t) |-> t[i].body]) = UNION {c.aliases[i] : i \in DOMAIN c.aliases}
      BY <1>1 DEF AllLinks
    <3>2. Loops(u) = Loops(t)
      BY <2>1, <2>3, <3>1 DEF Loops
    <3> QED
      BY <1>6, <3>2, LoopsAreInText
  <2> QED
    BY <2>2, <2>3
<1>12. Clean(u)
  BY <1>10, <1>11 DEF Clean
<1> QED
  BY <1>2, <1>6, <1>7, <1>8, <1>9, <1>12

\* The ranges of rigid variables are where the builder would start them.
LEMMA EditKeepsRanges ==
  ASSUME NEW c, NEW t, NEW out, NEW u \in AllTexts, IsCache(c, t, out), Reusable(c, u)
  PROVE  \A i \in Present(u) : RigidStart(t, i) = RigidStart(u, i) /\ RigidsOf(t[i]) = RigidsOf(u[i])
<1>1. c.text = t /\ t \in AllTexts /\ c.rigids = RangesOf(t)
  BY CacheFields, CacheRanges DEF IsCache
<1>2. Present(t) = Present(u) /\ \A i \in Present(u) : t[i].h = u[i].h
  BY EditKeepsHeaders
<1>3. ASSUME NEW i \in Present(u) PROVE RigidsOf(t[i]) = RigidsOf(u[i])
  <2>1. CASE i \in ChangedBodies(t, u)
    <3>1. c.rigids[i][1] + RigidsOf(u[i]) = c.rigids[i][2]
      BY <1>1, <2>1 DEF Reusable, KeepsRanges
    <3>2. RigidStart(t, i) + RigidsOf(u[i]) = RigidStart(t, i) + RigidsOf(t[i])
      BY <1>1, <1>2, <3>1 DEF RangesOf
    <3>3. RigidStart(t, i) \in Nat /\ RigidsOf(u[i]) \in Nat /\ RigidsOf(t[i]) \in Nat
      BY <1>1, RigidStartIsNatural, RigidsAreNatural DEF Present
    <3> QED
      BY <3>2, <3>3
  <2>2. CASE i \notin ChangedBodies(t, u)
    <3>1. t[i].body = u[i].body
      BY <2>2 DEF ChangedBodies
    <3> QED
      BY <1>2, <3>1 DEF RigidsOf
  <2> QED
    BY <2>1, <2>2
<1>4. \A i \in Defs : RigidStart(t, i) = RigidStart(u, i)
  BY <1>1, <1>2, <1>3, RangesStand
<1> QED
  BY <1>3, <1>4 DEF Present

\* Whether anything uses mut is as it was.
LEMMA EditKeepsMut ==
  ASSUME NEW c, NEW t, NEW out, NEW u \in AllTexts, IsCache(c, t, out), Reusable(c, u)
  PROVE  Build(u).mut = out.mut
<1>1. c.text = t /\ c.output = out /\ c.muts = UsesOfMut(t) /\ t \in AllTexts
  BY CacheFields DEF IsCache
<1>2. Present(t) = Present(u) /\ Updated(c, u).muts = UsesOfMut(u)
  BY EditKeepsHeaders, EditIsClean
<1>3. out.mut = (MutsIn(UsesOfMut(t)) > 0) /\ Build(u).mut = (MutsIn(UsesOfMut(u)) > 0)
  BY BuildIsOf DEF IsCache, Says
<1>4. MutsIn(UsesOfMut(t)) \in Nat /\ MutsIn(UsesOfMut(u)) \in Nat
  BY <1>1, UsesAreCounted
<1>5. CASE MutsIn(UsesOfMut(t)) = 0
  <2>1. out.mut = FALSE
    <3>1. (MutsIn(UsesOfMut(t)) > 0) = FALSE
      BY <1>5
    <3> QED
      BY <1>3, <3>1
  <2>2. \A i \in ChangedBodies(t, u) : u[i].body.muts = 0
    BY <1>1, <2>1 DEF Reusable, KeepsRanges
  <2>3. \A i \in Present(u) : i \notin ChangedBodies(t, u) => t[i].body = u[i].body
    BY DEF ChangedBodies
  <2>4. \A i \in Present(t) : t[i].body.muts = 0
    BY <1>1, <1>5, UsesAreCounted
  <2>5. \A i \in Present(u) : u[i].body.muts = 0
    BY <1>2, <2>2, <2>3, <2>4
  <2>6. MutsIn(UsesOfMut(u)) = 0
    BY <2>5, UsesAreCounted
  <2> QED
    BY <1>3, <1>5, <2>6
<1>6. CASE MutsIn(UsesOfMut(t)) # 0
  <2>1. MutsIn(UsesOfMut(u)) # 0
    BY <1>1, <1>2, <1>6 DEF Reusable
  <2>2. MutsIn(UsesOfMut(t)) > 0 /\ MutsIn(UsesOfMut(u)) > 0
    BY <1>4, <1>6, <2>1
  <2> QED
    BY <1>3, <2>2
<1> QED
  BY <1>5, <1>6

\* The updated terms, one by one.
UpdatedTerm(i, u, term) ==
  [h |-> term.h, value |-> u[i].body, rigid |-> term.rigid, name |-> NameAnchor(i, Places(u)[i]),
   attr |-> term.attr, nodes |-> BodyAnchors(i, Places(u)[i], u[i].body)]

LEMMA UpdatedProgram ==
  ASSUME NEW c, NEW t, NEW out, NEW u \in AllTexts, IsCache(c, t, out), Reusable(c, u)
  PROVE  \E new :
           /\ Updated(c, u) = [text |-> u, output |-> new, rigids |-> c.rigids, muts |-> UsesOfMut(u),
                               refs |-> ReferencesIn(u), aliases |-> [i \in Present(u) |-> Links(i, u[i].body)]]
           /\ IsProgram(new) /\ DOMAIN new.terms = Present(u)
           /\ \A i \in Present(u) : new.terms[i] = IF i \in ChangedBodies(t, u)
                                                   THEN UpdatedTerm(i, u, out.terms[i]) ELSE out.terms[i]
           /\ new.groups = Regrouped(c, ReferencesIn(u))
           /\ new.mut = out.mut /\ new.errors = out.errors
<1>1. c.text = t /\ c.output = out
  BY CacheFields
<1>2. /\ IsProgram(out) /\ DOMAIN out.terms = Present(u)
      /\ \A i \in Present(u) : IsTerm(out.terms[i])
  BY EditKeepsHeaders DEF IsCache, Says, IsProgram
<1>3. PICK edited : edited = ChangedBodies(t, u)
  OBVIOUS
<1>4. PICK terms :
         terms = [i \in DOMAIN out.terms |->
                    IF i \in edited
                    THEN [out.terms[i] EXCEPT !.value = u[i].body, !.name = NameAnchor(i, Places(u)[i]),
                                              !.nodes = BodyAnchors(i, Places(u)[i], u[i].body)]
                    ELSE out.terms[i]]
  OBVIOUS
<1>5. PICK groups, scopes, source :
         /\ groups = Regrouped(c, Updated(c, u).refs)
         /\ scopes = ScopesAfter(c, u, edited) /\ source = SourceAfter(c, u, edited)
  OBVIOUS
<1>6. PICK new : new = [out EXCEPT !.terms = terms, !.groups = groups, !.scopes = scopes, !.source = source]
  OBVIOUS
<1>7. Updated(c, u).output = new
  BY <1>1, <1>3, <1>4, <1>5, <1>6 DEF Updated
<1>8. new = [terms |-> terms, groups |-> groups, mut |-> out.mut, errors |-> out.errors,
             scopes |-> scopes, source |-> source]
  BY <1>2, <1>6 DEF IsProgram
<1>9. ASSUME NEW i \in Present(u)
      PROVE  terms[i] = IF i \in edited THEN UpdatedTerm(i, u, out.terms[i]) ELSE out.terms[i]
  <2>1. PICK term : term = out.terms[i] /\ IsTerm(term)
    BY <1>2
  <2>2. CASE i \in edited
    <3>1. PICK after : after = [term EXCEPT !.value = u[i].body, !.name = NameAnchor(i, Places(u)[i]),
                                            !.nodes = BodyAnchors(i, Places(u)[i], u[i].body)]
      OBVIOUS
    <3>2. after = UpdatedTerm(i, u, term)
      BY <2>1, <3>1 DEF IsTerm, UpdatedTerm
    <3>3. terms[i] = after
      BY <1>2, <1>4, <2>1, <2>2, <3>1
    <3> QED
      BY <2>1, <2>2, <3>2, <3>3
  <2>3. CASE i \notin edited
    BY <1>2, <1>4, <2>3
  <2> QED
    BY <2>2, <2>3
<1>10. ASSUME NEW i \in Present(u) PROVE IsTerm(terms[i])
  <2>1. IsTerm(UpdatedTerm(i, u, out.terms[i]))
    BY DEF IsTerm, UpdatedTerm
  <2> QED
    BY <1>2, <1>9, <2>1
<1>11. DOMAIN terms = Present(u)
  BY <1>2, <1>4
<1>12. IsProgram(new)
  BY <1>8, <1>10, <1>11 DEF IsProgram
<1>13. /\ Updated(c, u).refs = ReferencesIn(u) /\ Updated(c, u).muts = UsesOfMut(u)
       /\ Updated(c, u).aliases = [i \in Present(u) |-> Links(i, u[i].body)]
  BY EditIsClean
<1>14. PICK up : up = Updated(c, u)
  OBVIOUS
<1>15. /\ up = [text |-> up.text, output |-> up.output, rigids |-> up.rigids, muts |-> up.muts,
                refs |-> up.refs, aliases |-> up.aliases]
       /\ up.text = u /\ up.rigids = c.rigids
  BY <1>14 DEF Updated
<1>16. up = [text |-> u, output |-> new, rigids |-> c.rigids, muts |-> UsesOfMut(u),
             refs |-> ReferencesIn(u), aliases |-> [i \in Present(u) |-> Links(i, u[i].body)]]
  BY <1>7, <1>13, <1>14, <1>15
<1>17. groups = Regrouped(c, ReferencesIn(u))
  BY <1>5, <1>13
<1>18. /\ new.terms = terms /\ new.groups = groups /\ new.mut = out.mut /\ new.errors = out.errors
  BY <1>8
<1> QED
  BY <1>3, <1>9, <1>11, <1>12, <1>14, <1>16, <1>17, <1>18

\* A cache that follows an edit is the cache of the edited text: its program is
\* what the ordinary builder would make, and what was not edited stays.
LEMMA UpdateIsCurrent ==
  ASSUME NEW c, NEW t, NEW out, NEW u \in AllTexts, IsCache(c, t, out), Reusable(c, u)
  PROVE  \E new : /\ Updated(c, u).output = new
                  /\ IsCache(Updated(c, u), u, new)
                  /\ \A i \in Present(u) \ ChangedBodies(t, u) : new.terms[i] = out.terms[i]
<1>1. PICK new :
        /\ Updated(c, u) = [text |-> u, output |-> new, rigids |-> c.rigids, muts |-> UsesOfMut(u),
                            refs |-> ReferencesIn(u), aliases |-> [i \in Present(u) |-> Links(i, u[i].body)]]
        /\ IsProgram(new) /\ DOMAIN new.terms = Present(u)
        /\ \A i \in Present(u) : new.terms[i] = IF i \in ChangedBodies(t, u)
                                                THEN UpdatedTerm(i, u, out.terms[i]) ELSE out.terms[i]
        /\ new.groups = Regrouped(c, ReferencesIn(u))
        /\ new.mut = out.mut /\ new.errors = out.errors
  BY UpdatedProgram
<1>2. /\ Present(t) = Present(u) /\ \A i \in Present(u) : t[i].h = u[i].h
      /\ Clean(t) /\ Clean(u) /\ t \in AllTexts
  <2>1. Clean(t) /\ Clean(u)
    BY EditIsClean
  <2>2. t \in AllTexts
    BY DEF IsCache
  <2> QED
    BY <2>1, <2>2, EditKeepsHeaders
<1>3. \A i \in Present(u) : RigidStart(t, i) = RigidStart(u, i) /\ RigidsOf(t[i]) = RigidsOf(u[i])
  BY EditKeepsRanges
<1>4. Updated(c, u) = Snapshot(u, new)
  <2>1. c.rigids = RangesOf(u)
    BY <1>2, <1>3, CacheRanges DEF RangesOf
  <2> QED
    BY <1>1, <2>1 DEF Snapshot, UsesOfMut, ReferencesIn, RangesOf
<1>5. ASSUME NEW i \in Present(u) PROVE Code(new.terms[i]) = Code(Build(u).terms[i])
  <2>1. PICK was, now : was = Build(t).terms[i] /\ now = Build(u).terms[i]
    OBVIOUS
  <2>2. /\ was = Term(i, t[i], Places(t)[i], t[i].body, RigidStart(t, i))
        /\ now = Term(i, u[i], Places(u)[i], u[i].body, RigidStart(u, i))
    BY <1>2, <2>1, CleanBuild
  <2>3. PICK term : term = out.terms[i] /\ Code(term) = Code(was)
    BY <1>2, <2>1 DEF IsCache, Says
  <2>4. t[i].h = u[i].h /\ RigidStart(t, i) = RigidStart(u, i)
    BY <1>2, <1>3
  <2>5. term.h = t[i].h /\ term.rigid = RigidStart(t, i)
    BY <2>2, <2>3 DEF Code, Term
  <2>6. CASE i \in ChangedBodies(t, u)
    <3>1. new.terms[i] = UpdatedTerm(i, u, term)
      BY <1>1, <2>3, <2>6
    <3>2. Code(UpdatedTerm(i, u, term)) = Code(now)
      BY <2>2, <2>4, <2>5 DEF Code, UpdatedTerm, Term
    <3> QED
      BY <2>1, <3>1, <3>2
  <2>7. CASE i \notin ChangedBodies(t, u)
    <3>1. t[i].body = u[i].body
      BY <2>7 DEF ChangedBodies
    <3>2. NameAnchor(i, Places(t)[i]) = NameAnchor(i, Places(u)[i])
      BY <1>2, NameStands
    <3>3. BodyAnchors(i, Places(t)[i], t[i].body) = BodyAnchors(i, Places(u)[i], u[i].body)
      <4>1. PICK b, h : b = u[i].body /\ h = u[i].h /\ b = t[i].body /\ h = t[i].h
        BY <2>4, <3>1
      <4>2. BodyAnchors(i, Places(t)[i], t[i].body) =
              [n \in DOMAIN Nodes(b) |-> [of |-> i, node |-> <<1 + h + Nodes(b)[n][1], Nodes(b)[n][2]>>]]
        BY <1>2, <4>1, BodyStands
      <4>3. BodyAnchors(i, Places(u)[i], u[i].body) =
              [n \in DOMAIN Nodes(b) |-> [of |-> i, node |-> <<1 + h + Nodes(b)[n][1], Nodes(b)[n][2]>>]]
        BY <4>1, BodyStands
      <4> QED
        BY <4>2, <4>3
    <3>4. Code(was) = Code(now)
      BY <2>2, <2>4, <3>1, <3>2, <3>3 DEF Code, Term
    <3> QED
      BY <1>1, <2>1, <2>3, <2>7, <3>4
  <2> QED
    BY <2>6, <2>7
<1>6. new.groups = Build(u).groups
  <2>1. Build(u).groups = Grouping(ReferencesIn(u)) /\ Build(t).groups = Grouping(ReferencesIn(t))
    BY <1>2, CleanBuild
  <2>2. out.groups = Grouping(ReferencesIn(t))
    BY <2>1 DEF IsCache, Says
  <2>3. c.refs = ReferencesIn(t) /\ c.output.groups = Grouping(ReferencesIn(t))
    BY <2>2, CacheFields
  <2> QED
    BY <1>1, <2>1, <2>3 DEF Regrouped
<1>7. new.mut = Build(u).mut
  BY <1>1, EditKeepsMut
<1>8. new.errors = {} /\ Build(u).errors = {}
  BY <1>1, <1>2, ErrorsAreUnclean DEF IsCache
<1>9. IsCache(Updated(c, u), u, new)
  BY <1>1, <1>4, <1>5, <1>6, <1>7, <1>8 DEF IsCache, Says
<1>10. Updated(c, u).output = new
  BY <1>1
<1> QED
  BY <1>1, <1>9, <1>10

-----------------------------------------------------------------------------
(* The inductive invariant.                                                *)

\* What inference was given is the program.
AreOf(given, heads, out) ==
  /\ DOMAIN given = out.groups
  /\ \A g \in DOMAIN given : \A i \in g : Code(given[g][i]) = Code(out.terms[i])
  /\ heads = [i \in DOMAIN out.terms |-> out.terms[i].h]

\* It is, of every group in which these definitions are not.
AreOfTheRest(given, heads, out, these) ==
  /\ \A g \in DOMAIN given : g \in out.groups /\ g \cap these = {} =>
       \A i \in g : Code(given[g][i]) = Code(out.terms[i])
  /\ heads = [i \in DOMAIN out.terms |-> out.terms[i].h]

TextsAreWritten == habit \in Habits /\ text \in AllTexts /\ lowered \in AllTexts

CacheIsCurrent == cached # None => IsCache(cached, lowered, output)

PhasesFollow ==
  /\ phase \in {"idle", "lowered"} /\ behind \in 0 .. 2 /\ (phase = "lowered" => behind # 0)
  /\ changed = All \/ changed \subseteq Present(lowered)

\* While inference is not behind, it has read what was lowered, if anything was.
\* Where it is one generation behind and is told what changed, the rest of what
\* it has read still is the program.
NothingIsMissed ==
  /\ phase = "idle" /\ behind = 0 => \/ AreOf(inputs, header, output)
                                     \/ cached = None /\ lowered = [i \in Defs |-> Absent]
  /\ phase = "lowered" /\ behind = 1 /\ changed # All => AreOfTheRest(inputs, header, output, changed)

LoweringInv ==
  /\ TextsAreWritten
  /\ Says(output, lowered)
  /\ CacheIsCurrent
  /\ PhasesFollow
  /\ NothingIsMissed

LEMMA HabitsAreWritten ==
  ASSUME NEW x \in Habits
  PROVE  /\ x.defs \subseteq Defs /\ x.headers \subseteq {None, 1, 2} /\ x.gaps \subseteq Nat
         /\ x.bodies \subseteq Bodies
BY TextAssumption DEF TextAssumption, Bodies

LEMMA WrittenDefinition ==
  ASSUME NEW h \in {None, 1, 2}, NEW b \in Bodies
  PROVE  Written(h, b) \in Definitions
BY DEF Written, Definitions

LEMMA NothingWritten ==
  ASSUME NEW t, t = [i \in Defs |-> Absent]
  PROVE  t \in AllTexts /\ Says(Nothing, t)
<1>1. t \in AllTexts
  BY AbsentIsWritten DEF AllTexts
<1>2. Present(t) = {}
  BY DEF Present, Absent, Written
<1>3. Build(t).groups = {}
  <2>1. Clean(t)
    BY <1>2 DEF Clean
  <2>2. SUFFICES ASSUME NEW g \in Grouping(ReferencesIn(t)) PROVE FALSE
    BY <2>1, CleanBuild
  <2>3. DOMAIN ReferencesIn(t) = {}
    BY <1>2 DEF ReferencesIn
  <2> QED
    BY <2>3 DEF Grouping
<1>4. Build(t).mut = FALSE
  <2>1. MutsIn(UsesOfMut(t)) = 0
    BY <1>1, <1>2, UsesAreCounted
  <2>2. (MutsIn(UsesOfMut(t)) > 0) = FALSE
    BY <2>1
  <2> QED
    BY <2>2, BuildIsOf
<1>5. Build(t).errors = {}
  BY <1>2, BuildIsOf
<1>6. DOMAIN Nothing.terms = {}
  BY DEF Nothing
<1> QED
  BY <1>1, <1>2, <1>3, <1>4, <1>5, <1>6 DEF Says, Nothing

LEMMA InvInit == Init => LoweringInv
<1> SUFFICES ASSUME Init PROVE LoweringInv
  OBVIOUS
<1>1. text \in AllTexts
  <2>1. PICK b \in [habit.defs -> habit.bodies] :
          text = [i \in Defs |-> IF i \in habit.defs THEN Written(1, b[i]) ELSE Absent]
    BY DEF Init
  <2>2. \A i \in habit.defs : b[i] \in Bodies
    BY HabitsAreWritten DEF Init
  <2>3. \A i \in habit.defs : Written(1, b[i]) \in Definitions
    BY <2>2, WrittenDefinition
  <2> QED
    BY <2>1, <2>3, AbsentIsWritten DEF AllTexts
<1>2. lowered = [i \in Defs |-> Absent] /\ output = Nothing
  BY DEF Init
<1>3. lowered \in AllTexts /\ Says(output, lowered)
  BY <1>2, NothingWritten
<1> QED
  BY <1>1, <1>2, <1>3 DEF Init, LoweringInv, TextsAreWritten, CacheIsCurrent, PhasesFollow, NothingIsMissed

LEMMA EditIsWritten ==
  ASSUME TextsAreWritten, Edit
  PROVE  text' \in AllTexts
<1>1. PICK i \in habit.defs :
        \/ \E h \in habit.headers \ {None}, b \in habit.bodies :
             text' = [text EXCEPT ![i].h = h, ![i].body = b]
        \/ None \in habit.headers /\ text' = [text EXCEPT ![i] = Absent]
        \/ text[i].h # None /\ \E n \in habit.gaps : text' = [text EXCEPT ![i].gap = n]
        \/ text[i].attr /\ \E n \in habit.gaps : text' = [text EXCEPT ![i].mid = n]
        \/ /\ i \in habit.attributes /\ text[i].h # None
           /\ text' = [text EXCEPT ![i].attr = ~@, ![i].mid = 0]
  BY DEF Edit
<1>2. /\ habit.defs \subseteq Defs /\ habit.headers \subseteq {None, 1, 2} /\ habit.gaps \subseteq Nat
      /\ habit.bodies \subseteq Bodies
  BY HabitsAreWritten DEF TextsAreWritten
<1>3. text \in [Defs -> Definitions] /\ text[i] \in Definitions /\ i \in Defs
  BY <1>1, <1>2 DEF TextsAreWritten, AllTexts
<1>4. SUFFICES text' \in [Defs -> Definitions]
  BY DEF AllTexts
<1>5. CASE \E h \in habit.headers \ {None}, b \in habit.bodies :
             text' = [text EXCEPT ![i].h = h, ![i].body = b]
  <2>1. PICK h \in habit.headers \ {None}, b \in habit.bodies :
          text' = [text EXCEPT ![i].h = h, ![i].body = b]
    BY <1>5
  <2>2. [text[i] EXCEPT !.h = h, !.body = b] \in Definitions
    BY <1>2, <1>3 DEF Definitions
  <2> QED
    BY <1>3, <2>1, <2>2
<1>6. CASE None \in habit.headers /\ text' = [text EXCEPT ![i] = Absent]
  BY <1>3, <1>6, AbsentIsWritten
<1>7. CASE text[i].h # None /\ \E n \in habit.gaps : text' = [text EXCEPT ![i].gap = n]
  <2>1. PICK n \in Nat : text' = [text EXCEPT ![i].gap = n]
    BY <1>2, <1>7
  <2>2. [text[i] EXCEPT !.gap = n] \in Definitions
    BY <1>3 DEF Definitions
  <2> QED
    BY <1>3, <2>1, <2>2
<1>8. CASE text[i].attr /\ \E n \in habit.gaps : text' = [text EXCEPT ![i].mid = n]
  <2>1. PICK n \in Nat : text' = [text EXCEPT ![i].mid = n]
    BY <1>2, <1>8
  <2>2. [text[i] EXCEPT !.mid = n] \in Definitions
    BY <1>3 DEF Definitions
  <2> QED
    BY <1>3, <2>1, <2>2
<1>9. CASE /\ i \in habit.attributes /\ text[i].h # None
           /\ text' = [text EXCEPT ![i].attr = ~@, ![i].mid = 0]
  <2>1. [text[i] EXCEPT !.attr = ~@, !.mid = 0] \in Definitions
    BY <1>3 DEF Definitions
  <2> QED
    BY <1>3, <1>9, <2>1
<1> QED
  BY <1>1, <1>5, <1>6, <1>7, <1>8, <1>9

LEMMA InvEdit ==
  ASSUME LoweringInv, Edit, UNCHANGED habit
  PROVE  LoweringInv'
<1>1. text' \in AllTexts
  BY EditIsWritten DEF LoweringInv
<1>2. UNCHANGED <<habit, lowered, cached, output, changed, phase, behind, inputs, header>>
  BY DEF Edit
<1> QED
  BY <1>1, <1>2 DEF LoweringInv, TextsAreWritten, CacheIsCurrent, PhasesFollow, NothingIsMissed

\* What inference has read of a program that an edit is followed in is still
\* of the program, where nothing was lowered anew.
LEMMA InputsStand ==
  ASSUME NEW c, NEW t, NEW out, NEW u \in AllTexts, IsCache(c, t, out), Reusable(c, u),
         NEW new, IsCache(Updated(c, u), u, new),
         \A i \in Present(u) \ ChangedBodies(t, u) : new.terms[i] = out.terms[i],
         NEW given, NEW heads, AreOf(given, heads, out)
  PROVE  AreOfTheRest(given, heads, new, ChangedBodies(t, u))
<1>1. Present(t) = Present(u) /\ \A i \in Present(u) : t[i].h = u[i].h
  BY EditKeepsHeaders
<1>2. DOMAIN out.terms = Present(u) /\ DOMAIN new.terms = Present(u)
  BY <1>1 DEF IsCache, Says
<1>3. ASSUME NEW i \in Present(u) PROVE out.terms[i].h = t[i].h
  <2>1. PICK value : Build(t).terms[i] = Term(i, t[i], Places(t)[i], value, RigidStart(t, i))
    BY <1>1, BuildIsOf
  <2>2. Code(out.terms[i]) = Code(Build(t).terms[i])
    BY <1>1 DEF IsCache, Says
  <2> QED
    BY <2>1, <2>2 DEF Code, Term
<1>4. ASSUME NEW i \in Present(u) PROVE new.terms[i].h = u[i].h
  <2>1. PICK value : Build(u).terms[i] = Term(i, u[i], Places(u)[i], value, RigidStart(u, i))
    BY BuildIsOf
  <2>2. Code(new.terms[i]) = Code(Build(u).terms[i])
    BY DEF IsCache, Says
  <2> QED
    BY <2>1, <2>2 DEF Code, Term
<1>5. heads = [i \in DOMAIN new.terms |-> new.terms[i].h]
  BY <1>1, <1>2, <1>3, <1>4 DEF AreOf
<1>6. ASSUME NEW g \in DOMAIN given, g \in new.groups, g \cap ChangedBodies(t, u) = {}, NEW i \in g
      PROVE  Code(given[g][i]) = Code(new.terms[i])
  <2>1. Clean(u)
    BY EditIsClean
  <2>2. g \in Grouping(ReferencesIn(u))
    BY <1>6, <2>1, CleanBuild DEF IsCache, Says
  <2>3. i \in Present(u) \ ChangedBodies(t, u)
    BY <1>6, <2>2, ReferencesAreGrouped
  <2> QED
    BY <1>6, <2>3 DEF AreOf
<1> QED
  BY <1>5, <1>6 DEF AreOfTheRest

LEMMA InvLower ==
  ASSUME LoweringInv, Lower, UNCHANGED habit
  PROVE  LoweringInv'
<1>1. /\ lowered' = text /\ phase' = "lowered" /\ text' = text /\ text \in AllTexts
      /\ UNCHANGED <<habit, inputs, header>>
  BY DEF Lower, LoweringInv, TextsAreWritten
<1>2. behind \in 0 .. 2 /\ behind' \in 1 .. 2 /\ (behind' = 1 => behind = 0) /\ phase = "idle"
  BY DEF Lower, NextGeneration, LoweringInv, PhasesFollow
<1>3. TextsAreWritten'
  BY <1>1 DEF LoweringInv, TextsAreWritten
<1>4. CASE Reusable(cached, text)
  <2>1. /\ cached' = Updated(cached, text) /\ output' = Updated(cached, text).output
        /\ changed' = ChangedBodies(cached.text, text)
    BY <1>4 DEF Lower
  <2>2. cached # None
    BY <1>4 DEF Reusable
  <2>3. IsCache(cached, lowered, output)
    BY <2>2 DEF LoweringInv, CacheIsCurrent
  <2>4. cached.text = lowered
    BY <2>3, CacheFields
  <2>5. PICK new : /\ Updated(cached, text).output = new
                   /\ IsCache(Updated(cached, text), text, new)
                   /\ \A i \in Present(text) \ ChangedBodies(lowered, text) : new.terms[i] = output.terms[i]
    BY <1>1, <1>4, <2>3, UpdateIsCurrent
  <2>6. output' = new /\ IsCache(cached', lowered', output')
    BY <1>1, <2>1, <2>5
  <2>7. Says(output', lowered')
    BY <2>6 DEF IsCache
  <2>8. PhasesFollow'
    BY <1>1, <1>2, <2>1 DEF PhasesFollow, ChangedBodies
  <2>9. ASSUME behind' = 1 PROVE AreOfTheRest(inputs', header', output', changed')
    <3>1. AreOf(inputs, header, output)
      BY <1>2, <2>2, <2>9 DEF LoweringInv, NothingIsMissed
    <3>2. AreOfTheRest(inputs, header, new, ChangedBodies(lowered, text))
      BY <1>1, <1>4, <2>3, <2>5, <3>1, InputsStand
    <3> QED
      BY <1>1, <2>1, <2>4, <2>6, <3>2
  <2>10. NothingIsMissed'
    BY <1>1, <2>9 DEF NothingIsMissed
  <2> QED
    BY <1>3, <2>6, <2>7, <2>8, <2>10 DEF LoweringInv, CacheIsCurrent
<1>5. CASE ~Reusable(cached, text)
  <2>1. PICK out : out = Build(text)
    OBVIOUS
  <2>2. /\ output' = out /\ changed' = All
        /\ cached' = IF out.errors = {} THEN Snapshot(text, out) ELSE None
    BY <1>5, <2>1 DEF Lower
  <2>3. IsProgram(out) /\ Says(out, text)
    BY <2>1, BuildIsAProgram
  <2>4. Says(output', lowered')
    BY <1>1, <2>2, <2>3
  <2>5. CacheIsCurrent'
    <3>1. SUFFICES ASSUME cached' # None PROVE IsCache(cached', lowered', output')
      BY DEF CacheIsCurrent
    <3>2. cached' = Snapshot(text, out) /\ out.errors = {}
      BY <2>2, <3>1
    <3> QED
      BY <1>1, <2>2, <2>3, <3>2 DEF IsCache
  <2>6. PhasesFollow'
    BY <1>1, <1>2, <2>2 DEF PhasesFollow
  <2>7. NothingIsMissed'
    BY <1>1, <2>2 DEF NothingIsMissed
  <2> QED
    BY <1>3, <2>4, <2>5, <2>6, <2>7 DEF LoweringInv
<1> QED
  BY <1>4, <1>5

LEMMA InvCancelLowering ==
  ASSUME LoweringInv, CancelLowering, UNCHANGED habit
  PROVE  LoweringInv'
<1>1. /\ UNCHANGED <<habit, text, lowered, cached, output, changed, phase, inputs, header>>
      /\ phase = "idle" /\ behind' \in 1 .. 2
  BY DEF CancelLowering, NextGeneration, LoweringInv, PhasesFollow
<1> QED
  BY <1>1 DEF LoweringInv, TextsAreWritten, CacheIsCurrent, PhasesFollow, NothingIsMissed

LEMMA InferencePrepares ==
  ASSUME LoweringInv, phase = "lowered"
  PROVE  AreOf(Prepared(output, Reported), PreparedHeader(output, Reported), output)
<1>1. PICK only : only = Reported
  OBVIOUS
<1>2. only # All => AreOfTheRest(inputs, header, output, only)
  BY <1>1 DEF Reported, LoweringInv, NothingIsMissed
<1>3. PICK given : given = Prepared(output, only)
  OBVIOUS
<1>4. DOMAIN given = output.groups
  BY <1>3 DEF Prepared
<1>5. ASSUME NEW g \in output.groups, NEW i \in g PROVE Code(given[g][i]) = Code(output.terms[i])
  <2>1. CASE only # All /\ g \cap only = {} /\ g \in DOMAIN inputs
    <3>1. given[g] = inputs[g]
      BY <1>3, <2>1 DEF Prepared
    <3> QED
      BY <1>2, <1>5, <2>1, <3>1 DEF AreOfTheRest
  <2>2. CASE ~(only # All /\ g \cap only = {} /\ g \in DOMAIN inputs)
    <3>1. given[g] = [j \in g |-> output.terms[j]]
      BY <1>3, <2>2 DEF Prepared
    <3> QED
      BY <1>5, <3>1
  <2> QED
    BY <2>1, <2>2
<1>6. PreparedHeader(output, only) = [i \in DOMAIN output.terms |-> output.terms[i].h]
  BY <1>2 DEF PreparedHeader, AreOfTheRest
<1> QED
  BY <1>1, <1>3, <1>4, <1>5, <1>6 DEF AreOf

LEMMA InvInfer ==
  ASSUME LoweringInv, Infer, UNCHANGED habit
  PROVE  LoweringInv'
<1>1. /\ UNCHANGED <<habit, text, lowered, cached, output>> /\ phase = "lowered"
      /\ phase' = "idle" /\ changed' = All /\ behind' \in {0, behind}
      /\ inputs' = Prepared(output, Reported) /\ header' = PreparedHeader(output, Reported)
  BY DEF Infer
<1>2. AreOf(inputs', header', output')
  BY <1>1, InferencePrepares
<1>3. PhasesFollow'
  BY <1>1 DEF LoweringInv, PhasesFollow
<1> QED
  BY <1>1, <1>2, <1>3 DEF LoweringInv, TextsAreWritten, CacheIsCurrent, NothingIsMissed

LEMMA InvCancelInference ==
  ASSUME LoweringInv, CancelInference, UNCHANGED habit
  PROVE  LoweringInv'
<1>1. /\ UNCHANGED <<habit, text, lowered, cached, output, behind, inputs, header>>
      /\ phase = "lowered" /\ phase' = "idle" /\ changed' = All
  BY DEF CancelInference
<1> QED
  BY <1>1 DEF LoweringInv, TextsAreWritten, CacheIsCurrent, PhasesFollow, NothingIsMissed

LEMMA InvNext == LoweringInv /\ [Next]_vars => LoweringInv'
<1> SUFFICES ASSUME LoweringInv, [Next]_vars PROVE LoweringInv'
  OBVIOUS
<1>1. CASE Edit /\ UNCHANGED habit
  BY <1>1, InvEdit
<1>2. CASE Lower /\ UNCHANGED habit
  BY <1>2, InvLower
<1>3. CASE CancelLowering /\ UNCHANGED habit
  BY <1>3, InvCancelLowering
<1>4. CASE Infer /\ UNCHANGED habit
  BY <1>4, InvInfer
<1>5. CASE CancelInference /\ UNCHANGED habit
  BY <1>5, InvCancelInference
<1>6. CASE UNCHANGED vars
  BY <1>6 DEF vars, state, LoweringInv, TextsAreWritten, CacheIsCurrent, PhasesFollow, NothingIsMissed
<1> QED
  BY <1>1, <1>2, <1>3, <1>4, <1>5, <1>6 DEF Next

LEMMA Invariant == Spec => []LoweringInv
BY InvInit, InvNext, PTL DEF Spec

-----------------------------------------------------------------------------
(* The layout of a text.                                                   *)

\* One more is added.
LEMMA SumNext ==
  ASSUME NEW f, NEW n \in Nat
  PROVE  SumTo(f, n + 1) = SumTo(f, n) + f[n + 1]
<1>1. PICK g : g = (CHOOSE s : Sums(s, f, n)) /\ SumTo(f, n) = g[n]
  BY SumIsLast
<1>2. PICK h : h = (CHOOSE s : Sums(s, f, n + 1)) /\ SumTo(f, n + 1) = h[n + 1]
  BY SumIsLast
<1>3. Sums(g, f, n)
  BY <1>1, SumsAre
<1>4. Sums(h, f, n + 1)
  BY <1>2, SumsAre
<1>5. \A k \in 0 .. n : g[k] = IF k = 0 THEN 0 ELSE g[k - 1] + f[k]
  BY <1>3 DEF Sums
<1>6. \A k \in 0 .. n + 1 : h[k] = IF k = 0 THEN 0 ELSE h[k - 1] + f[k]
  BY <1>4 DEF Sums
<1>7. PICK S : S = {k \in Nat : k \in 0 .. n => g[k] = h[k]}
  OBVIOUS
<1>8. 0 \in S
  BY <1>5, <1>6, <1>7
<1>9. ASSUME NEW k \in S PROVE k + 1 \in S
  <2>1. CASE k + 1 \in 0 .. n
    BY <1>5, <1>6, <1>7, <2>1
  <2> QED
    BY <1>7, <2>1
<1>10. g[n] = h[n]
  BY <1>7, <1>8, <1>9, Inductively
<1>11. h[n + 1] = h[n] + f[n + 1]
  BY <1>6
<1> QED
  BY <1>1, <1>2, <1>10, <1>11

\* What comes before is no more than what comes after.
LEMMA SumGrows ==
  ASSUME NEW f, NEW n \in Nat, \A k \in 1 .. n : f[k] \in Nat, NEW m \in 1 .. n
  PROVE  SumTo(f, m - 1) + f[m] <= SumTo(f, n)
<1>1. PICK S : S = {k \in Nat : k \in m .. n => SumTo(f, m - 1) + f[m] <= SumTo(f, k)}
  OBVIOUS
<1>2. ASSUME NEW k \in 0 .. n PROVE SumTo(f, k) \in Nat
  BY SumBounds
<1>3. SumTo(f, m) = SumTo(f, m - 1) + f[m]
  <2>1. m - 1 \in Nat /\ (m - 1) + 1 = m
    OBVIOUS
  <2> QED
    BY <2>1, SumNext
<1>4. 0 \in S
  BY <1>1
<1>5. ASSUME NEW k \in S PROVE k + 1 \in S
  <2>1. SUFFICES ASSUME k + 1 \in m .. n PROVE SumTo(f, m - 1) + f[m] <= SumTo(f, k + 1)
    BY <1>1
  <2>2. CASE k + 1 = m
    <3>1. SumTo(f, m) \in Nat
      BY <1>2
    <3> QED
      BY <1>3, <2>2, <3>1
  <2>3. CASE k + 1 # m
    <3>1. k \in m .. n /\ k \in Nat
      BY <1>1, <2>1, <2>3
    <3>2. SumTo(f, m - 1) + f[m] <= SumTo(f, k)
      BY <1>1, <3>1
    <3>3. SumTo(f, k + 1) = SumTo(f, k) + f[k + 1]
      BY <3>1, SumNext
    <3>4. SumTo(f, k) \in Nat /\ f[k + 1] \in Nat /\ SumTo(f, m - 1) + f[m] \in Nat
      <4>1. SumTo(f, k) \in Nat /\ SumTo(f, m - 1) \in Nat
        BY <1>2, <3>1
      <4> QED
        BY <2>1, <4>1
    <3> QED
      BY <3>2, <3>3, <3>4
  <2> QED
    BY <2>2, <2>3
<1>6. n \in S
  BY <1>1, <1>4, <1>5, Inductively
<1> QED
  BY <1>1, <1>6

\* Where a definition is written, from its attribute to its end.
LEMMA DefinitionLies ==
  ASSUME NEW t \in AllTexts, NEW i \in Present(t)
  PROVE  \E p : /\ p = Places(t)[i]
                /\ p.attr \in Nat /\ p.let \in Nat /\ p.name \in Nat /\ p.body \in Nat /\ p.end \in Nat
                /\ IF t[i].attr THEN p.attr + AttributeWidth < p.let ELSE p.let = p.attr
                /\ p.name = p.let + 1 /\ p.name < p.body
                /\ p.end = p.body + t[i].body.width /\ t[i].body.width \in Nat \ {0}
<1>1. PICK p, d : p = Places(t)[i] /\ d = t[i]
  OBVIOUS
<1>2. i \in Defs /\ d \in Definitions /\ d.h # None /\ d.gap \in Nat /\ d.mid \in Nat /\ d.body \in Bodies
  BY <1>1 DEF Present, AllTexts, Definitions
<1>3. /\ Above(t, i) \in Nat /\ LetAt(d) \in Nat /\ EndAt(d) \in Nat
      /\ HeaderWidth(d.h) = 2 + d.h /\ d.h \in {1, 2}
  BY <1>2, AboveIsNatural, WidthsAreNatural
<1>4. PICK width \in Nat \ {0} : width = d.body.width
  BY <1>2, BodiesAreSized
<1>5. PICK from \in Nat : from = Above(t, i) + d.gap
  BY <1>2, <1>3
<1>6. PICK let \in Nat : let = from + LetAt(d)
  BY <1>3
<1>7. p = [attr |-> from, let |-> let, name |-> let + 1, body |-> let + HeaderWidth(d.h),
           end |-> from + EndAt(d)]
  BY <1>1, <1>5, <1>6 DEF Places
<1>8. EndAt(d) = LetAt(d) + HeaderWidth(d.h) + width
  BY <1>4 DEF EndAt
<1>9. /\ p.attr = from /\ p.let = let /\ p.name = let + 1 /\ p.body = let + 2 + d.h
      /\ p.end = let + 2 + d.h + width
  BY <1>3, <1>6, <1>7, <1>8
<1>10. IF d.attr THEN LetAt(d) = 2 + 1 + d.mid ELSE LetAt(d) = 0
  BY DEF LetAt, AttributeWidth
<1>11. IF d.attr THEN from + AttributeWidth < let ELSE let = from
  BY <1>2, <1>6, <1>10 DEF AttributeWidth
<1> QED
  BY <1>1, <1>3, <1>4, <1>9, <1>11

\* The definitions of a file are written one after another.
LEMMA DefinitionsAreApart ==
  ASSUME NEW t \in AllTexts, NEW i \in Present(t), NEW j \in Present(t), i < j, FileOf[i] = FileOf[j]
  PROVE  Places(t)[i].end < Places(t)[j].attr
<1>1. PICK f : f = [k \in Defs |-> IF FileOf[k] = FileOf[i] /\ t[k].h # None
                                   THEN t[k].gap + EndAt(t[k]) + 1 ELSE 0]
  OBVIOUS
<1>2. i \in Defs /\ j \in Defs /\ t[i].h # None /\ t[j].gap \in Nat /\ t[i].gap \in Nat /\ t[i] \in Definitions
  BY DEF Present, AllTexts, Definitions
<1>3. ASSUME NEW k \in Defs PROVE f[k] \in Nat
  <2>1. t[k] \in Definitions /\ t[k].gap \in Nat
    BY DEF AllTexts, Definitions
  <2>2. t[k].h # None => EndAt(t[k]) \in Nat
    BY <2>1, WidthsAreNatural
  <2> QED
    BY <1>1, <2>1, <2>2
<1>4. Above(t, i) = SumTo(f, i - 1)
  BY <1>1 DEF Above
<1>5. Above(t, j) = SumTo(f, j - 1)
  BY <1>1 DEF Above
<1>6. j - 1 \in Nat /\ i \in 1 .. j - 1 /\ \A k \in 1 .. j - 1 : k \in Defs
  BY <1>2, DefsAreNumbered
<1>7. SumTo(f, i - 1) + f[i] <= SumTo(f, j - 1)
  BY <1>3, <1>6, SumGrows
<1>8. f[i] = t[i].gap + EndAt(t[i]) + 1
  BY <1>1, <1>2
<1>9. Places(t)[i].end = Above(t, i) + t[i].gap + EndAt(t[i])
  BY DEF Places
<1>10. Places(t)[j].attr = Above(t, j) + t[j].gap
  BY DEF Places
<1>11. Above(t, i) \in Nat /\ Above(t, j) \in Nat /\ EndAt(t[i]) \in Nat
  BY <1>2, AboveIsNatural, WidthsAreNatural
<1> QED
  BY <1>2, <1>4, <1>5, <1>7, <1>8, <1>9, <1>10, <1>11

-----------------------------------------------------------------------------
(* Sequences one after another.                                            *)

\* The partial sequences that FlattenSeq is the last of.
Flattens(g, s, n) == g = [k \in 1 .. n |-> IF k = 1 THEN s[k] ELSE g[k - 1] \o s[k]]

LEMMA FlatIsLast ==
  ASSUME NEW s, Len(s) # 0
  PROVE  \E g : g = (CHOOSE x : Flattens(x, s, Len(s))) /\ FlattenSeq(s) = g[Len(s)]
BY DEF FlattenSeq, Flattens

LEMMA FlattensAre ==
  ASSUME NEW s
  PROVE  \A n \in Nat : \E g : Flattens(g, s, n)
<1>1. PICK S : S = {n \in Nat : \E g : Flattens(g, s, n)}
  OBVIOUS
<1>2. 0 \in S
  <2>1. PICK g : g = [k \in 1 .. 0 |-> s[k]]
    OBVIOUS
  <2>2. Flattens(g, s, 0)
    BY <2>1 DEF Flattens
  <2> QED
    BY <1>1, <2>2
<1>3. ASSUME NEW n \in S PROVE n + 1 \in S
  <2>1. PICK g : Flattens(g, s, n)
    BY <1>1
  <2>2. PICK h : h = [k \in 1 .. n + 1 |-> IF k \in 1 .. n THEN g[k]
                                           ELSE IF k = 1 THEN s[k] ELSE g[n] \o s[k]]
    OBVIOUS
  <2>3. n \in Nat
    BY <1>1
  <2>4. ASSUME NEW k \in 1 .. n + 1 PROVE h[k] = IF k = 1 THEN s[k] ELSE h[k - 1] \o s[k]
    <3>1. CASE k \in 1 .. n
      <4>1. h[k] = g[k] /\ g[k] = IF k = 1 THEN s[k] ELSE g[k - 1] \o s[k]
        BY <2>1, <2>2, <3>1 DEF Flattens
      <4>2. k # 1 => h[k - 1] = g[k - 1]
        BY <2>2, <2>3, <3>1
      <4> QED
        BY <4>1, <4>2
    <3>2. CASE k = n + 1
      <4>1. h[k] = IF k = 1 THEN s[k] ELSE g[n] \o s[k]
        BY <2>2, <2>3, <3>2
      <4>2. k # 1 => h[k - 1] = g[n]
        BY <2>2, <2>3, <3>2
      <4> QED
        BY <4>1, <4>2
    <3> QED
      BY <2>3, <3>1, <3>2
  <2>5. h = [k \in 1 .. n + 1 |-> h[k]]
    BY <2>2
  <2>6. Flattens(h, s, n + 1)
    BY <2>4, <2>5 DEF Flattens
  <2> QED
    BY <1>1, <2>3, <2>6
<1>4. S = Nat
  BY <1>1, <1>2, <1>3, Inductively
<1> QED
  BY <1>1, <1>4

LEMMA FlatSteps ==
  ASSUME NEW s, NEW N \in Nat, Len(s) = N, N # 0
  PROVE  \E g : /\ FlattenSeq(s) = g[N] /\ g[1] = s[1]
                /\ \A k \in 1 .. N : k + 1 \in 1 .. N => g[k + 1] = g[k] \o s[k + 1]
<1>1. PICK g : g = (CHOOSE x : Flattens(x, s, N)) /\ FlattenSeq(s) = g[N]
  BY FlatIsLast
<1>2. Flattens(g, s, N)
  BY <1>1, FlattensAre
<1>3. \A k \in 1 .. N : g[k] = IF k = 1 THEN s[k] ELSE g[k - 1] \o s[k]
  BY <1>2 DEF Flattens
<1>4. ASSUME NEW k \in 1 .. N, k + 1 \in 1 .. N PROVE g[k + 1] = g[k] \o s[k + 1]
  <2>1. k + 1 # 1 /\ (k + 1) - 1 = k
    OBVIOUS
  <2> QED
    BY <1>3, <1>4, <2>1
<1>5. g[1] = s[1]
  BY <1>3
<1> QED
  BY <1>1, <1>4, <1>5

\* Element by element, two sequences hold what the first n of two lists of
\* sequences hold.
Zipped(a, b, s, u, n) ==
  /\ Len(a) = Len(b)
  /\ \A m \in 1 .. Len(a) : \E i \in 1 .. n : \E k \in 1 .. Len(s[i]) : a[m] = s[i][k] /\ b[m] = u[i][k]
  /\ \A i \in 1 .. n : \A k \in 1 .. Len(s[i]) : \E m \in 1 .. Len(a) : a[m] = s[i][k] /\ b[m] = u[i][k]

LEMMA Appended ==
  ASSUME NEW T, NEW a \in Seq(T), NEW b \in Seq(T)
  PROVE  /\ a \o b \in Seq(T) /\ Len(a \o b) = Len(a) + Len(b)
         /\ \A m \in 1 .. Len(a) : (a \o b)[m] = a[m]
         /\ \A k \in 1 .. Len(b) : (a \o b)[Len(a) + k] = b[k]
OBVIOUS

LEMMA ZippedLonger ==
  ASSUME NEW T, NEW n \in Nat, NEW s, NEW u, NEW a \in Seq(T), NEW b \in Seq(T),
         s[n + 1] \in Seq(T), u[n + 1] \in Seq(T),
         \A i \in 1 .. n + 1 : Len(s[i]) = Len(u[i]), Zipped(a, b, s, u, n)
  PROVE  /\ a \o s[n + 1] \in Seq(T) /\ b \o u[n + 1] \in Seq(T)
         /\ Zipped(a \o s[n + 1], b \o u[n + 1], s, u, n + 1)
<1>1. PICK x, y : x = s[n + 1] /\ y = u[n + 1] /\ x \in Seq(T) /\ y \in Seq(T)
  OBVIOUS
<1>2. PICK ax : ax = a \o x
  OBVIOUS
<1>3. PICK bx : bx = b \o y
  OBVIOUS
<1>4. /\ ax \in Seq(T) /\ Len(ax) = Len(a) + Len(x)
      /\ \A m \in 1 .. Len(a) : ax[m] = a[m]
      /\ \A k \in 1 .. Len(x) : ax[Len(a) + k] = x[k]
  BY <1>1, <1>2, Appended
<1>5. /\ bx \in Seq(T) /\ Len(bx) = Len(b) + Len(y)
      /\ \A m \in 1 .. Len(b) : bx[m] = b[m]
      /\ \A k \in 1 .. Len(y) : bx[Len(b) + k] = y[k]
  BY <1>1, <1>3, Appended
<1>6. /\ Len(a) = Len(b) /\ Len(x) = Len(y) /\ Len(a) \in Nat /\ Len(x) \in Nat
      /\ Len(ax) = Len(a) + Len(x) /\ Len(ax) = Len(bx)
  <2>1. n + 1 \in 1 .. n + 1
    OBVIOUS
  <2>2. Len(x) = Len(y)
    BY <1>1, <2>1
  <2>3. Len(a) = Len(b)
    BY DEF Zipped
  <2>4. Len(a) \in Nat /\ Len(x) \in Nat
    BY <1>1
  <2> QED
    BY <1>4, <1>5, <2>2, <2>3, <2>4
<1>7. ASSUME NEW m \in 1 .. Len(ax)
      PROVE  \E i \in 1 .. n + 1 : \E k \in 1 .. Len(s[i]) : ax[m] = s[i][k] /\ bx[m] = u[i][k]
  <2>1. CASE m \in 1 .. Len(a)
    <3>1. PICK i \in 1 .. n : \E k \in 1 .. Len(s[i]) : a[m] = s[i][k] /\ b[m] = u[i][k]
      BY <2>1 DEF Zipped
    <3>2. i \in 1 .. n + 1
      OBVIOUS
    <3> QED
      BY <1>4, <1>5, <1>6, <2>1, <3>1, <3>2
  <2>2. CASE m \notin 1 .. Len(a)
    <3>1. PICK k \in 1 .. Len(x) : m = Len(a) + k
      <4>1. m - Len(a) \in 1 .. Len(x) /\ m = Len(a) + (m - Len(a))
        BY <1>6, <2>2
      <4> QED
        BY <4>1
    <3>2. n + 1 \in 1 .. n + 1
      OBVIOUS
    <3> QED
      BY <1>1, <1>4, <1>5, <1>6, <3>1, <3>2
  <2> QED
    BY <2>1, <2>2
<1>8. ASSUME NEW i \in 1 .. n + 1, NEW k \in 1 .. Len(s[i])
      PROVE  \E m \in 1 .. Len(ax) : ax[m] = s[i][k] /\ bx[m] = u[i][k]
  <2>1. CASE i \in 1 .. n
    <3>1. PICK m \in 1 .. Len(a) : a[m] = s[i][k] /\ b[m] = u[i][k]
      BY <2>1 DEF Zipped
    <3>2. m \in 1 .. Len(ax)
      BY <1>6
    <3> QED
      BY <1>4, <1>5, <1>6, <3>1, <3>2
  <2>2. CASE i = n + 1
    <3>1. k \in 1 .. Len(x)
      BY <1>1, <2>2
    <3>2. Len(a) + k \in 1 .. Len(ax)
      BY <1>6, <3>1
    <3> QED
      BY <1>1, <1>4, <1>5, <1>6, <2>2, <3>1, <3>2
  <2> QED
    BY <2>1, <2>2
<1>9. Zipped(ax, bx, s, u, n + 1)
  BY <1>6, <1>7, <1>8 DEF Zipped
<1> QED
  BY <1>1, <1>2, <1>3, <1>4, <1>5, <1>6, <1>9

\* What is flattened side by side is side by side.
LEMMA FlatZips ==
  ASSUME NEW T, NEW N \in Nat, NEW s \in [1 .. N -> Seq(T)], NEW u \in [1 .. N -> Seq(T)],
         \A i \in 1 .. N : Len(s[i]) = Len(u[i])
  PROVE  /\ FlattenSeq(s) \in Seq(T) /\ FlattenSeq(u) \in Seq(T)
         /\ Zipped(FlattenSeq(s), FlattenSeq(u), s, u, N)
<1>1. s \in Seq(Seq(T)) /\ u \in Seq(Seq(T)) /\ Len(s) = N /\ Len(u) = N
  OBVIOUS
<1>2. CASE N = 0
  <2>1. s = <<>> /\ u = <<>>
    BY <1>2
  <2>2. FlattenSeq(s) = <<>> /\ FlattenSeq(u) = <<>>
    BY <1>1, <1>2, <2>1 DEF FlattenSeq
  <2>3. Zipped(<<>>, <<>>, s, u, N)
    BY <1>2 DEF Zipped
  <2> QED
    BY <2>2, <2>3
<1>3. CASE N # 0
  <2>1. PICK g : /\ FlattenSeq(s) = g[N] /\ g[1] = s[1]
                 /\ \A k \in 1 .. N : k + 1 \in 1 .. N => g[k + 1] = g[k] \o s[k + 1]
    BY <1>1, <1>3, FlatSteps
  <2>2. PICK h : /\ FlattenSeq(u) = h[N] /\ h[1] = u[1]
                 /\ \A k \in 1 .. N : k + 1 \in 1 .. N => h[k + 1] = h[k] \o u[k + 1]
    BY <1>1, <1>3, FlatSteps
  <2>3. PICK S : S = {n \in Nat : n \in 1 .. N => /\ g[n] \in Seq(T) /\ h[n] \in Seq(T)
                                                  /\ Zipped(g[n], h[n], s, u, n)}
    OBVIOUS
  <2>4. 0 \in S
    BY <2>3
  <2>5. ASSUME NEW n \in S PROVE n + 1 \in S
    <3>1. n \in Nat
      BY <2>3
    <3>2. CASE n = 0
      <4>1. 1 \in 1 .. N /\ s[1] \in Seq(T) /\ u[1] \in Seq(T) /\ Len(s[1]) = Len(u[1])
        BY <1>3
      <4>2. Zipped(s[1], u[1], s, u, 1)
        BY <4>1 DEF Zipped
      <4> QED
        BY <2>1, <2>2, <2>3, <3>2, <4>1, <4>2
    <3>3. CASE n + 1 \in 1 .. N /\ n # 0
      <4>1. n \in 1 .. N
        BY <3>1, <3>3
      <4>2. /\ g[n] \in Seq(T) /\ h[n] \in Seq(T)
            /\ Zipped(g[n], h[n], s, u, n)
        BY <2>3, <4>1
      <4>3. s[n + 1] \in Seq(T) /\ u[n + 1] \in Seq(T) /\ \A i \in 1 .. n + 1 : Len(s[i]) = Len(u[i])
        BY <3>3
      <4>4. PICK a, b : a = g[n] \o s[n + 1] /\ b = h[n] \o u[n + 1]
        OBVIOUS
      <4>5. /\ g[n] \o s[n + 1] \in Seq(T) /\ h[n] \o u[n + 1] \in Seq(T)
            /\ Zipped(g[n] \o s[n + 1], h[n] \o u[n + 1], s, u, n + 1)
        BY <3>1, <4>2, <4>3, ZippedLonger, Zenon
      <4>6. g[n + 1] = a /\ h[n + 1] = b
        BY <2>1, <2>2, <3>3, <4>1, <4>4
      <4> QED
        <5>1. /\ g[n + 1] \in Seq(T) /\ h[n + 1] \in Seq(T)
              /\ Zipped(g[n + 1], h[n + 1], s, u, n + 1)
          BY <4>4, <4>5, <4>6
        <5> QED
          BY <2>3, <3>1, <5>1
    <3>4. CASE n + 1 \notin 1 .. N
      BY <2>3, <3>1, <3>4
    <3> QED
      BY <3>1, <3>2, <3>3, <3>4
  <2>6. N \in S
    BY <2>3, <2>4, <2>5, Inductively
  <2>7. N \in 1 .. N
    BY <1>3
  <2> QED
    BY <2>1, <2>2, <2>3, <2>6, <2>7
<1> QED
  BY <1>2, <1>3

-----------------------------------------------------------------------------
(* Where unchanged text went.                                              *)

\* The boundaries of a definition, in the order they are written.
Marks(t, i) ==
  IF t[i].attr
  THEN <<Places(t)[i].attr, Places(t)[i].attr + AttributeWidth, Places(t)[i].let, Places(t)[i].body, Places(t)[i].end>>
  ELSE <<Places(t)[i].let, Places(t)[i].body, Places(t)[i].end>>

Marked(t, i) ==
  IF i \in Present(t) THEN [n \in DOMAIN Marks(t, i) |-> <<FileOf[i], Marks(t, i)[n]>>] ELSE <<>>

LEMMA FiveInARow ==
  ASSUME NEW a, NEW b, NEW c, NEW d, NEW e
  PROVE  <<a, b>> \o <<c, d, e>> = <<a, b, c, d, e>>
<1>1. PICK T : T = {a, b, c, d, e}
  OBVIOUS
<1>2. PICK x, y, w : x = <<a, b>> /\ y = <<c, d, e>> /\ w = <<a, b, c, d, e>>
  OBVIOUS
<1>3. x \in Seq(T) /\ y \in Seq(T) /\ w \in Seq(T)
  BY <1>1, <1>2
<1>4. PICK z : z = x \o y
  OBVIOUS
<1>5. /\ z \in Seq(T) /\ Len(z) = Len(x) + Len(y)
      /\ \A m \in 1 .. Len(x) : z[m] = x[m]
      /\ \A k \in 1 .. Len(y) : z[Len(x) + k] = y[k]
  BY <1>3, <1>4, Appended
<1>6. Len(x) = 2 /\ Len(y) = 3 /\ Len(w) = 5
  BY <1>2
<1>7. Len(z) = 5 /\ \A m \in 1 .. 2 : z[m] = x[m]
  BY <1>5, <1>6
<1>8. \A k \in 1 .. 3 : z[2 + k] = y[k]
  BY <1>5, <1>6
<1>9. z[1] = a /\ z[2] = b
  BY <1>2, <1>7
<1>10. z[2 + 1] = c /\ z[2 + 2] = d /\ z[2 + 3] = e
  BY <1>2, <1>8
<1>11. \A k \in 1 .. 5 : z[k] = w[k]
  BY <1>2, <1>9, <1>10
<1>12. z = w
  BY <1>3, <1>5, <1>6, <1>7, <1>11
<1> QED
  BY <1>2, <1>4, <1>12

LEMMA PointsAreMarks ==
  ASSUME NEW t
  PROVE  Points(t) = FlattenSeq([i \in Defs |-> Marked(t, i)])
<1> DEFINE of(i) == (IF t[i].attr THEN <<Places(t)[i].attr, Places(t)[i].attr + AttributeWidth>> ELSE <<>>)
                      \o <<Places(t)[i].let, Places(t)[i].body, Places(t)[i].end>>
<1>1. ASSUME NEW i PROVE of(i) = Marks(t, i)
  <2>1. ASSUME NEW a, NEW b, NEW c, NEW d, NEW e PROVE <<a, b>> \o <<c, d, e>> = <<a, b, c, d, e>>
    BY FiveInARow
  <2>2. ASSUME NEW c, NEW d, NEW e PROVE <<>> \o <<c, d, e>> = <<c, d, e>>
    OBVIOUS
  <2>3. CASE t[i].attr
    BY <2>1, <2>3 DEF Marks
  <2>4. CASE ~t[i].attr
    BY <2>2, <2>4 DEF Marks
  <2> QED
    BY <2>3, <2>4
<1>2. Points(t) = FlattenSeq([i \in Defs |-> IF i \in Present(t)
                                             THEN [n \in DOMAIN of(i) |-> <<FileOf[i], of(i)[n]>>] ELSE <<>>])
  BY DEF Points
<1> HIDE DEF of
<1>3. \A i \in Defs : Marked(t, i) = IF i \in Present(t)
                                     THEN [n \in DOMAIN of(i) |-> <<FileOf[i], of(i)[n]>>] ELSE <<>>
  BY <1>1 DEF Marked
<1> QED
  BY <1>2, <1>3

\* The boundaries of a definition are where its parts meet.
LEMMA MarksAre ==
  ASSUME NEW t \in AllTexts, NEW i \in Present(t)
  PROVE  /\ Marks(t, i) \in Seq(Nat)
         /\ Len(Marks(t, i)) = IF t[i].attr THEN 5 ELSE 3
         /\ \A n \in DOMAIN Marks(t, i) :
              LET m == Marks(t, i)[n] IN
              /\ Places(t)[i].attr <= m /\ m <= Places(t)[i].end
              /\ m <= Places(t)[i].let \/ Places(t)[i].body <= m
              /\ m <= Places(t)[i].body \/ m = Places(t)[i].end
<1>1. PICK p : /\ p = Places(t)[i]
               /\ p.attr \in Nat /\ p.let \in Nat /\ p.name \in Nat /\ p.body \in Nat /\ p.end \in Nat
               /\ IF t[i].attr THEN p.attr + AttributeWidth < p.let ELSE p.let = p.attr
               /\ p.name = p.let + 1 /\ p.name < p.body
               /\ p.end = p.body + t[i].body.width /\ t[i].body.width \in Nat \ {0}
  BY DefinitionLies
<1>2. PICK marks : marks = Marks(t, i)
  OBVIOUS
<1>3. CASE t[i].attr
  <2>1. marks = <<p.attr, p.attr + AttributeWidth, p.let, p.body, p.end>>
    BY <1>1, <1>2, <1>3 DEF Marks
  <2>2. marks \in Seq(Nat) /\ Len(marks) = 5
    BY <1>1, <2>1 DEF AttributeWidth
  <2>3. ASSUME NEW n \in DOMAIN marks
        PROVE  /\ p.attr <= marks[n] /\ marks[n] <= p.end
               /\ marks[n] <= p.let \/ p.body <= marks[n]
               /\ marks[n] <= p.body \/ marks[n] = p.end
    <3>1. n \in 1 .. 5
      BY <2>2
    <3>2. marks[n] \in {p.attr, p.attr + AttributeWidth, p.let, p.body, p.end}
      BY <2>1, <3>1
    <3> QED
      BY <1>1, <1>3, <3>2 DEF AttributeWidth
  <2> QED
    BY <1>1, <1>2, <1>3, <2>2, <2>3
<1>4. CASE ~t[i].attr
  <2>1. marks = <<p.let, p.body, p.end>>
    BY <1>1, <1>2, <1>4 DEF Marks
  <2>2. marks \in Seq(Nat) /\ Len(marks) = 3
    BY <1>1, <2>1
  <2>3. ASSUME NEW n \in DOMAIN marks
        PROVE  /\ p.attr <= marks[n] /\ marks[n] <= p.end
               /\ marks[n] <= p.let \/ p.body <= marks[n]
               /\ marks[n] <= p.body \/ marks[n] = p.end
    <3>1. n \in 1 .. 3
      BY <2>2
    <3>2. marks[n] \in {p.let, p.body, p.end}
      BY <2>1, <3>1
    <3> QED
      BY <1>1, <1>4, <3>2
  <2> QED
    BY <1>1, <1>2, <1>4, <2>2, <2>3
<1> QED
  BY <1>3, <1>4

\* Two texts that the cache may relate: written alike, but for bodies and gaps.
Alike(t, u) == ShapeHeaders(t) = ShapeHeaders(u) /\ Relocatable(Points(t), Points(u))

LEMMA AlikeIsSame ==
  ASSUME NEW t \in AllTexts, NEW u \in AllTexts, Alike(t, u)
  PROVE  Present(t) = Present(u) /\ \A i \in Present(t) : t[i].h = u[i].h /\ t[i].attr = u[i].attr
<1>1. DOMAIN ShapeHeaders(t) = Present(t) /\ DOMAIN ShapeHeaders(u) = Present(u)
  BY DEF ShapeHeaders
<1>2. \A i \in Present(t) : <<t[i].h, t[i].attr>> = ShapeHeaders(t)[i]
  BY DEF ShapeHeaders
<1>3. \A i \in Present(u) : <<u[i].h, u[i].attr>> = ShapeHeaders(u)[i]
  BY DEF ShapeHeaders
<1>4. ASSUME NEW i \in Present(t) PROVE <<t[i].h, t[i].attr>> = <<u[i].h, u[i].attr>>
  BY <1>1, <1>2, <1>3 DEF Alike
<1>5. ASSUME NEW i \in Present(t) PROVE t[i].h = u[i].h /\ t[i].attr = u[i].attr
  BY <1>4
<1> QED
  BY <1>1, <1>5 DEF Alike

\* A boundary is paired with where it went.
LEMMA PairsAreMarks ==
  ASSUME NEW t \in AllTexts, NEW u \in AllTexts, Alike(t, u)
  PROVE  /\ \A x \in Pairs(Points(t), Points(u)) : \E i \in Present(t) : \E n \in DOMAIN Marks(t, i) :
              x = <<FileOf[i], Marks(t, i)[n], Marks(u, i)[n]>>
         /\ \A i \in Present(t) : \A n \in DOMAIN Marks(t, i) :
              <<FileOf[i], Marks(t, i)[n], Marks(u, i)[n]>> \in Pairs(Points(t), Points(u))
<1>1. /\ Present(t) = Present(u)
      /\ \A i \in Present(t) : t[i].attr = u[i].attr
  BY AlikeIsSame
<1>2. PICK T : T = {FileOf[i] : i \in Defs} \X Nat
  OBVIOUS
<1>3. PICK N \in Nat : N = Cardinality(Defs) /\ Defs = 1 .. N
  BY DefsAreNumbered, TextAssumption DEF TextAssumption
<1>4. PICK s : s = [i \in Defs |-> Marked(t, i)]
  OBVIOUS
<1>5. PICK v : v = [i \in Defs |-> Marked(u, i)]
  OBVIOUS
<1>6. ASSUME NEW w \in AllTexts, NEW i \in Defs PROVE Marked(w, i) \in Seq(T)
  <2>1. CASE i \in Present(w)
    <3>1. PICK marks : marks = Marks(w, i) /\ marks \in Seq(Nat)
      BY <2>1, MarksAre
    <3>2. PICK f : f = FileOf[i] /\ f \in {FileOf[j] : j \in Defs}
      OBVIOUS
    <3>3. Marked(w, i) = [n \in 1 .. Len(marks) |-> <<f, marks[n]>>]
      BY <2>1, <3>1, <3>2 DEF Marked
    <3>4. \A n \in 1 .. Len(marks) : <<f, marks[n]>> \in T
      BY <1>2, <3>1, <3>2
    <3>5. Len(marks) \in Nat
      BY <3>1
    <3> QED
      BY <3>3, <3>4, <3>5
  <2>2. CASE i \notin Present(w)
    BY <2>2 DEF Marked
  <2> QED
    BY <2>1, <2>2
<1>7. ASSUME NEW i \in Present(t)
      PROVE  /\ DOMAIN Marks(t, i) = 1 .. Len(s[i]) /\ Len(s[i]) = Len(v[i])
             /\ \A n \in 1 .. Len(s[i]) : /\ s[i][n] = <<FileOf[i], Marks(t, i)[n]>>
                                          /\ v[i][n] = <<FileOf[i], Marks(u, i)[n]>>
  <2>1. i \in Defs /\ i \in Present(u)
    BY <1>1 DEF Present
  <2>2. PICK a, b : a = Marks(t, i) /\ b = Marks(u, i)
    OBVIOUS
  <2>3. a \in Seq(Nat) /\ b \in Seq(Nat) /\ Len(a) = Len(b)
    BY <1>1, <2>1, <2>2, MarksAre
  <2>4. s[i] = [n \in 1 .. Len(a) |-> <<FileOf[i], a[n]>>]
    BY <1>4, <2>1, <2>2, <2>3 DEF Marked
  <2>5. v[i] = [n \in 1 .. Len(a) |-> <<FileOf[i], b[n]>>]
    BY <1>5, <2>1, <2>2, <2>3 DEF Marked
  <2>6. Len(s[i]) = Len(a) /\ Len(v[i]) = Len(a)
    BY <2>3, <2>4, <2>5
  <2> QED
    BY <2>2, <2>3, <2>4, <2>5, <2>6
<1>8. ASSUME NEW i \in Defs PROVE Len(s[i]) = Len(v[i])
  <2>1. CASE i \in Present(t)
    BY <1>7, <2>1
  <2>2. CASE i \notin Present(t)
    BY <1>1, <1>4, <1>5, <2>2 DEF Marked
  <2> QED
    BY <2>1, <2>2
<1>9. s \in [1 .. N -> Seq(T)] /\ v \in [1 .. N -> Seq(T)]
  BY <1>3, <1>4, <1>5, <1>6
<1>10. PICK a, b : a = Points(t) /\ b = Points(u)
  OBVIOUS
<1>11. a = FlattenSeq(s) /\ b = FlattenSeq(v)
  BY <1>4, <1>5, <1>10, PointsAreMarks
<1>12. a \in Seq(T) /\ Zipped(a, b, s, v, N)
  BY <1>3, <1>8, <1>9, <1>11, FlatZips
<1>13. DOMAIN a = 1 .. Len(a)
  BY <1>12
<1>14. ASSUME NEW x \in Pairs(a, b)
       PROVE  \E i \in Present(t) : \E n \in DOMAIN Marks(t, i) : x = <<FileOf[i], Marks(t, i)[n], Marks(u, i)[n]>>
  <2>1. PICK m \in 1 .. Len(a) : x = <<a[m][1], a[m][2], b[m][2]>>
    BY <1>13 DEF Pairs
  <2>2. PICK i \in 1 .. N : \E n \in 1 .. Len(s[i]) : a[m] = s[i][n] /\ b[m] = v[i][n]
    BY <1>12, <2>1 DEF Zipped
  <2>3. PICK n \in 1 .. Len(s[i]) : a[m] = s[i][n] /\ b[m] = v[i][n]
    BY <2>2
  <2>4. i \in Present(t)
    <3>1. SUFFICES ASSUME i \notin Present(t) PROVE FALSE
      OBVIOUS
    <3>2. s[i] = <<>>
      BY <1>3, <1>4, <3>1 DEF Marked
    <3> QED
      BY <2>3, <3>2
  <2> QED
    BY <1>7, <2>1, <2>3, <2>4
<1>15. ASSUME NEW i \in Present(t), NEW n \in DOMAIN Marks(t, i)
       PROVE  <<FileOf[i], Marks(t, i)[n], Marks(u, i)[n]>> \in Pairs(a, b)
  <2>1. i \in 1 .. N /\ n \in 1 .. Len(s[i])
    BY <1>3, <1>7 DEF Present
  <2>2. PICK m \in 1 .. Len(a) : a[m] = s[i][n] /\ b[m] = v[i][n]
    BY <1>12, <2>1 DEF Zipped
  <2>3. a[m] = <<FileOf[i], Marks(t, i)[n]>> /\ b[m] = <<FileOf[i], Marks(u, i)[n]>>
    BY <1>7, <2>1, <2>2
  <2>4. <<a[m][1], a[m][2], b[m][2]>> \in Pairs(a, b)
    BY <1>13 DEF Pairs
  <2> QED
    BY <2>3, <2>4
<1> QED
  BY <1>10, <1>14, <1>15

\* A place goes where the last boundary at or before it went.
LEMMA PositionIs ==
  ASSUME NEW pairs, NEW file, NEW old \in Nat, NEW x \in pairs,
         x[1] = file, x[2] \in Nat, x[3] \in Nat, x[2] <= old,
         \A y \in pairs : y[2] \in Nat,
         \A y \in pairs : y[1] = file /\ y[2] = x[2] => y[3] = x[3],
         \A y \in pairs : y[1] = file /\ y[2] <= old => y[2] <= x[2]
  PROVE  Position(pairs, file, old) = x[3] + (old - x[2])
<1> DEFINE here == {y \in pairs : y[1] = file}
           upto == {y \in here : y[2] <= old}
           last == CHOOSE y \in upto : \A z \in upto : z[2] <= y[2]
<1>1. x \in upto /\ \A z \in upto : z[2] <= x[2]
  OBVIOUS
<1>2. last \in upto /\ \A z \in upto : z[2] <= last[2]
  BY <1>1
<1>3. last[2] = x[2] /\ last[3] = x[3]
  BY <1>1, <1>2
<1>4. Position(pairs, file, old) = LET to == old + last[3] - last[2] IN IF to < 0 THEN 0 ELSE to
  BY <1>1 DEF Position
<1> HIDE DEF last, upto, here
<1>5. old + x[3] - x[2] = x[3] + (old - x[2]) /\ ~(old + x[3] - x[2] < 0)
  OBVIOUS
<1> QED
  BY <1>3, <1>4, <1>5

\* What lies in a definition moves with the last of its boundaries before it.
LEMMA MovesWith ==
  ASSUME NEW t \in AllTexts, NEW u \in AllTexts, Alike(t, u), NEW i \in Present(t), NEW n \in DOMAIN Marks(t, i),
         NEW old \in Nat, Marks(t, i)[n] <= old, old <= Places(t)[i].end,
         \A k \in DOMAIN Marks(t, i) : Marks(t, i)[k] <= old => Marks(t, i)[k] <= Marks(t, i)[n]
  PROVE  Position(Pairs(Points(t), Points(u)), FileOf[i], old) = Marks(u, i)[n] + (old - Marks(t, i)[n])
<1>1. PICK pairs : pairs = Pairs(Points(t), Points(u))
  OBVIOUS
<1>2. \A y \in pairs : \E j \in Present(t) : \E k \in DOMAIN Marks(t, j) : y = <<FileOf[j], Marks(t, j)[k], Marks(u, j)[k]>>
  BY <1>1, PairsAreMarks
<1>3. PICK x : x = <<FileOf[i], Marks(t, i)[n], Marks(u, i)[n]>>
  OBVIOUS
<1>4. x \in pairs
  BY <1>1, <1>3, PairsAreMarks
<1>5. ASSUME NEW j \in Present(t), NEW k \in DOMAIN Marks(t, j)
      PROVE  /\ Marks(t, j)[k] \in Nat
             /\ Places(t)[j].attr <= Marks(t, j)[k] /\ Marks(t, j)[k] <= Places(t)[j].end
             /\ Marks(u, j)[k] \in Nat
  <2>1. j \in Present(u) /\ t[j].attr = u[j].attr
    BY AlikeIsSame
  <2>2. Marks(t, j) \in Seq(Nat) /\ Marks(u, j) \in Seq(Nat)
    BY <2>1, MarksAre
  <2>3. Len(Marks(t, j)) = Len(Marks(u, j))
    BY <2>1, MarksAre
  <2>4. k \in DOMAIN Marks(u, j)
    BY <2>2, <2>3
  <2>5. Marks(t, j)[k] \in Nat /\ Marks(u, j)[k] \in Nat
    BY <2>2, <2>4
  <2> QED
    BY <2>5, MarksAre
<1>6. \A y \in pairs : y[2] \in Nat
  <2> TAKE y \in pairs
  <2>1. PICK j \in Present(t) : \E k \in DOMAIN Marks(t, j) : y = <<FileOf[j], Marks(t, j)[k], Marks(u, j)[k]>>
    BY <1>2
  <2>2. PICK k \in DOMAIN Marks(t, j) : y = <<FileOf[j], Marks(t, j)[k], Marks(u, j)[k]>>
    BY <2>1
  <2> QED
    BY <1>5, <2>2
<1>7. \A y \in pairs : y[1] = FileOf[i] /\ y[2] = x[2] => y[3] = x[3]
  BY <1>1, <1>3, <1>4 DEF Alike, Relocatable
<1>8. ASSUME NEW y \in pairs, y[1] = FileOf[i], y[2] <= old PROVE y[2] <= x[2]
  <2>1. PICK j \in Present(t) : \E k \in DOMAIN Marks(t, j) : y = <<FileOf[j], Marks(t, j)[k], Marks(u, j)[k]>>
    BY <1>2
  <2>2. PICK k \in DOMAIN Marks(t, j) : y = <<FileOf[j], Marks(t, j)[k], Marks(u, j)[k]>>
    BY <2>1
  <2>3. y[2] = Marks(t, j)[k] /\ FileOf[j] = FileOf[i] /\ x[2] = Marks(t, i)[n]
    BY <1>3, <1>8, <2>2
  <2>4. i \in Int /\ j \in Int
    BY DefsAreNumbered DEF Present
  <2>5. PICK mine, his : mine = Places(t)[i] /\ his = Places(t)[j]
    OBVIOUS
  <2>6. mine.attr \in Nat /\ mine.end \in Nat /\ his.attr \in Nat /\ his.end \in Nat
    BY <2>5, DefinitionLies
  <2>7. /\ y[2] \in Nat /\ x[2] \in Nat
        /\ his.attr <= y[2] /\ y[2] <= his.end /\ mine.attr <= x[2]
    BY <1>5, <2>3, <2>5
  <2>8. CASE j = i
    BY <1>8, <2>2, <2>3, <2>8
  <2>9. CASE j < i
    <3>1. his.end < mine.attr
      BY <2>3, <2>5, <2>9, DefinitionsAreApart
    <3> QED
      BY <2>6, <2>7, <3>1
  <2>10. CASE i < j
    <3>1. mine.end < his.attr
      BY <2>3, <2>5, <2>10, DefinitionsAreApart
    <3> QED
      BY <1>8, <2>5, <2>6, <2>7, <3>1
  <2> QED
    BY <2>4, <2>8, <2>9, <2>10
<1>9. x[1] = FileOf[i] /\ x[2] = Marks(t, i)[n] /\ x[3] = Marks(u, i)[n] /\ x[2] \in Nat /\ x[3] \in Nat
  BY <1>3, <1>5
<1>10. x[2] <= old
  BY <1>9
<1>11. Position(pairs, FileOf[i], old) = x[3] + (old - x[2])
  BY <1>4, <1>6, <1>7, <1>8, <1>9, <1>10, PositionIs
<1> QED
  BY <1>1, <1>9, <1>11

\* Every part of a definition whose body is as it was goes where it is
\* written now, and so do the boundaries of any definition.
LEMMA PartsMove ==
  ASSUME NEW t \in AllTexts, NEW u \in AllTexts, Alike(t, u), NEW i \in Present(t)
  PROVE  LET pairs == Pairs(Points(t), Points(u))
             to(old) == Position(pairs, FileOf[i], old)
             was == Places(t)[i]
             now == Places(u)[i]
         IN  /\ t[i].attr => to(was.attr) = now.attr
             /\ to(was.name) = now.name
             /\ to(was.body) = now.body
             /\ t[i].body.width > 1 => to(was.body + 1) = now.body + 1
             /\ to(was.end) = now.end
<1>1. PICK pairs : pairs = Pairs(Points(t), Points(u))
  OBVIOUS
<1>2. i \in Present(u) /\ t[i].attr = u[i].attr
  BY AlikeIsSame
<1>3. PICK p : /\ p = Places(t)[i]
               /\ p.attr \in Nat /\ p.let \in Nat /\ p.name \in Nat /\ p.body \in Nat /\ p.end \in Nat
               /\ IF t[i].attr THEN p.attr + AttributeWidth < p.let ELSE p.let = p.attr
               /\ p.name = p.let + 1 /\ p.name < p.body
               /\ p.end = p.body + t[i].body.width /\ t[i].body.width \in Nat \ {0}
  BY DefinitionLies
<1>4. PICK q : /\ q = Places(u)[i]
               /\ q.attr \in Nat /\ q.let \in Nat /\ q.name \in Nat /\ q.body \in Nat /\ q.end \in Nat
               /\ IF u[i].attr THEN q.attr + AttributeWidth < q.let ELSE q.let = q.attr
               /\ q.name = q.let + 1 /\ q.name < q.body
               /\ q.end = q.body + u[i].body.width /\ u[i].body.width \in Nat \ {0}
  BY <1>2, DefinitionLies
<1>5. PICK a, b : a = Marks(t, i) /\ b = Marks(u, i)
  OBVIOUS
<1>6. /\ a \in Seq(Nat)
      /\ \A k \in DOMAIN a : /\ a[k] \in Nat /\ p.attr <= a[k] /\ a[k] <= p.end
                             /\ a[k] <= p.let \/ p.body <= a[k]
                             /\ a[k] <= p.body \/ a[k] = p.end
  <2>1. a \in Seq(Nat)
    BY <1>5, MarksAre
  <2>2. \A k \in DOMAIN a : a[k] \in Nat
    BY <2>1
  <2> QED
    BY <1>3, <1>5, <2>1, <2>2, MarksAre
<1>7. ASSUME NEW n \in DOMAIN a, NEW old \in Nat, a[n] <= old, old <= p.end,
             \A k \in DOMAIN a : a[k] <= old => a[k] <= a[n]
      PROVE  Position(pairs, FileOf[i], old) = b[n] + (old - a[n])
  BY <1>1, <1>3, <1>5, <1>7, MovesWith
<1>8. \E n \in DOMAIN a : a[n] = p.let /\ b[n] = q.let
  <2>1. CASE t[i].attr
    <3>1. a[3] = p.let /\ b[3] = q.let /\ 3 \in DOMAIN a
      BY <1>2, <1>3, <1>4, <1>5, <2>1 DEF Marks
    <3> QED
      BY <3>1
  <2>2. CASE ~t[i].attr
    <3>1. a[1] = p.let /\ b[1] = q.let /\ 1 \in DOMAIN a
      BY <1>2, <1>3, <1>4, <1>5, <2>2 DEF Marks
    <3> QED
      BY <3>1
  <2> QED
    BY <2>1, <2>2
<1>9. \E n \in DOMAIN a : a[n] = p.body /\ b[n] = q.body
  <2>1. CASE t[i].attr
    <3>1. a[4] = p.body /\ b[4] = q.body /\ 4 \in DOMAIN a
      BY <1>2, <1>3, <1>4, <1>5, <2>1 DEF Marks
    <3> QED
      BY <3>1
  <2>2. CASE ~t[i].attr
    <3>1. a[2] = p.body /\ b[2] = q.body /\ 2 \in DOMAIN a
      BY <1>2, <1>3, <1>4, <1>5, <2>2 DEF Marks
    <3> QED
      BY <3>1
  <2> QED
    BY <2>1, <2>2
<1>10. \E n \in DOMAIN a : a[n] = p.end /\ b[n] = q.end
  <2>1. CASE t[i].attr
    <3>1. a[5] = p.end /\ b[5] = q.end /\ 5 \in DOMAIN a
      BY <1>2, <1>3, <1>4, <1>5, <2>1 DEF Marks
    <3> QED
      BY <3>1
  <2>2. CASE ~t[i].attr
    <3>1. a[3] = p.end /\ b[3] = q.end /\ 3 \in DOMAIN a
      BY <1>2, <1>3, <1>4, <1>5, <2>2 DEF Marks
    <3> QED
      BY <3>1
  <2> QED
    BY <2>1, <2>2
<1>11. t[i].attr => \E n \in DOMAIN a : a[n] = p.attr /\ b[n] = q.attr
  <2>1. SUFFICES ASSUME t[i].attr PROVE a[1] = p.attr /\ b[1] = q.attr /\ 1 \in DOMAIN a
    OBVIOUS
  <2> QED
    BY <1>2, <1>3, <1>4, <1>5, <2>1 DEF Marks
<1>12. ASSUME t[i].attr PROVE Position(pairs, FileOf[i], p.attr) = q.attr
  <2>1. PICK n \in DOMAIN a : a[n] = p.attr /\ b[n] = q.attr
    BY <1>11, <1>12
  <2>2. p.attr <= p.end
    BY <1>6, <2>1
  <2>3. Position(pairs, FileOf[i], p.attr) = b[n] + (p.attr - a[n])
    BY <1>3, <1>7, <2>1, <2>2
  <2> QED
    BY <1>3, <1>4, <2>1, <2>3
<1>13. Position(pairs, FileOf[i], p.name) = q.name
  <2>1. PICK n \in DOMAIN a : a[n] = p.let /\ b[n] = q.let
    BY <1>8
  <2>2. p.name <= p.end /\ a[n] <= p.name
    BY <1>3, <2>1
  <2>3. ASSUME NEW k \in DOMAIN a, a[k] <= p.name PROVE a[k] <= a[n]
    BY <1>3, <1>6, <2>1, <2>3
  <2>4. Position(pairs, FileOf[i], p.name) = b[n] + (p.name - a[n])
    BY <1>3, <1>7, <2>2, <2>3
  <2> QED
    BY <1>3, <1>4, <2>1, <2>4
<1>14. Position(pairs, FileOf[i], p.body) = q.body
  <2>1. PICK n \in DOMAIN a : a[n] = p.body /\ b[n] = q.body
    BY <1>9
  <2>2. Position(pairs, FileOf[i], p.body) = b[n] + (p.body - a[n])
    BY <1>3, <1>6, <1>7, <2>1
  <2> QED
    BY <1>3, <1>4, <2>1, <2>2
<1>15. ASSUME t[i].body.width > 1 PROVE Position(pairs, FileOf[i], p.body + 1) = q.body + 1
  <2>1. PICK n \in DOMAIN a : a[n] = p.body /\ b[n] = q.body
    BY <1>9
  <2>2. p.body + 1 < p.end /\ p.body + 1 \in Nat
    BY <1>3, <1>15
  <2>3. ASSUME NEW k \in DOMAIN a, a[k] <= p.body + 1 PROVE a[k] <= a[n]
    BY <1>3, <1>6, <2>1, <2>2, <2>3
  <2>4. Position(pairs, FileOf[i], p.body + 1) = b[n] + ((p.body + 1) - a[n])
    BY <1>3, <1>7, <2>1, <2>2, <2>3
  <2> QED
    BY <1>3, <1>4, <2>1, <2>4
<1>16. Position(pairs, FileOf[i], p.end) = q.end
  <2>1. PICK n \in DOMAIN a : a[n] = p.end /\ b[n] = q.end
    BY <1>10
  <2>2. Position(pairs, FileOf[i], p.end) = b[n] + (p.end - a[n])
    BY <1>3, <1>6, <1>7, <2>1
  <2> QED
    BY <1>3, <1>4, <2>1, <2>2
<1> QED
  BY <1>1, <1>3, <1>4, <1>12, <1>13, <1>14, <1>15, <1>16

-----------------------------------------------------------------------------
(* What is recorded of where things are.                                   *)

\* An anchor gets a span that was recorded of it.
LEMMA FirstIsRecorded ==
  ASSUME NEW rs, Len(rs) \in Nat, DOMAIN rs = 1 .. Len(rs)
  PROVE  /\ DOMAIN FirstRecorded(rs) = {rs[n][1] : n \in DOMAIN rs}
         /\ \A a \in DOMAIN FirstRecorded(rs) :
              \E m \in DOMAIN rs : rs[m][1] = a /\ FirstRecorded(rs)[a] = rs[m][2]
<1>1. DOMAIN FirstRecorded(rs) = {rs[n][1] : n \in DOMAIN rs}
  BY DEF FirstRecorded
<1>2. ASSUME NEW a \in DOMAIN FirstRecorded(rs)
      PROVE  \E m \in DOMAIN rs : rs[m][1] = a /\ FirstRecorded(rs)[a] = rs[m][2]
  <2> DEFINE First(n) == rs[n][1] = a /\ \A m \in 1 .. n - 1 : rs[m][1] # a
  <2>1. PICK S : S = {n \in Nat : n \in DOMAIN rs /\ rs[n][1] = a}
    OBVIOUS
  <2>2. DOMAIN rs \subseteq Nat /\ \A n \in DOMAIN rs : \A m \in 1 .. n - 1 : m \in DOMAIN rs
    OBVIOUS
  <2>3. S # {} /\ S \in SUBSET Nat
    BY <1>1, <2>1, <2>2
  <2>4. PICK n \in S : \A k \in S : ~(k < n)
    BY <2>3, Least
  <2>5. n \in DOMAIN rs /\ rs[n][1] = a /\ n \in Nat
    BY <2>1, <2>4
  <2>6. ASSUME NEW m \in 1 .. n - 1 PROVE rs[m][1] # a
    BY <2>1, <2>2, <2>4, <2>5
  <2>7. First(n)
    BY <2>5, <2>6
  <2>8. PICK k : k = CHOOSE l \in DOMAIN rs : First(l)
    OBVIOUS
  <2>9. k \in DOMAIN rs /\ First(k)
    BY <2>5, <2>7, <2>8
  <2>10. FirstRecorded(rs)[a] = rs[k][2]
    BY <1>1, <2>8 DEF FirstRecorded
  <2> QED
    BY <2>9, <2>10
<1> QED
  BY <1>1, <1>2

\* What is recorded of a definition, and of an attribute.
Recorded(t, i) ==
  {<<NameAnchor(i, Places(t)[i]), Span(i, Places(t)[i].name, 1)>>}
    \cup {<<BodyAnchors(i, Places(t)[i], t[i].body)[n],
            Span(i, Places(t)[i].body + Nodes(t[i].body)[n][1], Nodes(t[i].body)[n][2])>> :
           n \in DOMAIN Nodes(t[i].body)}

AttributeRecorded(t, i) == <<AttributeAnchor(Places(t)[i]), Span(i, Places(t)[i].attr, AttributeWidth)>>

Attributed(t) == {i \in Present(t) : t[i].attr}

\* A list that holds these, and nothing else.
Lists(rs, these) == rs \in Seq(these) /\ \A r \in these : \E m \in DOMAIN rs : rs[m] = r

LEMMA FlatLists ==
  ASSUME NEW s, s = [i \in Defs |-> s[i]], NEW sets, \A i \in Defs : Lists(s[i], sets[i])
  PROVE  Lists(FlattenSeq(s), UNION {sets[i] : i \in Defs})
<1>1. PICK T : T = UNION {sets[i] : i \in Defs}
  OBVIOUS
<1>2. PICK N \in Nat : N = Cardinality(Defs) /\ Defs = 1 .. N
  BY DefsAreNumbered, TextAssumption DEF TextAssumption
<1>3. ASSUME NEW i \in Defs PROVE s[i] \in Seq(T)
  <2>1. PICK x, set : x = s[i] /\ set = sets[i] /\ x \in Seq(set)
    BY DEF Lists
  <2>2. set \subseteq T
    BY <1>1, <2>1
  <2>3. x \in Seq(T)
    BY <2>1, <2>2
  <2> QED
    BY <2>1, <2>3
<1>4. PICK v : v = s /\ v = [i \in 1 .. N |-> s[i]]
  BY <1>2
<1>5. v \in [1 .. N -> Seq(T)]
  BY <1>2, <1>3, <1>4
<1>6. PICK rs : rs = FlattenSeq(v)
  OBVIOUS
<1>7. rs \in Seq(T) /\ Zipped(rs, rs, v, v, N)
  BY <1>2, <1>5, <1>6, FlatZips
<1>8. ASSUME NEW r \in T PROVE \E m \in DOMAIN rs : rs[m] = r
  <2>1. PICK i \in Defs : r \in sets[i]
    BY <1>1
  <2>2. PICK x : x = s[i] /\ x \in Seq(sets[i]) /\ \E k \in DOMAIN x : x[k] = r
    BY <2>1 DEF Lists
  <2>3. PICK k \in 1 .. Len(x) : x[k] = r
    BY <2>2
  <2>4. i \in 1 .. N /\ v[i] = x
    BY <1>2, <1>4, <2>2
  <2>5. PICK m \in 1 .. Len(rs) : rs[m] = v[i][k]
    BY <1>7, <2>3, <2>4 DEF Zipped
  <2>6. m \in DOMAIN rs
    BY <1>7
  <2> QED
    BY <2>3, <2>4, <2>5, <2>6
<1>9. Lists(rs, T)
  BY <1>7, <1>8 DEF Lists
<1> QED
  BY <1>1, <1>4, <1>6, <1>9

\* What two lists hold, one after the other.
LEMMA ListsAppended ==
  ASSUME NEW xs, NEW A, Lists(xs, A), NEW ys, NEW B, Lists(ys, B)
  PROVE  Lists(xs \o ys, A \cup B)
<1>1. PICK T : T = A \cup B
  OBVIOUS
<1>2. PICK a, b : a = xs /\ b = ys
  OBVIOUS
<1>3. a \in Seq(A) /\ b \in Seq(B)
  BY <1>2 DEF Lists
<1>4. a \in Seq(T)
  BY <1>1, <1>3
<1>5. b \in Seq(T)
  BY <1>1, <1>3
<1>6. PICK c : c = a \o b
  OBVIOUS
<1>7. /\ c \in Seq(T) /\ Len(c) = Len(a) + Len(b)
      /\ \A m \in 1 .. Len(a) : c[m] = a[m]
      /\ \A k \in 1 .. Len(b) : c[Len(a) + k] = b[k]
  BY <1>4, <1>5, <1>6, Appended
<1>8. /\ Len(a) \in Nat /\ Len(b) \in Nat /\ DOMAIN a = 1 .. Len(a) /\ DOMAIN b = 1 .. Len(b)
      /\ DOMAIN c = 1 .. Len(c)
  BY <1>4, <1>5, <1>7
<1>9. ASSUME NEW r \in T PROVE \E m \in DOMAIN c : c[m] = r
  <2>1. CASE r \in A
    <3>1. PICK m \in 1 .. Len(a) : a[m] = r
      BY <1>2, <1>8, <2>1 DEF Lists
    <3>2. m \in DOMAIN c /\ c[m] = r
      BY <1>7, <1>8, <3>1
    <3> QED
      BY <3>2
  <2>2. CASE r \in B
    <3>1. PICK k \in 1 .. Len(b) : b[k] = r
      BY <1>2, <1>8, <2>2 DEF Lists
    <3>2. Len(a) + k \in DOMAIN c /\ c[Len(a) + k] = r
      BY <1>7, <1>8, <3>1
    <3> QED
      BY <3>2
  <2> QED
    BY <1>1, <2>1, <2>2
<1> QED
  BY <1>1, <1>2, <1>6, <1>7, <1>9 DEF Lists

LEMMA NodesAre ==
  ASSUME NEW b \in Bodies
  PROVE  /\ Nodes(b) \in Seq(Nat \X Nat)
         /\ \A n \in DOMAIN Nodes(b) : Nodes(b)[n][1] = 0 \/ (Nodes(b)[n][1] = 1 /\ b.width > 1)
<1>1. PICK w \in Nat : w = b.width
  BY BodiesAreSized
<1>2. CASE w > 1
  <2>1. Nodes(b) = <<<<0, w>>, <<1, 1>>>>
    BY <1>1, <1>2 DEF Nodes
  <2> QED
    BY <1>1, <1>2, <2>1
<1>3. CASE ~(w > 1)
  <2>1. Nodes(b) = <<<<0, 1>>>>
    BY <1>1, <1>3 DEF Nodes
  <2> QED
    BY <2>1
<1> QED
  BY <1>2, <1>3

LEMMA DefRecordsList ==
  ASSUME NEW t \in AllTexts, NEW i \in Present(t)
  PROVE  Lists(DefRecords(t, Places(t), i), Recorded(t, i))
<1>1. PICK b \in Bodies : b = t[i].body
  BY DEF Present, AllTexts, Definitions
<1>2. PICK nodes : nodes = Nodes(b) /\ nodes \in Seq(Nat \X Nat)
  BY <1>1, NodesAre
<1>3. PICK T : T = Recorded(t, i)
  OBVIOUS
<1>4. PICK first : first = <<NameAnchor(i, Places(t)[i]), Span(i, Places(t)[i].name, 1)>>
  OBVIOUS
<1>5. PICK f : f = [n \in DOMAIN nodes |-> <<BodyAnchors(i, Places(t)[i], b)[n],
                                            Span(i, Places(t)[i].body + nodes[n][1], nodes[n][2])>>]
  OBVIOUS
<1>6. T = {first} \cup {f[n] : n \in DOMAIN nodes}
  BY <1>1, <1>2, <1>3, <1>4, <1>5 DEF Recorded
<1>7. PICK x : x = <<first>>
  OBVIOUS
<1>8. Lists(x, {first})
  BY <1>7 DEF Lists
<1>9. PICK rest : rest = {f[n] : n \in DOMAIN nodes}
  OBVIOUS
<1>10. Lists(f, rest)
  <2>1. Len(nodes) \in Nat /\ DOMAIN nodes = 1 .. Len(nodes)
    BY <1>2
  <2>2. \A n \in 1 .. Len(nodes) : f[n] \in rest
    BY <1>9, <2>1
  <2>3. f = [n \in 1 .. Len(nodes) |-> f[n]]
    BY <1>5, <2>1
  <2>4. f \in Seq(rest)
    BY <2>1, <2>2, <2>3
  <2> QED
    BY <1>5, <1>9, <2>4 DEF Lists
<1>11. Lists(x \o f, {first} \cup rest)
  BY <1>8, <1>10, ListsAppended
<1>12. DefRecords(t, Places(t), i) = x \o f
  BY <1>1, <1>2, <1>4, <1>5, <1>7 DEF DefRecords
<1> QED
  BY <1>3, <1>6, <1>9, <1>11, <1>12

LEMMA EmptyLists == Lists(<<>>, {})
BY DEF Lists

\* What is recorded of some definitions.
LEMMA RecordsOfDefinitions ==
  ASSUME NEW t \in AllTexts, NEW these \in SUBSET Present(t)
  PROVE  Lists(FlattenSeq([i \in Defs |-> IF i \in these THEN DefRecords(t, Places(t), i) ELSE <<>>]),
               UNION {Recorded(t, i) : i \in these})
<1>1. PICK s : s = [i \in Defs |-> IF i \in these THEN DefRecords(t, Places(t), i) ELSE <<>>]
  OBVIOUS
<1>2. PICK sets : sets = [i \in Defs |-> IF i \in these THEN Recorded(t, i) ELSE {}]
  OBVIOUS
<1>3. ASSUME NEW i \in Defs PROVE Lists(s[i], sets[i])
  <2>1. CASE i \in these
    <3>1. s[i] = DefRecords(t, Places(t), i) /\ sets[i] = Recorded(t, i)
      BY <1>1, <1>2, <2>1
    <3> QED
      BY <2>1, <3>1, DefRecordsList
  <2>2. CASE i \notin these
    <3>1. s[i] = <<>> /\ sets[i] = {}
      BY <1>1, <1>2, <2>2
    <3> QED
      BY <3>1, EmptyLists
  <2> QED
    BY <2>1, <2>2
<1>4. s = [i \in Defs |-> s[i]]
  BY <1>1
<1>5. Lists(FlattenSeq(s), UNION {sets[i] : i \in Defs})
  BY <1>3, <1>4, FlatLists
<1>6. UNION {sets[i] : i \in Defs} = UNION {Recorded(t, i) : i \in these}
  BY <1>2 DEF Present
<1> QED
  BY <1>1, <1>5, <1>6

LEMMA RecordsOfAttributes ==
  ASSUME NEW t \in AllTexts
  PROVE  Lists(AttributeRecords(t, Places(t)), {AttributeRecorded(t, i) : i \in Attributed(t)})
<1>1. PICK s : s = [i \in Defs |-> IF i \in Present(t) /\ t[i].attr
                                  THEN <<<<AttributeAnchor(Places(t)[i]), Span(i, Places(t)[i].attr, AttributeWidth)>>>>
                                  ELSE <<>>]
  OBVIOUS
<1>2. PICK sets : sets = [i \in Defs |-> IF i \in Attributed(t) THEN {AttributeRecorded(t, i)} ELSE {}]
  OBVIOUS
<1>3. ASSUME NEW i \in Defs PROVE Lists(s[i], sets[i])
  <2>1. CASE i \in Attributed(t)
    <3>1. PICK r : r = AttributeRecorded(t, i)
      OBVIOUS
    <3>2. s[i] = <<r>> /\ sets[i] = {r}
      BY <1>1, <1>2, <2>1, <3>1 DEF Attributed, AttributeRecorded
    <3>3. Lists(<<r>>, {r})
      BY DEF Lists
    <3> QED
      BY <3>2, <3>3
  <2>2. CASE i \notin Attributed(t)
    <3>1. s[i] = <<>> /\ sets[i] = {}
      BY <1>1, <1>2, <2>2 DEF Attributed
    <3> QED
      BY <3>1, EmptyLists
  <2> QED
    BY <2>1, <2>2
<1>4. s = [i \in Defs |-> s[i]]
  BY <1>1
<1>5. Lists(FlattenSeq(s), UNION {sets[i] : i \in Defs})
  BY <1>3, <1>4, FlatLists
<1>6. UNION {sets[i] : i \in Defs} = {AttributeRecorded(t, i) : i \in Attributed(t)}
  BY <1>2 DEF Attributed, Present
<1>7. AttributeRecords(t, Places(t)) = FlattenSeq(s)
  BY <1>1 DEF AttributeRecords
<1> QED
  BY <1>5, <1>6, <1>7

\* Where every anchor is recorded of one span, that is the span it gets.
LEMMA ListedIsLocated ==
  ASSUME NEW rs, NEW T, Lists(rs, T), \A r, s \in T : r[1] = s[1] => r[2] = s[2]
  PROVE  /\ DOMAIN FirstRecorded(rs) = {r[1] : r \in T}
         /\ \A r \in T : FirstRecorded(rs)[r[1]] = r[2]
<1>1. rs \in Seq(T)
  BY DEF Lists
<1>2. \A m \in DOMAIN rs : rs[m] \in T
  BY <1>1
<1>3. Len(rs) \in Nat /\ DOMAIN rs = 1 .. Len(rs)
  BY <1>1
<1>4. DOMAIN FirstRecorded(rs) = {rs[n][1] : n \in DOMAIN rs}
  BY <1>3, FirstIsRecorded
<1>5. \A a \in DOMAIN FirstRecorded(rs) : \E m \in DOMAIN rs : rs[m][1] = a /\ FirstRecorded(rs)[a] = rs[m][2]
  BY <1>3, FirstIsRecorded
<1>6. DOMAIN FirstRecorded(rs) = {r[1] : r \in T}
  BY <1>2, <1>4 DEF Lists
<1>7. ASSUME NEW r \in T PROVE FirstRecorded(rs)[r[1]] = r[2]
  <2>1. PICK m \in DOMAIN rs : rs[m][1] = r[1] /\ FirstRecorded(rs)[r[1]] = rs[m][2]
    BY <1>5, <1>6
  <2> QED
    BY <1>2, <2>1
<1> QED
  BY <1>6, <1>7

\* The anchor of a part of a definition is the definition's, and tells how far
\* from its name the part is and how wide.
LEMMA RecordedIsTold ==
  ASSUME NEW t \in AllTexts, NEW i \in Present(t), NEW r \in Recorded(t, i)
  PROVE  \E node : /\ r[1] = [of |-> i, node |-> node]
                   /\ r[2] = Span(i, Places(t)[i].name + node[1], node[2])
<1>1. PICK p : /\ p = Places(t)[i]
               /\ p.attr \in Nat /\ p.let \in Nat /\ p.name \in Nat /\ p.body \in Nat /\ p.end \in Nat
               /\ IF t[i].attr THEN p.attr + AttributeWidth < p.let ELSE p.let = p.attr
               /\ p.name = p.let + 1 /\ p.name < p.body
               /\ p.end = p.body + t[i].body.width /\ t[i].body.width \in Nat \ {0}
  BY DefinitionLies
<1>2. PICK b \in Bodies : b = t[i].body
  BY DEF Present, AllTexts, Definitions
<1>3. CASE r = <<NameAnchor(i, Places(t)[i]), Span(i, Places(t)[i].name, 1)>>
  <2>1. PICK node : node = <<0, 1>>
    OBVIOUS
  <2>2. r[1] = [of |-> i, node |-> node]
    BY <1>3, <2>1, NameStands
  <2>3. p.name + node[1] = p.name /\ node[2] = 1
    BY <1>1, <2>1
  <2>4. r[2] = Span(i, Places(t)[i].name, 1)
    BY <1>3
  <2>5. r[2] = Span(i, Places(t)[i].name + node[1], node[2])
    BY <1>1, <2>3, <2>4
  <2> QED
    BY <2>2, <2>5
<1>4. CASE r # <<NameAnchor(i, Places(t)[i]), Span(i, Places(t)[i].name, 1)>>
  <2>1. PICK n \in DOMAIN Nodes(b) :
          r = <<BodyAnchors(i, Places(t)[i], t[i].body)[n],
                Span(i, Places(t)[i].body + Nodes(b)[n][1], Nodes(b)[n][2])>>
    BY <1>2, <1>4 DEF Recorded
  <2>2. PICK from, width : from = Nodes(b)[n][1] /\ width = Nodes(b)[n][2] /\ from \in Nat
    BY <1>2, NodesBegin
  <2>3. PICK node : node = <<1 + t[i].h + from, width>>
    OBVIOUS
  <2>4. BodyAnchors(i, Places(t)[i], t[i].body)[n] = [of |-> i, node |-> node]
    BY <1>2, <2>2, <2>3, BodyStands
  <2>5. PICK let \in Nat : /\ Places(t)[i].name = let + 1
                           /\ Places(t)[i].body = let + 2 + t[i].h
                           /\ t[i].h \in {1, 2}
    BY PlacesAreNatural
  <2>6. Places(t)[i].body + from = Places(t)[i].name + node[1] /\ node[2] = width
    BY <2>2, <2>3, <2>5
  <2>7. r[1] = BodyAnchors(i, Places(t)[i], t[i].body)[n] /\ r[2] = Span(i, Places(t)[i].body + from, width)
    BY <2>1, <2>2
  <2> QED
    BY <2>4, <2>6, <2>7
<1> QED
  BY <1>3, <1>4

\* So of one definition or another, an anchor is recorded of one span.
LEMMA RecordedOnce ==
  ASSUME NEW t \in AllTexts, NEW r, NEW s,
         NEW i \in Present(t), NEW j \in Present(t), r \in Recorded(t, i), s \in Recorded(t, j), r[1] = s[1]
  PROVE  r[2] = s[2]
<1>1. PICK node : r[1] = [of |-> i, node |-> node] /\ r[2] = Span(i, Places(t)[i].name + node[1], node[2])
  BY RecordedIsTold
<1>2. PICK other : s[1] = [of |-> j, node |-> other] /\ s[2] = Span(j, Places(t)[j].name + other[1], other[2])
  BY RecordedIsTold
<1>3. [of |-> i, node |-> node] = [of |-> j, node |-> other]
  BY <1>1, <1>2
<1>4. i = j /\ node = other
  BY <1>3
<1> QED
  BY <1>1, <1>2, <1>4

\* Attributes are written in one file of a text.
Together(t) == \A i, j \in Attributed(t) : FileOf[i] = FileOf[j]

LEMMA AttributeIsTold ==
  ASSUME NEW t \in AllTexts, NEW i \in Attributed(t)
  PROVE  /\ AttributeRecorded(t, i)[1] = [of |-> None, node |-> <<Places(t)[i].attr, AttributeWidth>>]
         /\ AttributeRecorded(t, i)[2] = Span(i, Places(t)[i].attr, AttributeWidth)
<1>1. i \in Present(t)
  BY DEF Attributed
<1>2. Places(t)[i].attr \in Nat
  BY <1>1, DefinitionLies
<1>3. NodeOf(0, Places(t)[i].attr, AttributeWidth) = <<Places(t)[i].attr, AttributeWidth>>
  BY <1>2 DEF NodeOf
<1> QED
  BY <1>3 DEF AttributeRecorded, AttributeAnchor, Anchor

LEMMA AttributeRecordedOnce ==
  ASSUME NEW t \in AllTexts, Together(t), NEW i \in Attributed(t), NEW j \in Attributed(t),
         AttributeRecorded(t, i)[1] = AttributeRecorded(t, j)[1]
  PROVE  AttributeRecorded(t, i)[2] = AttributeRecorded(t, j)[2]
<1>1. PICK x, y : x = Places(t)[i].attr /\ y = Places(t)[j].attr
  OBVIOUS
<1>2. [of |-> None, node |-> <<x, AttributeWidth>>] = [of |-> None, node |-> <<y, AttributeWidth>>]
  BY <1>1, AttributeIsTold
<1>3. <<x, AttributeWidth>> = <<y, AttributeWidth>>
  BY <1>2
<1>4. x = y
  BY <1>3
<1>5. Span(i, x, AttributeWidth) = Span(j, x, AttributeWidth)
  BY DEF Together, Span
<1>6. AttributeRecorded(t, i)[2] = Span(i, x, AttributeWidth)
  BY <1>1, AttributeIsTold
<1>7. AttributeRecorded(t, j)[2] = Span(j, y, AttributeWidth)
  BY <1>1, AttributeIsTold
<1> QED
  BY <1>4, <1>5, <1>6, <1>7

LEMMA NoneIsNoDefinition == None \notin Defs
BY TextAssumption, DefsAreNumbered DEF TextAssumption

\* Everything that the builder records of a text, it records once.
Everything(t) == {AttributeRecorded(t, i) : i \in Attributed(t)} \cup UNION {Recorded(t, i) : i \in Present(t)}

LEMMA EverythingOnce ==
  ASSUME NEW t \in AllTexts, Together(t), NEW r \in Everything(t), NEW s \in Everything(t), r[1] = s[1]
  PROVE  r[2] = s[2]
<1>1. ASSUME NEW i \in Attributed(t), NEW j \in Present(t), NEW x \in Recorded(t, j)
      PROVE  AttributeRecorded(t, i)[1] # x[1]
  <2>1. PICK node : x[1] = [of |-> j, node |-> node]
    BY RecordedIsTold
  <2>2. AttributeRecorded(t, i)[1].of = None
    <3>1. AttributeRecorded(t, i)[1] = [of |-> None, node |-> <<Places(t)[i].attr, AttributeWidth>>]
      BY AttributeIsTold
    <3> QED
      BY <3>1
  <2>3. x[1].of = j
    BY <2>1
  <2>4. j # None
    BY NoneIsNoDefinition DEF Present
  <2> QED
    BY <2>2, <2>3, <2>4
<1>2. ASSUME NEW i \in Attributed(t), r = AttributeRecorded(t, i) PROVE r[2] = s[2]
  <2>1. PICK j \in Attributed(t) : s = AttributeRecorded(t, j)
    BY <1>1, <1>2 DEF Everything
  <2> QED
    BY <1>2, <2>1, AttributeRecordedOnce
<1>3. ASSUME NEW i \in Present(t), r \in Recorded(t, i) PROVE r[2] = s[2]
  <2>1. PICK j \in Present(t) : s \in Recorded(t, j)
    BY <1>1, <1>3 DEF Everything
  <2> QED
    BY <1>3, <2>1, RecordedOnce
<1> QED
  BY <1>2, <1>3 DEF Everything

-----------------------------------------------------------------------------
(* Where an output says that everything is.                                *)

ScopesOf(t) == {BodyScope(i, Places(t)[i]) : i \in {j \in Present(t) : t[j].body.scope}}

PointsTo(source, a, span) == a \in DOMAIN source /\ source[a] = span

\* It is where the text has it.
Stands(out, t) ==
  /\ out.scopes = ScopesOf(t)
  /\ \A i \in Present(t) : \A r \in Recorded(t, i) : PointsTo(out.source, r[1], r[2])
  /\ \A i \in Present(t) :
       IF t[i].attr THEN /\ out.terms[i].attr.of = None
                         /\ PointsTo(out.source, out.terms[i].attr, Span(i, Places(t)[i].attr, AttributeWidth))
                    ELSE out.terms[i].attr = None

LEMMA BuildStands ==
  ASSUME NEW t \in AllTexts, Together(t)
  PROVE  Stands(Build(t), t)
<1>1. PICK rs : rs = AttributeRecords(t, Places(t)) \o
                       FlattenSeq([i \in Defs |-> IF i \in Present(t) THEN DefRecords(t, Places(t), i) ELSE <<>>])
  OBVIOUS
<1>2. Build(t).source = FirstRecorded(rs)
  BY <1>1 DEF Build
<1>3. Build(t).scopes = ScopesOf(t)
  BY DEF Build, ScopesOf
<1>4. Lists(rs, Everything(t))
  <2>1. Lists(AttributeRecords(t, Places(t)), {AttributeRecorded(t, i) : i \in Attributed(t)})
    BY RecordsOfAttributes
  <2>2. Lists(FlattenSeq([i \in Defs |-> IF i \in Present(t) THEN DefRecords(t, Places(t), i) ELSE <<>>]),
              UNION {Recorded(t, i) : i \in Present(t)})
    BY RecordsOfDefinitions
  <2> QED
    BY <1>1, <2>1, <2>2, ListsAppended DEF Everything
<1>5. \A r, s \in Everything(t) : r[1] = s[1] => r[2] = s[2]
  BY EverythingOnce
<1>6. ASSUME NEW r \in Everything(t) PROVE PointsTo(FirstRecorded(rs), r[1], r[2])
  <2>1. DOMAIN FirstRecorded(rs) = {s[1] : s \in Everything(t)}
    BY <1>4, <1>5, ListedIsLocated
  <2>2. \A s \in Everything(t) : FirstRecorded(rs)[s[1]] = s[2]
    BY <1>4, <1>5, ListedIsLocated
  <2> QED
    BY <2>1, <2>2 DEF PointsTo
<1>7. ASSUME NEW i \in Present(t), NEW r \in Recorded(t, i) PROVE PointsTo(Build(t).source, r[1], r[2])
  <2>1. r \in Everything(t)
    BY <1>7 DEF Everything
  <2> QED
    BY <1>2, <1>6, <2>1
<1>8. ASSUME NEW i \in Present(t)
      PROVE  IF t[i].attr
             THEN /\ Build(t).terms[i].attr.of = None
                  /\ PointsTo(Build(t).source, Build(t).terms[i].attr, Span(i, Places(t)[i].attr, AttributeWidth))
             ELSE Build(t).terms[i].attr = None
  <2>1. PICK term, value : /\ term = Build(t).terms[i]
                           /\ term = Term(i, t[i], Places(t)[i], value, RigidStart(t, i))
    BY BuildIsOf
  <2>2. term.attr = IF t[i].attr THEN AttributeAnchor(Places(t)[i]) ELSE None
    BY <2>1 DEF Term
  <2>3. CASE t[i].attr
    <3>1. PICK r : r = AttributeRecorded(t, i) /\ i \in Attributed(t)
      BY <2>3 DEF Attributed
    <3>2. r \in Everything(t)
      BY <3>1 DEF Everything
    <3>3. r[1] = term.attr /\ r[2] = Span(i, Places(t)[i].attr, AttributeWidth)
      BY <2>2, <2>3, <3>1 DEF AttributeRecorded
    <3>4. r[1] = [of |-> None, node |-> <<Places(t)[i].attr, AttributeWidth>>]
      BY <3>1, AttributeIsTold
    <3>5. term.attr.of = None
      BY <3>3, <3>4
    <3> QED
      BY <1>2, <1>6, <2>1, <2>3, <3>2, <3>3, <3>5
  <2>4. CASE ~t[i].attr
    BY <2>1, <2>2, <2>4
  <2> QED
    BY <2>3, <2>4
<1> QED
  BY <1>3, <1>7, <1>8 DEF Stands

LEMMA SpanMoves ==
  ASSUME NEW pairs, NEW i, NEW at, NEW width
  PROVE  MovedSpan(pairs, Span(i, at, width)) = Span(i, Position(pairs, FileOf[i], at), width)
<1>1. PICK s : s = Span(i, at, width) /\ s = [file |-> FileOf[i], start |-> at, width |-> width]
  BY DEF Span
<1>2. MovedSpan(pairs, s) = [file |-> FileOf[i], start |-> Position(pairs, FileOf[i], at), width |-> width]
  BY <1>1 DEF MovedSpan
<1> QED
  BY <1>1, <1>2 DEF Span

\* What was recorded of a definition whose body is as it was moves to where the
\* builder would record it now.
LEMMA RecordsMove ==
  ASSUME NEW t \in AllTexts, NEW u \in AllTexts, Alike(t, u), NEW i \in Present(t), t[i].body = u[i].body,
         NEW r \in Recorded(u, i)
  PROVE  \E s \in Recorded(t, i) : s[1] = r[1] /\ MovedSpan(Pairs(Points(t), Points(u)), s[2]) = r[2]
<1>1. PICK pairs : pairs = Pairs(Points(t), Points(u))
  OBVIOUS
<1>2. i \in Present(u) /\ t[i].h = u[i].h
  BY AlikeIsSame
<1>3. PICK b \in Bodies : b = t[i].body /\ b = u[i].body
  BY DEF Present, AllTexts, Definitions
<1>4. PICK was, now : was = Places(t)[i] /\ now = Places(u)[i]
  OBVIOUS
<1>5. /\ Position(pairs, FileOf[i], was.name) = now.name
      /\ Position(pairs, FileOf[i], was.body) = now.body
      /\ b.width > 1 => Position(pairs, FileOf[i], was.body + 1) = now.body + 1
  BY <1>1, <1>3, <1>4, PartsMove
<1>6. was.body \in Nat /\ now.body \in Nat
  BY <1>2, <1>4, DefinitionLies
<1>7. CASE r = <<NameAnchor(i, now), Span(i, now.name, 1)>>
  <2>1. PICK s : s = <<NameAnchor(i, was), Span(i, was.name, 1)>>
    OBVIOUS
  <2>2. s \in Recorded(t, i)
    BY <1>4, <2>1 DEF Recorded
  <2>3. NameAnchor(i, was) = NameAnchor(i, now)
    BY <1>2, <1>4, NameStands
  <2>4. MovedSpan(pairs, Span(i, was.name, 1)) = Span(i, now.name, 1)
    BY <1>5, SpanMoves
  <2> QED
    BY <1>1, <1>7, <2>1, <2>2, <2>3, <2>4
<1>8. CASE r # <<NameAnchor(i, now), Span(i, now.name, 1)>>
  <2>1. PICK n \in DOMAIN Nodes(b) :
          r = <<BodyAnchors(i, now, b)[n], Span(i, now.body + Nodes(b)[n][1], Nodes(b)[n][2])>>
    BY <1>3, <1>4, <1>8 DEF Recorded
  <2>2. PICK s : s = <<BodyAnchors(i, was, b)[n], Span(i, was.body + Nodes(b)[n][1], Nodes(b)[n][2])>>
    OBVIOUS
  <2>3. s \in Recorded(t, i)
    BY <1>3, <1>4, <2>2 DEF Recorded
  <2>4. BodyAnchors(i, was, b)[n] = BodyAnchors(i, now, b)[n]
    <3>1. PICK h : h = u[i].h /\ h = t[i].h
      BY <1>2
    <3>2. BodyAnchors(i, was, b) =
            [m \in DOMAIN Nodes(b) |-> [of |-> i, node |-> <<1 + h + Nodes(b)[m][1], Nodes(b)[m][2]>>]]
      BY <1>3, <1>4, <3>1, BodyStands
    <3>3. BodyAnchors(i, now, b) =
            [m \in DOMAIN Nodes(b) |-> [of |-> i, node |-> <<1 + h + Nodes(b)[m][1], Nodes(b)[m][2]>>]]
      BY <1>2, <1>3, <1>4, <3>1, BodyStands
    <3> QED
      BY <3>2, <3>3
  <2>5. PICK from, width : from = Nodes(b)[n][1] /\ width = Nodes(b)[n][2]
    OBVIOUS
  <2>6. from = 0 \/ (from = 1 /\ b.width > 1)
    BY <2>5, NodesAre
  <2>7. Position(pairs, FileOf[i], was.body + from) = now.body + from
    BY <1>5, <1>6, <2>6
  <2>8. MovedSpan(pairs, Span(i, was.body + from, width)) = Span(i, now.body + from, width)
    BY <2>7, SpanMoves
  <2> QED
    BY <1>1, <2>1, <2>2, <2>3, <2>4, <2>5, <2>8
<1> QED
  BY <1>7, <1>8

\* No scope of a body is within another body.
LEMMA BodiesAreApart ==
  ASSUME NEW t \in AllTexts, NEW i \in Present(t), NEW j \in Present(t),
         Within(Span(i, Places(t)[i].body, Places(t)[i].end - Places(t)[i].body),
                Span(j, Places(t)[j].body, Places(t)[j].end - Places(t)[j].body))
  PROVE  i = j
<1>1. PICK p : /\ p = Places(t)[i] /\ p.attr \in Nat /\ p.body \in Nat /\ p.end \in Nat
               /\ p.attr < p.body /\ p.body < p.end
  <2>1. PICK p : /\ p = Places(t)[i]
                 /\ p.attr \in Nat /\ p.let \in Nat /\ p.name \in Nat /\ p.body \in Nat /\ p.end \in Nat
                 /\ IF t[i].attr THEN p.attr + AttributeWidth < p.let ELSE p.let = p.attr
                 /\ p.name = p.let + 1 /\ p.name < p.body
                 /\ p.end = p.body + t[i].body.width /\ t[i].body.width \in Nat \ {0}
    BY DefinitionLies
  <2>2. p.attr < p.body /\ p.body < p.end
    BY <2>1 DEF AttributeWidth
  <2> QED
    BY <2>1, <2>2
<1>2. PICK q : /\ q = Places(t)[j] /\ q.attr \in Nat /\ q.body \in Nat /\ q.end \in Nat
               /\ q.attr < q.body /\ q.body < q.end
  <2>1. PICK q : /\ q = Places(t)[j]
                 /\ q.attr \in Nat /\ q.let \in Nat /\ q.name \in Nat /\ q.body \in Nat /\ q.end \in Nat
                 /\ IF t[j].attr THEN q.attr + AttributeWidth < q.let ELSE q.let = q.attr
                 /\ q.name = q.let + 1 /\ q.name < q.body
                 /\ q.end = q.body + t[j].body.width /\ t[j].body.width \in Nat \ {0}
    BY DefinitionLies
  <2>2. q.attr < q.body /\ q.body < q.end
    BY <2>1 DEF AttributeWidth
  <2> QED
    BY <2>1, <2>2
<1>3. FileOf[i] = FileOf[j] /\ q.body <= p.body /\ p.body + (p.end - p.body) <= q.body + (q.end - q.body)
  BY <1>1, <1>2 DEF Within, Span
<1>4. i \in Int /\ j \in Int
  BY DefsAreNumbered DEF Present
<1>5. ~(i < j)
  <2>1. SUFFICES ASSUME i < j PROVE FALSE
    OBVIOUS
  <2>2. p.end < q.attr
    BY <1>1, <1>2, <1>3, <2>1, DefinitionsAreApart
  <2> QED
    BY <1>1, <1>2, <1>3, <2>2
<1>6. ~(j < i)
  <2>1. SUFFICES ASSUME j < i PROVE FALSE
    OBVIOUS
  <2>2. q.end < p.attr
    BY <1>1, <1>2, <1>3, <2>1, DefinitionsAreApart
  <2> QED
    BY <1>1, <1>2, <1>3, <2>2
<1> QED
  BY <1>4, <1>5, <1>6

LEMMA BodyIsWithinItself ==
  ASSUME NEW t \in AllTexts, NEW i \in Present(t)
  PROVE  Within(Span(i, Places(t)[i].body, Places(t)[i].end - Places(t)[i].body),
                Span(i, Places(t)[i].body, Places(t)[i].end - Places(t)[i].body))
<1>1. PICK p : p = Places(t)[i] /\ p.body \in Nat /\ p.end \in Nat
  BY DefinitionLies
<1> QED
  BY <1>1 DEF Within, Span

\* A scope moves with its body.
LEMMA ScopeSpanMoves ==
  ASSUME NEW pairs, NEW file, NEW at, NEW width, NEW from, NEW to,
         Position(pairs, file, at) = from, Position(pairs, file, at + width) = to
  PROVE  MovedScope(pairs, [file |-> file, start |-> at, width |-> width])
           = [file |-> file, start |-> from, width |-> to - from]
<1>1. PICK s : s = [file |-> file, start |-> at, width |-> width]
  OBVIOUS
<1>2. Position(pairs, s.file, s.start) = from /\ Position(pairs, s.file, s.start + s.width) = to
  BY <1>1
<1>3. PICK wide : wide = to - from
  OBVIOUS
<1>4. PICK m : m = [s EXCEPT !.start = from, !.width = wide]
  OBVIOUS
<1>5. DOMAIN m = {"file", "start", "width"} /\ m = [k \in {"file", "start", "width"} |-> m[k]]
  BY <1>1, <1>4
<1>6. m["file"] = file /\ m["start"] = from /\ m["width"] = wide
  BY <1>1, <1>4
<1>7. m = [file |-> file, start |-> from, width |-> wide]
  BY <1>5, <1>6
<1>8. MovedScope(pairs, s) = m
  BY <1>2, <1>3, <1>4 DEF MovedScope
<1> QED
  BY <1>1, <1>3, <1>7, <1>8

LEMMA ScopeMoves ==
  ASSUME NEW t \in AllTexts, NEW u \in AllTexts, Alike(t, u), NEW i \in Present(t)
  PROVE  [BodyScope(i, Places(t)[i]) EXCEPT !.span = MovedScope(Pairs(Points(t), Points(u)), @)]
           = BodyScope(i, Places(u)[i])
<1>1. PICK pairs : pairs = Pairs(Points(t), Points(u))
  OBVIOUS
<1>2. i \in Present(u)
  BY AlikeIsSame
<1>3. PICK p : p = Places(t)[i] /\ p.body \in Nat /\ p.end \in Nat
  BY DefinitionLies
<1>4. PICK q : q = Places(u)[i] /\ q.body \in Nat /\ q.end \in Nat
  BY <1>2, DefinitionLies
<1>5. Position(pairs, FileOf[i], p.body) = q.body /\ Position(pairs, FileOf[i], p.end) = q.end
  BY <1>1, <1>3, <1>4, PartsMove
<1>6. p.body + (p.end - p.body) = p.end
  BY <1>3
<1>7. PICK s : s = Span(i, p.body, p.end - p.body)
               /\ s = [file |-> FileOf[i], start |-> p.body, width |-> p.end - p.body]
  BY DEF Span
<1>8. MovedScope(pairs, s) = [file |-> FileOf[i], start |-> q.body, width |-> q.end - q.body]
  <2>1. Position(pairs, FileOf[i], p.body + (p.end - p.body)) = q.end
    BY <1>5, <1>6
  <2>2. MovedScope(pairs, [file |-> FileOf[i], start |-> p.body, width |-> p.end - p.body])
          = [file |-> FileOf[i], start |-> q.body, width |-> q.end - q.body]
    BY <1>5, <2>1, ScopeSpanMoves
  <2> QED
    BY <1>7, <2>2
<1>9. PICK scope : scope = BodyScope(i, p) /\ scope = [of |-> i, span |-> s]
  BY <1>7 DEF BodyScope
<1>10. [scope EXCEPT !.span = MovedScope(pairs, @)] = [of |-> i, span |-> MovedScope(pairs, s)]
  BY <1>9
<1>11. BodyScope(i, q) = [of |-> i, span |-> MovedScope(pairs, s)]
  BY <1>8 DEF BodyScope, Span
<1> QED
  BY <1>1, <1>3, <1>4, <1>9, <1>10, <1>11

LEMMA EditIsAlike ==
  ASSUME NEW c, NEW t, NEW out, NEW u, IsCache(c, t, out), Reusable(c, u)
  PROVE  Alike(t, u)
<1>1. c.text = t
  BY CacheFields
<1> QED
  BY <1>1 DEF Reusable, Alike

LEMMA UpdatedPlaces ==
  ASSUME NEW c, NEW t, NEW out, NEW u, IsCache(c, t, out)
  PROVE  /\ Updated(c, u).output.source = SourceAfter(c, u, ChangedBodies(t, u))
         /\ Updated(c, u).output.scopes = ScopesAfter(c, u, ChangedBodies(t, u))
<1>1. c.text = t /\ c.output = out
  BY CacheFields
<1>2. PICK edited : edited = ChangedBodies(t, u)
  OBVIOUS
<1>3. PICK terms, groups, scopes, source :
         /\ terms = [i \in DOMAIN out.terms |->
                       IF i \in edited
                       THEN [out.terms[i] EXCEPT !.value = u[i].body, !.name = NameAnchor(i, Places(u)[i]),
                                                 !.nodes = BodyAnchors(i, Places(u)[i], u[i].body)]
                       ELSE out.terms[i]]
         /\ groups = Regrouped(c, Updated(c, u).refs)
         /\ scopes = ScopesAfter(c, u, edited) /\ source = SourceAfter(c, u, edited)
  OBVIOUS
<1>4. PICK new : new = [out EXCEPT !.terms = terms, !.groups = groups, !.scopes = scopes, !.source = source]
  OBVIOUS
<1>5. Updated(c, u).output = new
  BY <1>1, <1>2, <1>3, <1>4 DEF Updated
<1>6. out = [terms |-> out.terms, groups |-> out.groups, mut |-> out.mut, errors |-> out.errors,
             scopes |-> out.scopes, source |-> out.source]
  BY DEF IsCache, IsProgram
<1>7. new.scopes = scopes /\ new.source = source
  BY <1>4, <1>6
<1> QED
  BY <1>2, <1>3, <1>5, <1>7

\* What was edited is recorded, and everything else moves.
LEMMA SourceAfterIs ==
  ASSUME NEW c, NEW t, NEW out, NEW u \in AllTexts, IsCache(c, t, out), NEW edited \in SUBSET Present(u)
  PROVE  /\ \A i \in edited : \A r \in Recorded(u, i) : PointsTo(SourceAfter(c, u, edited), r[1], r[2])
         /\ \A a \in DOMAIN out.source : a.of \notin edited =>
              PointsTo(SourceAfter(c, u, edited), a, MovedSpan(Pairs(Points(t), Points(u)), out.source[a]))
<1>1. c.text = t /\ c.output = out
  BY CacheFields
<1>2. PICK pairs, was : pairs = Pairs(Points(t), Points(u)) /\ was = out.source
  OBVIOUS
<1>3. PICK rs : rs = FlattenSeq([i \in Defs |-> IF i \in edited THEN DefRecords(u, Places(u), i) ELSE <<>>])
  OBVIOUS
<1>4. PICK T : T = UNION {Recorded(u, i) : i \in edited}
  OBVIOUS
<1>5. Lists(rs, T)
  BY <1>3, <1>4, RecordsOfDefinitions
<1>6. ASSUME NEW r \in T, NEW s \in T, r[1] = s[1] PROVE r[2] = s[2]
  BY <1>4, <1>6, RecordedOnce
<1>7. PICK fresh : fresh = FirstRecorded(rs)
  OBVIOUS
<1>8. DOMAIN FirstRecorded(rs) = {r[1] : r \in T}
  BY <1>5, <1>6, ListedIsLocated
<1>9. \A r \in T : FirstRecorded(rs)[r[1]] = r[2]
  BY <1>5, <1>6, ListedIsLocated
<1>10. ASSUME NEW r \in T PROVE r[1].of \in edited
  <2>1. PICK i \in edited : r \in Recorded(u, i)
    BY <1>4
  <2>2. PICK node : r[1] = [of |-> i, node |-> node]
    BY <2>1, RecordedIsTold
  <2> QED
    BY <2>2
<1>11. PICK kept : kept = [a \in {b \in DOMAIN was : b.of \notin edited} |-> MovedSpan(pairs, was[a])]
  OBVIOUS
<1>12. PICK source : source = SourceAfter(c, u, edited)
  OBVIOUS
<1>13. source = [a \in DOMAIN kept \cup DOMAIN fresh |-> IF a \in DOMAIN fresh THEN fresh[a] ELSE kept[a]]
  BY <1>1, <1>2, <1>3, <1>7, <1>11, <1>12 DEF SourceAfter
<1>14. ASSUME NEW i \in edited, NEW r \in Recorded(u, i) PROVE PointsTo(source, r[1], r[2])
  <2>1. r \in T
    BY <1>4, <1>14
  <2>2. r[1] \in DOMAIN fresh /\ fresh[r[1]] = r[2]
    BY <1>7, <1>8, <1>9, <2>1
  <2> QED
    BY <1>13, <2>2 DEF PointsTo
<1>15. ASSUME NEW a \in DOMAIN was, a.of \notin edited PROVE PointsTo(source, a, MovedSpan(pairs, was[a]))
  <2>1. a \in DOMAIN kept /\ kept[a] = MovedSpan(pairs, was[a])
    BY <1>11, <1>15
  <2>2. a \notin DOMAIN fresh
    BY <1>7, <1>8, <1>10, <1>15
  <2> QED
    BY <1>13, <2>1, <2>2 DEF PointsTo
<1> QED
  BY <1>2, <1>12, <1>14, <1>15

\* The scopes that bodies have are those of the edited text.
LEMMA ScopesStand ==
  ASSUME NEW c, NEW t \in AllTexts, NEW out, NEW u \in AllTexts, IsCache(c, t, out), Alike(t, u), out.scopes = ScopesOf(t)
  PROVE  ScopesAfter(c, u, ChangedBodies(t, u)) = ScopesOf(u)
<1>1. c.text = t /\ c.output = out
  BY CacheFields
<1>2. PICK pairs, was, now : pairs = Pairs(Points(t), Points(u)) /\ was = Places(t) /\ now = Places(u)
  OBVIOUS
<1>3. PICK edited : edited = ChangedBodies(t, u)
  OBVIOUS
<1>4. Present(t) = Present(u)
  BY AlikeIsSame
<1>5. PICK scoped : scoped = {i \in Present(t) : t[i].body.scope}
  OBVIOUS
<1> DEFINE InEdited(s) == \E j \in edited : Within(s, Span(j, was[j].body, was[j].end - was[j].body))
<1> DEFINE Moved(s) == [s EXCEPT !.span = MovedScope(pairs, @)]
<1>6. ScopesAfter(c, u, edited)
        = {Moved(s) : s \in {x \in out.scopes : ~InEdited(x.span)}}
            \cup {BodyScope(i, now[i]) : i \in {j \in edited : u[j].body.scope}}
  BY <1>1, <1>2 DEF ScopesAfter
<1>7. ASSUME NEW i \in Present(t) PROVE InEdited(BodyScope(i, was[i]).span) <=> i \in edited
  <2>1. BodyScope(i, was[i]).span = Span(i, was[i].body, was[i].end - was[i].body)
    BY DEF BodyScope
  <2>2. edited \subseteq Present(t)
    BY <1>3, <1>4 DEF ChangedBodies
  <2>3. ASSUME NEW j \in edited, Within(BodyScope(i, was[i]).span, Span(j, was[j].body, was[j].end - was[j].body))
        PROVE  i = j
    BY <1>2, <2>1, <2>2, <2>3, BodiesAreApart
  <2>4. i \in edited => InEdited(BodyScope(i, was[i]).span)
    BY <1>2, <2>1, BodyIsWithinItself
  <2> QED
    BY <2>3, <2>4
<1>8. ASSUME NEW i \in Present(t) PROVE Moved(BodyScope(i, was[i])) = BodyScope(i, now[i])
  BY <1>2, ScopeMoves
<1>9. out.scopes = {BodyScope(i, was[i]) : i \in scoped}
  BY <1>2, <1>5 DEF ScopesOf
<1> HIDE DEF InEdited, Moved
<1>10. {Moved(s) : s \in {x \in out.scopes : ~InEdited(x.span)}} = {BodyScope(i, now[i]) : i \in scoped \ edited}
  <2>1. {x \in out.scopes : ~InEdited(x.span)} = {BodyScope(i, was[i]) : i \in scoped \ edited}
    BY <1>5, <1>7, <1>9
  <2>2. \A i \in scoped \ edited : Moved(BodyScope(i, was[i])) = BodyScope(i, now[i])
    BY <1>5, <1>8
  <2>3. PICK these : these = scoped \ edited
    OBVIOUS
  <2>4. {Moved(s) : s \in {BodyScope(i, was[i]) : i \in these}} = {Moved(BodyScope(i, was[i])) : i \in these}
    OBVIOUS
  <2>5. {Moved(BodyScope(i, was[i])) : i \in these} = {BodyScope(i, now[i]) : i \in these}
    BY <2>2, <2>3
  <2> QED
    BY <2>1, <2>3, <2>4, <2>5
<1>11. ASSUME NEW j \in Present(u) \ edited PROVE u[j].body = t[j].body
  BY <1>3, <1>11 DEF ChangedBodies
<1>12. edited \subseteq Present(u)
  BY <1>3 DEF ChangedBodies
<1>13. {j \in Present(u) : u[j].body.scope} = (scoped \ edited) \cup {j \in edited : u[j].body.scope}
  BY <1>4, <1>5, <1>11, <1>12
<1>14. ScopesOf(u)
         = {BodyScope(i, now[i]) : i \in scoped \ edited} \cup {BodyScope(i, now[i]) : i \in {j \in edited : u[j].body.scope}}
  BY <1>2, <1>13 DEF ScopesOf
<1> QED
  BY <1>2, <1>3, <1>6, <1>10, <1>14

\* Whatever stood before an edit that the cache follows stands after it.
LEMMA UpdateStands ==
  ASSUME NEW c, NEW t \in AllTexts, NEW out, NEW u \in AllTexts, IsCache(c, t, out), Reusable(c, u), Stands(out, t)
  PROVE  Stands(Updated(c, u).output, u)
<1>1. Alike(t, u)
  BY EditIsAlike
<1>2. /\ Present(t) = Present(u)
      /\ \A i \in Present(u) : t[i].attr = u[i].attr
  BY <1>1, AlikeIsSame
<1>3. PICK new : /\ new = Updated(c, u).output
                 /\ \A i \in Present(u) : new.terms[i] = IF i \in ChangedBodies(t, u)
                                                         THEN UpdatedTerm(i, u, out.terms[i]) ELSE out.terms[i]
  <2>1. PICK new :
           /\ Updated(c, u) = [text |-> u, output |-> new, rigids |-> c.rigids, muts |-> UsesOfMut(u),
                               refs |-> ReferencesIn(u), aliases |-> [i \in Present(u) |-> Links(i, u[i].body)]]
           /\ IsProgram(new) /\ DOMAIN new.terms = Present(u)
           /\ \A i \in Present(u) : new.terms[i] = IF i \in ChangedBodies(t, u)
                                                   THEN UpdatedTerm(i, u, out.terms[i]) ELSE out.terms[i]
           /\ new.groups = Regrouped(c, ReferencesIn(u))
           /\ new.mut = out.mut /\ new.errors = out.errors
    BY UpdatedProgram
  <2>2. Updated(c, u).output = new
    BY <2>1
  <2> QED
    BY <2>1, <2>2
<1>4. PICK edited : edited = ChangedBodies(t, u) /\ edited \in SUBSET Present(u)
  BY DEF ChangedBodies
<1>5. PICK source : source = SourceAfter(c, u, edited) /\ new.source = source
  BY <1>3, <1>4, UpdatedPlaces
<1>6. PICK pairs : pairs = Pairs(Points(t), Points(u))
  OBVIOUS
<1>7. \A i \in edited : \A r \in Recorded(u, i) : PointsTo(source, r[1], r[2])
  BY <1>4, <1>5, SourceAfterIs
<1>8. \A a \in DOMAIN out.source : a.of \notin edited => PointsTo(source, a, MovedSpan(pairs, out.source[a]))
  BY <1>4, <1>5, <1>6, SourceAfterIs
<1>9. ASSUME NEW i \in Present(u), NEW r \in Recorded(u, i) PROVE PointsTo(source, r[1], r[2])
  <2>1. CASE i \in edited
    BY <1>7, <2>1
  <2>2. CASE i \notin edited
    <3>1. t[i].body = u[i].body
      BY <1>4, <2>2 DEF ChangedBodies
    <3>2. PICK s \in Recorded(t, i) : s[1] = r[1] /\ MovedSpan(pairs, s[2]) = r[2]
      BY <1>1, <1>2, <1>6, <3>1, RecordsMove
    <3>3. s[1] \in DOMAIN out.source /\ out.source[s[1]] = s[2]
      BY <1>2 DEF Stands, PointsTo
    <3>4. PICK node : r[1] = [of |-> i, node |-> node]
      BY RecordedIsTold
    <3>5. r[1].of \notin edited
      BY <2>2, <3>4
    <3> QED
      BY <1>8, <3>2, <3>3, <3>5
  <2> QED
    BY <2>1, <2>2
<1>10. ASSUME NEW i \in Present(u)
       PROVE  IF u[i].attr THEN /\ new.terms[i].attr.of = None
                                /\ PointsTo(source, new.terms[i].attr, Span(i, Places(u)[i].attr, AttributeWidth))
                           ELSE new.terms[i].attr = None
  <2>1. new.terms[i].attr = out.terms[i].attr
    <3>1. PICK term : term = out.terms[i]
      OBVIOUS
    <3>2. UpdatedTerm(i, u, term).attr = term.attr
      BY DEF UpdatedTerm
    <3>3. new.terms[i] = UpdatedTerm(i, u, term) \/ new.terms[i] = term
      BY <1>3, <3>1
    <3> QED
      BY <3>1, <3>2, <3>3
  <2>2. PICK a : a = out.terms[i].attr
    OBVIOUS
  <2>3. IF t[i].attr THEN a.of = None /\ PointsTo(out.source, a, Span(i, Places(t)[i].attr, AttributeWidth))
                     ELSE a = None
    BY <1>2, <2>2 DEF Stands
  <2>4. CASE u[i].attr
    <3>1. /\ a.of = None /\ a \in DOMAIN out.source
          /\ out.source[a] = Span(i, Places(t)[i].attr, AttributeWidth)
      BY <1>2, <2>3, <2>4 DEF PointsTo
    <3>2. a.of \notin edited
      BY <1>4, <3>1, NoneIsNoDefinition DEF Present
    <3>3. PointsTo(source, a, MovedSpan(pairs, Span(i, Places(t)[i].attr, AttributeWidth)))
      BY <1>8, <3>1, <3>2
    <3>4. Position(pairs, FileOf[i], Places(t)[i].attr) = Places(u)[i].attr
      BY <1>1, <1>2, <1>6, <2>4, PartsMove
    <3>5. MovedSpan(pairs, Span(i, Places(t)[i].attr, AttributeWidth)) = Span(i, Places(u)[i].attr, AttributeWidth)
      BY <3>4, SpanMoves
    <3> QED
      BY <2>1, <2>2, <2>4, <3>1, <3>3, <3>5
  <2>5. CASE ~u[i].attr
    BY <1>2, <2>1, <2>2, <2>3, <2>5
  <2> QED
    BY <2>4, <2>5
<1>11. new.scopes = ScopesOf(u)
  <2>1. new.scopes = ScopesAfter(c, u, ChangedBodies(t, u))
    BY <1>3, UpdatedPlaces
  <2>2. out.scopes = ScopesOf(t)
    BY DEF Stands
  <2> QED
    BY <1>1, <2>1, <2>2, ScopesStand
<1>12. Stands(new, u)
  BY <1>5, <1>9, <1>10, <1>11 DEF Stands
<1> QED
  BY <1>3, <1>12

-----------------------------------------------------------------------------
(* Places, step by step.                                                   *)

\* However an editor writes, it gives attributes in one file only.
AttributesInOneFile == \A x \in Habits : \A i, j \in x.attributes : FileOf[i] = FileOf[j]

AttributesFollow == \A i \in Defs : text[i].attr \/ lowered[i].attr => i \in habit.attributes

PlacesInv == AttributesFollow /\ Stands(output, lowered)

LEMMA AbsentHasNoAttribute == Absent.attr = FALSE /\ \A h, b : Written(h, b).attr = FALSE
BY DEF Absent, Written

LEMMA PlacesInit == Init => PlacesInv
<1> SUFFICES ASSUME Init PROVE PlacesInv
  OBVIOUS
<1>1. lowered = [i \in Defs |-> Absent] /\ output = Nothing
  BY DEF Init
<1>2. \A i \in Defs : text[i].attr = FALSE
  BY AbsentHasNoAttribute DEF Init
<1>3. AttributesFollow
  BY <1>1, <1>2, AbsentHasNoAttribute DEF AttributesFollow
<1>4. Present(lowered) = {}
  BY <1>1 DEF Present, Absent, Written
<1>5. Stands(output, lowered)
  BY <1>1, <1>4 DEF Stands, ScopesOf, Nothing
<1> QED
  BY <1>3, <1>5 DEF PlacesInv

LEMMA TogetherHolds ==
  ASSUME AttributesInOneFile, habit \in Habits, AttributesFollow
  PROVE  Together(text)
BY DEF AttributesInOneFile, AttributesFollow, Together, Attributed, Present

LEMMA PlacesEdit ==
  ASSUME LoweringInv, PlacesInv, Edit, UNCHANGED habit
  PROVE  PlacesInv'
<1>1. PICK i \in habit.defs :
        \/ \E h \in habit.headers \ {None}, b \in habit.bodies :
             text' = [text EXCEPT ![i].h = h, ![i].body = b]
        \/ None \in habit.headers /\ text' = [text EXCEPT ![i] = Absent]
        \/ text[i].h # None /\ \E n \in habit.gaps : text' = [text EXCEPT ![i].gap = n]
        \/ text[i].attr /\ \E n \in habit.gaps : text' = [text EXCEPT ![i].mid = n]
        \/ /\ i \in habit.attributes /\ text[i].h # None
           /\ text' = [text EXCEPT ![i].attr = ~@, ![i].mid = 0]
  BY DEF Edit
<1>2. habit.defs \subseteq Defs
  BY HabitsAreWritten DEF LoweringInv, TextsAreWritten
<1>3. text \in [Defs -> Definitions] /\ i \in Defs /\ text[i] \in Definitions
  BY <1>1, <1>2 DEF LoweringInv, TextsAreWritten, AllTexts
<1>4. \A j \in Defs : j # i => text'[j] = text[j]
  BY <1>1, <1>3
<1>5. text'[i].attr => text[i].attr \/ i \in habit.attributes
  <2>1. CASE \E h \in habit.headers \ {None}, b \in habit.bodies :
               text' = [text EXCEPT ![i].h = h, ![i].body = b]
    BY <1>3, <2>1 DEF Definitions
  <2>2. CASE None \in habit.headers /\ text' = [text EXCEPT ![i] = Absent]
    BY <1>3, <2>2, AbsentHasNoAttribute
  <2>3. CASE text[i].h # None /\ \E n \in habit.gaps : text' = [text EXCEPT ![i].gap = n]
    BY <1>3, <2>3 DEF Definitions
  <2>4. CASE text[i].attr /\ \E n \in habit.gaps : text' = [text EXCEPT ![i].mid = n]
    BY <2>4
  <2>5. CASE /\ i \in habit.attributes /\ text[i].h # None
             /\ text' = [text EXCEPT ![i].attr = ~@, ![i].mid = 0]
    BY <2>5
  <2> QED
    BY <1>1, <2>1, <2>2, <2>3, <2>4, <2>5
<1>6. UNCHANGED <<lowered, output>>
  BY DEF Edit
<1>7. AttributesFollow'
  BY <1>4, <1>5, <1>6 DEF PlacesInv, AttributesFollow
<1> QED
  BY <1>6, <1>7 DEF PlacesInv

LEMMA PlacesLower ==
  ASSUME AttributesInOneFile, LoweringInv, PlacesInv, Lower, UNCHANGED habit
  PROVE  PlacesInv'
<1>1. lowered' = text /\ text' = text /\ text \in AllTexts /\ lowered \in AllTexts /\ habit \in Habits
  BY DEF Lower, LoweringInv, TextsAreWritten
<1>2. AttributesFollow'
  BY <1>1 DEF PlacesInv, AttributesFollow
<1>3. CASE Reusable(cached, text)
  <2>1. output' = Updated(cached, text).output
    BY <1>3 DEF Lower
  <2>2. cached # None
    BY <1>3 DEF Reusable
  <2>3. IsCache(cached, lowered, output)
    BY <2>2 DEF LoweringInv, CacheIsCurrent
  <2>4. Stands(Updated(cached, text).output, text)
    BY <1>1, <1>3, <2>3, UpdateStands DEF PlacesInv
  <2> QED
    BY <1>1, <1>2, <2>1, <2>4 DEF PlacesInv
<1>4. CASE ~Reusable(cached, text)
  <2>1. output' = Build(text)
    BY <1>4 DEF Lower
  <2>2. Stands(Build(text), text)
    BY <1>1, TogetherHolds, BuildStands DEF PlacesInv
  <2> QED
    BY <1>1, <1>2, <2>1, <2>2 DEF PlacesInv
<1> QED
  BY <1>3, <1>4

LEMMA PlacesNext == AttributesInOneFile /\ LoweringInv /\ PlacesInv /\ [Next]_vars => PlacesInv'
<1> SUFFICES ASSUME AttributesInOneFile, LoweringInv, PlacesInv, [Next]_vars PROVE PlacesInv'
  OBVIOUS
<1>1. CASE Edit /\ UNCHANGED habit
  BY <1>1, PlacesEdit
<1>2. CASE Lower /\ UNCHANGED habit
  BY <1>2, PlacesLower
<1>3. CASE CancelLowering /\ UNCHANGED habit
  BY <1>3 DEF CancelLowering, PlacesInv, AttributesFollow
<1>4. CASE Infer /\ UNCHANGED habit
  BY <1>4 DEF Infer, PlacesInv, AttributesFollow
<1>5. CASE CancelInference /\ UNCHANGED habit
  BY <1>5 DEF CancelInference, PlacesInv, AttributesFollow
<1>6. CASE UNCHANGED vars
  BY <1>6 DEF vars, state, PlacesInv, AttributesFollow
<1> QED
  BY <1>1, <1>2, <1>3, <1>4, <1>5, <1>6 DEF Next

\* What stands is where lowering the text afresh has it.
LEMMA StandsIsCurrent ==
  ASSUME AttributesInOneFile, LoweringInv, PlacesInv
  PROVE  PlacesAreCurrent
<1>1. PICK t, out, new : t = lowered /\ out = output /\ new = Build(t)
  OBVIOUS
<1>2. t \in AllTexts /\ Together(t)
  BY <1>1 DEF LoweringInv, TextsAreWritten, PlacesInv, AttributesInOneFile, AttributesFollow,
               Together, Attributed, Present
<1>3. Stands(out, t)
  BY <1>1 DEF PlacesInv
<1>4. Stands(new, t)
  BY <1>1, <1>2, BuildStands
<1>5. DOMAIN new.terms = Present(t) /\ \A i \in Present(t) : Code(out.terms[i]) = Code(new.terms[i])
  BY <1>1, BuildIsOf DEF LoweringInv, Says
<1>6. out.scopes = new.scopes
  BY <1>3, <1>4 DEF Stands
<1>7. ASSUME NEW i \in Present(t)
      PROVE  /\ Located(out.source, out.terms[i].name) = Located(new.source, new.terms[i].name)
             /\ out.terms[i].attr # None =>
                  Located(out.source, out.terms[i].attr) = Located(new.source, new.terms[i].attr)
             /\ \A n \in DOMAIN new.terms[i].nodes :
                  Located(out.source, out.terms[i].nodes[n]) = Located(new.source, new.terms[i].nodes[n])
  <2>1. PICK term, value : /\ term = new.terms[i]
                           /\ term = Term(i, t[i], Places(t)[i], value, RigidStart(t, i))
    BY <1>1, BuildIsOf
  <2>2. /\ term.name = NameAnchor(i, Places(t)[i])
        /\ term.nodes = BodyAnchors(i, Places(t)[i], t[i].body)
    BY <2>1 DEF Term
  <2>3. out.terms[i].name = term.name /\ out.terms[i].nodes = term.nodes
    <3>1. Code(out.terms[i]) = Code(term)
      BY <1>5, <2>1
    <3> QED
      BY <3>1 DEF Code
  <2>4. ASSUME NEW r \in Recorded(t, i) PROVE Located(out.source, r[1]) = Located(new.source, r[1])
    BY <1>3, <1>4 DEF Stands, PointsTo, Located
  <2>5. Located(out.source, term.name) = Located(new.source, term.name)
    <3>1. PICK r : r = <<NameAnchor(i, Places(t)[i]), Span(i, Places(t)[i].name, 1)>>
      OBVIOUS
    <3>2. r \in Recorded(t, i) /\ r[1] = term.name
      BY <2>2, <3>1 DEF Recorded
    <3> QED
      BY <2>4, <3>2
  <2>6. ASSUME NEW n \in DOMAIN term.nodes
        PROVE  Located(out.source, term.nodes[n]) = Located(new.source, term.nodes[n])
    <3>1. n \in DOMAIN Nodes(t[i].body)
      BY <2>2, <2>6 DEF BodyAnchors
    <3>2. PICK r : r = <<BodyAnchors(i, Places(t)[i], t[i].body)[n],
                         Span(i, Places(t)[i].body + Nodes(t[i].body)[n][1], Nodes(t[i].body)[n][2])>>
      OBVIOUS
    <3>3. r \in Recorded(t, i) /\ r[1] = term.nodes[n]
      BY <2>2, <3>1, <3>2 DEF Recorded
    <3> QED
      BY <2>4, <3>3
  <2>7. ASSUME out.terms[i].attr # None
        PROVE  Located(out.source, out.terms[i].attr) = Located(new.source, new.terms[i].attr)
    <3>1. t[i].attr
      BY <1>3, <2>7 DEF Stands
    <3>2. PointsTo(out.source, out.terms[i].attr, Span(i, Places(t)[i].attr, AttributeWidth))
      BY <1>3, <3>1 DEF Stands
    <3>3. PointsTo(new.source, new.terms[i].attr, Span(i, Places(t)[i].attr, AttributeWidth))
      BY <1>4, <3>1 DEF Stands
    <3> QED
      BY <3>2, <3>3 DEF PointsTo, Located
  <2> QED
    BY <2>1, <2>3, <2>5, <2>6, <2>7
<1> QED
  BY <1>1, <1>5, <1>6, <1>7 DEF PlacesAreCurrent

-----------------------------------------------------------------------------
(* Theorems.                                                               *)

\* A cache is of the text that was lowered last, and holds of it what an
\* ordinary lowering would have recorded (Cached, src/ir/incremental.rs).
THEOREM LoweringTypes == Spec => []TypeOK
<1>1. LoweringInv => TypeOK
  <2> SUFFICES ASSUME LoweringInv PROVE TypeOK
    OBVIOUS
  <2>1. ASSUME cached # None
        PROVE  /\ cached.output.errors = {}
               /\ cached = [Snapshot(cached.text, cached.output) EXCEPT !.output = cached.output]
    <3>1. IsCache(cached, lowered, output)
      BY <2>1 DEF LoweringInv, CacheIsCurrent
    <3>2. cached.text = lowered /\ cached.output = output
      BY <3>1, CacheFields
    <3>3. cached = Snapshot(cached.text, cached.output) /\ output.errors = {}
      BY <3>1, <3>2 DEF IsCache
    <3>4. PICK c : c = Snapshot(cached.text, cached.output)
      OBVIOUS
    <3>5. c = [c EXCEPT !.output = cached.output]
      BY <3>4 DEF Snapshot
    <3> QED
      BY <3>2, <3>3, <3>4, <3>5
  <2> QED
    BY <2>1 DEF TypeOK, LoweringInv, PhasesFollow
<1> QED
  BY <1>1, Invariant, PTL

\* Whatever was edited since the whole text was lowered, the incremental
\* lowering returns the program, the groups and the errors that lowering it
\* afresh returns (Cached::update, src/ir/incremental.rs).
THEOREM IncrementalIsExact == Spec => []ProgramIsCurrent
<1>1. LoweringInv => ProgramIsCurrent
  BY BuildIsOf DEF LoweringInv, Says, ProgramIsCurrent
<1> QED
  BY <1>1, Invariant, PTL

\* Whatever was cancelled on the way, when inference is not behind it has read
\* the program that was lowered last (prepare_bodies, src/inference/queries.rs).
THEOREM InferenceMissesNothing == Spec => []InferenceIsCurrent
<1>1. LoweringInv => InferenceIsCurrent
  BY DEF LoweringInv, NothingIsMissed, AreOf, InferenceIsCurrent
<1> QED
  BY <1>1, Invariant, PTL

\* However often what was kept has moved, every anchor of the program, the
\* names, the bodies, the attributes and the scopes of local imports, points to
\* where lowering the text afresh has it, given that attributes are written in
\* one file: an attribute's anchor does not tell the file (Relocations,
\* src/ir/incremental.rs; SourceMap, src/tracking.rs).
THEOREM PlacesMove == AttributesInOneFile => (Spec => []PlacesAreCurrent)
<1> SUFFICES ASSUME AttributesInOneFile PROVE Spec => []PlacesAreCurrent
  OBVIOUS
<1>1. LoweringInv /\ PlacesInv => PlacesAreCurrent
  BY StandsIsCurrent
<1>2. LoweringInv /\ PlacesInv /\ [Next]_vars => PlacesInv'
  BY PlacesNext
<1> QED
  BY <1>1, <1>2, PlacesInit, Invariant, PTL DEF Spec
=============================================================================
