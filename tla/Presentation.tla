---------------------------- MODULE Presentation ----------------------------
(***************************************************************************)
(* The spellings of a presence formula a printer chooses from              *)
(* (presentation_groups of src/inference/sat.rs): each connected component *)
(* as alternatives, as conditions and as it stands.  Every search is       *)
(* bounded, and a component no search can finish keeps its own formula.    *)
(***************************************************************************)
EXTENDS Implicants

CONSTANT Cases    \* what is presented: a set of [formula, limits]

VARIABLES
    limits,     \* the limits, which do not change
    formula,    \* what is presented
    waiting,    \* components left: Seq([formula, atoms])
    stage,      \* "dnf", "solve dnf", "cnf", "solve cnf" of the first of them
    products,   \* the solver's products so far
    dnf,        \* the first one's alternatives once known
    groups      \* components done

MaxTerms == limits.terms             \* PRESENTATION_MAX_TERMS
PresentationRows == limits.rows      \* PRESENTATION_MINTERMS, a power of 2
BinaryAtoms == limits.atoms          \* PRESENTATION_BINARY_ATOMS
BinaryClauses == limits.binary       \* PRESENTATION_BINARY_CLAUSES
ReductionClauses == limits.clauses   \* PRESENTATION_REDUCTION_CLAUSES
ReductionLiterals == limits.literals \* PRESENTATION_REDUCTION_LITERALS

\* A search has at most one result: a set of at most one.
None == {}

-----------------------------------------------------------------------------
(* Covers read off a formula's syntax.                                     *)

\* Absorption before the limit is looked at.
PushCube(cover, cube) ==
    IF \E i \in DOMAIN cover : CubeCovers(cover[i], cube) THEN {cover}
    ELSE LET left == SelectSeq(cover, LAMBDA other : ~CubeCovers(cube, other))
         IN IF Len(left) = MaxTerms THEN None ELSE {Append(left, cube)}

CoverOr(left, right) ==
    FoldLeft(LAMBDA found, cube : UNION {PushCube(c, cube) : c \in found},
             {left}, right)

Agree(one, other) == \A at \in Looked(one) \cap Looked(other) : one[at] = other[at]
Merged(one, other) ==
    [at \in DOMAIN one |-> IF one[at] = Free THEN other[at] ELSE one[at]]
CoverAnd(left, right) ==
    LET with(one) == LET agreeing == SelectSeq(right, LAMBDA o : Agree(one, o))
                     IN [i \in DOMAIN agreeing |-> Merged(one, agreeing[i])]
    IN CoverOr(<<>>, FlattenSeq([i \in DOMAIN left |-> with(left[i])]))

\* The cover of the assignments under which `f` comes out `want`.
RECURSIVE FormulaCover(_, _, _)
FormulaCover(f, want, atoms) ==
    LET left == [value \in BOOLEAN |-> FormulaCover(f.left, value, atoms)]
        right == [value \in BOOLEAN |-> FormulaCover(f.right, value, atoms)]
        both(one, other) == UNION {CoverAnd(l, r) : l \in left[one], r \in right[other]}
        either(ls, rs) == UNION {CoverOr(l, r) : l \in ls, r \in rs}
    IN CASE Constant(f) -> IF (f = True) = want THEN {<<Anything(Len(atoms))>>}
                           ELSE {<<>>}
         [] f.op = "atom" -> {<<[at \in DOMAIN atoms |->
                                  IF atoms[at] # f.atom THEN Free
                                  ELSE IF want THEN 1 ELSE 0]>>}
         [] Unary(f) -> FormulaCover(f.of, want = (f.op # "not"), atoms)
         [] f.op \in {"and", "or"} ->
              IF want = (f.op = "and") THEN both(want, want)
              ELSE either(left[want], right[want])
         [] OTHER ->
              LET equal == (f.op = "iff") = want
              IN either(both(TRUE, equal), both(FALSE, ~equal))

CanonicalOrder(cover) == Sorted(ToSet(cover), CubeBefore)

\* Two cubes that differ in one literal are joined, the first two in canonical
\* order first, until no two do.
RECURSIVE Joined(_)
Joined(cover) ==
    LET pairs == {<<i, j>> \in (DOMAIN cover) \X (DOMAIN cover) :
                    i < j /\ Combines(cover[i], cover[j])}
        pair == CHOOSE p \in pairs : \A q \in pairs :
                  p[1] < q[1] \/ (p[1] = q[1] /\ p[2] <= q[2])
        without == RemoveAt(RemoveAt(cover, pair[2]), pair[1])
        joined == PushCube(without, Combined(cover[pair[1]], cover[pair[2]]))
    IN IF pairs = {} THEN cover
       ELSE Joined(CanonicalOrder(FlattenSeq(SetToSeq(joined))))

PresentationMinimized(cover) ==
    IF TooManyRows(cover, PresentationRows)
    THEN Joined(CanonicalOrder(cover))
    ELSE LET rows == Rows(cover) IN Chosen(rows, Primes(rows))

-----------------------------------------------------------------------------
(* Relationships found in a cover.  A result is what was found, in order,  *)
(* and the positions of the cubes it stands for.                           *)

Take(found, part, cubes) == [parts |-> Append(found.parts, part),
                             used |-> found.used \cup cubes]
Nothing == [parts |-> <<>>, used |-> {}]
Left(cover, found) ==
    LET left == Sorted((DOMAIN cover) \ found.used, <)
    IN [i \in DOMAIN left |-> cover[left[i]]]

\* The literals that a forbidden product leaves.
Excuses(atoms, cube) ==
    LET looked == Literals(cube)
    IN [i \in DOMAIN looked |-> Literal(atoms, looked[i], 1 - cube[looked[i]])]

\* Two assignments of two atoms that are opposite, under the same others.
Pairs(one, other) ==
    /\ Looked(one) = Looked(other)
    /\ Cardinality(Differing(one, other)) = 2
PairedRelation(atoms, one, other, cnf) ==
    LET differ == Sorted(Differing(one, other), <)
        common == [at \in DOMAIN one |-> IF one[at] = other[at] THEN one[at] ELSE Free]
        left == Atom(atoms[differ[1]])
        right == Atom(atoms[differ[2]])
        relation == IF (one[differ[1]] = one[differ[2]]) # cnf
                    THEN Iff(left, right) ELSE Xor(left, right)
    IN IF cnf THEN AnyOf(Append(Excuses(atoms, common), relation))
       ELSE And(Product(atoms, common), relation)
Relations(atoms, cover, cnf) ==
    FoldLeft(LAMBDA found, at :
        LET partners == {other \in (at + 1)..Len(cover) :
                           other \notin found.used /\ Pairs(cover[at], cover[other])}
            other == CHOOSE o \in partners : \A p \in partners : o <= p
        IN IF at \in found.used \/ partners = {} THEN found
           ELSE Take(found, PairedRelation(atoms, cover[at], cover[other], cnf),
                     {at, other}),
      Nothing, [i \in DOMAIN cover |-> i])

\* The two-literal cubes that make `pivot` the definition of the other
\* literals of a cube.
Spokes(cube, pivot) ==
    {[at \in DOMAIN cube |-> IF at \in {pivot, input} THEN 1 - cube[at] ELSE Free] :
        input \in Looked(cube) \ {pivot}}
\* Mutant: one of them is enough.
MissingNone(cover, found, spokes) ==
    \E i \in (DOMAIN cover) \ found.used : cover[i] \in spokes
MissingSpokes(cover, found, spokes) ==
    spokes \subseteq {cover[i] : i \in (DOMAIN cover) \ found.used}

Gates(atoms, cover) ==
    FoldLeft(LAMBDA found, at :
        LET cube == cover[at]
            pivots == {pivot \in Looked(cube) :
                         MissingSpokes(cover, found, Spokes(cube, pivot))}
            pivot == CHOOSE p \in pivots : \A q \in pivots : p <= q
            others == SelectSeq(Literals(cube), LAMBDA input : input # pivot)
            inputs == [i \in DOMAIN others |->
                         Literal(atoms, others[i],
                                 IF cube[others[i]] = cube[pivot] THEN 0 ELSE 1)]
            definition == IF cube[pivot] = 1 THEN AnyOf(inputs) ELSE AllOf(inputs)
        IN IF at \in found.used \/ Cardinality(Looked(cube)) < 3 \/ pivots = {}
           THEN found
           ELSE Take(found, Iff(Atom(atoms[pivot]), definition),
                     {at} \cup {i \in DOMAIN cover : cover[i] \in Spokes(cube, pivot)}),
      Nothing,
      IF Len(atoms) > BinaryAtoms \/ Len(cover) > ReductionClauses THEN <<>>
      ELSE [i \in DOMAIN cover |-> i])

-----------------------------------------------------------------------------
(* Formulas of covers.                                                     *)

Vacuous(cover) == \E i \in DOMAIN cover : Looked(cover[i]) = {}

AnyLeft(atoms, sorted, related) ==
    LET left == Left(sorted, related)
    IN AnyOf(related.parts \o [i \in DOMAIN left |-> Product(atoms, left[i])])
AnyRelated(atoms, sorted) == AnyLeft(atoms, sorted, Relations(atoms, sorted, FALSE))

ReadableDnf(atoms, cover) ==
    CASE cover = <<>> -> False
      [] Vacuous(cover) -> True
      [] OTHER -> AnyRelated(atoms, CanonicalOrder(cover))

\* With one positive literal at most a clause is an implication.
Clause(atoms, cube) ==
    LET looked == Literals(cube)
        positive == SelectSeq(looked, LAMBDA at : cube[at] = 0)
        conclusion == IF positive # <<>> THEN positive[1] ELSE looked[Len(looked)]
        premises == SelectSeq(looked, LAMBDA at : cube[at] = 1 /\ at # conclusion)
        Premise(i) == Atom(atoms[premises[i]])
    IN IF Len(looked) < 2 \/ Len(positive) > 1 THEN AnyOf(Excuses(atoms, cube))
       ELSE Or(Not(AllOf([i \in DOMAIN premises |-> Premise(i)])),
               Literal(atoms, conclusion, 1 - cube[conclusion]))

\* The formula that excludes exactly what `cover` covers.
AllLeft(atoms, gates, sorted, related) ==
    LET left == Left(sorted, related)
    IN AllOf(gates.parts \o related.parts
               \o [i \in DOMAIN left |-> Clause(atoms, left[i])])
AllRelated(atoms, gates, sorted) ==
    AllLeft(atoms, gates, sorted, Relations(atoms, sorted, TRUE))
AllDefined(atoms, cover, gates) ==
    AllRelated(atoms, gates, CanonicalOrder(Left(cover, gates)))

ReadableCnf(atoms, cover) ==
    CASE cover = <<>> -> True
      [] Vacuous(cover) -> False
      [] OTHER -> AllDefined(atoms, cover, Gates(atoms, cover))

\* Small covers lose the cubes the others imply.
Reduced(atoms, cover) ==
    IF /\ Len(atoms) <= BinaryAtoms
       /\ Len(cover) <= ReductionClauses
       /\ MapThenSumSet(LAMBDA i : Cardinality(Looked(cover[i])), DOMAIN cover)
            <= ReductionLiterals
    THEN Irredundant(atoms, cover) ELSE cover
PresentationCnf(atoms, cover) ==
    ReadableCnf(atoms, Reduced(atoms, PresentationMinimized(cover)))

\* The assignments of one and of two atoms no cube allows.
Values(cube, at) == IF cube[at] = Free THEN {0, 1} ELSE {cube[at]}
Forbidden(atoms, cover) ==
    LET allowed(at) == UNION {Values(cover[i], at) : i \in DOMAIN cover}
        open == {at \in DOMAIN atoms : allowed(at) = {0, 1}}
        Only(at, value) == [Anything(Len(atoms)) EXCEPT ![at] = value]
        units == Sorted((DOMAIN atoms) \ open, <)
        unit(at) == Only(at, CHOOSE v \in {0, 1} : v \notin allowed(at))
        absent(left, right, l, r) ==
          \A i \in DOMAIN cover :
            l \notin Values(cover[i], left) \/ r \notin Values(cover[i], right)
        quads == {<<left, right, l, r>> \in open \X open \X {0, 1} \X {0, 1} :
                    left < right /\ absent(left, right, l, r)}
        before(p, q) == \E k \in 1..4 : p[k] < q[k] /\ \A j \in 1..(k - 1) : p[j] = q[j]
        order == Sorted(quads, before)
    IN IF order # <<>> /\ Len(units) + Len(order) > BinaryClauses THEN None
       ELSE {[i \in DOMAIN units |-> unit(units[i])]
               \o [i \in DOMAIN order |->
                     [Only(order[i][1], order[i][3]) EXCEPT ![order[i][2]] = order[i][4]]]}

BinaryCnf(f, atoms, cover) ==
    IF Len(atoms) > BinaryAtoms THEN None
    ELSE IF cover = <<>> THEN {False}
    ELSE {ReadableCnf(atoms, Irredundant(atoms, forbidden)) :
            forbidden \in {found \in Forbidden(atoms, cover) :
                             Implies(atoms, ReadableCnf(atoms, found), f)}}

-----------------------------------------------------------------------------
(* One component after another.                                            *)

vars == <<limits, formula, waiting, stage, products, dnf, groups>>

Component == Head(waiting).formula
Atoms == Head(waiting).atoms

Init ==
    /\ \E case \in Cases : formula = case.formula /\ limits = case.limits
    /\ waiting = LET components == Components(formula)
              IN [i \in DOMAIN components |->
                    [formula |-> components[i], atoms |-> AtomsOf(components[i])]]
    /\ stage = "dnf" /\ products = <<>> /\ dnf = True /\ groups = <<>>

Finish(cnf) ==
    /\ groups' = Append(groups, [dnf |-> dnf, cnf |-> cnf,
                                 relationships |-> Component])
    /\ waiting' = Tail(waiting)
    /\ stage' = "dnf" /\ products' = <<>> /\ dnf' = True
    /\ UNCHANGED <<limits, formula>>
Search(next) ==
    /\ stage' = next /\ products' = <<>>
    /\ UNCHANGED <<limits, formula, waiting, dnf, groups>>

\* The alternatives are known, or not to be had; the conditions may follow
\* from them at once.
Alternatives(covers) ==
    LET found == IF covers = None THEN Component
                 ELSE ReadableDnf(Atoms, PresentationMinimized(
                                           CHOOSE c \in covers : TRUE))
        binary == UNION {BinaryCnf(Component, Atoms, c) : c \in covers}
    IN IF binary = None
       THEN /\ dnf' = found /\ stage' = "cnf" /\ products' = <<>>
            /\ UNCHANGED <<limits, formula, waiting, groups>>
       ELSE /\ groups' = Append(groups, [dnf |-> found,
                                         cnf |-> CHOOSE c \in binary : TRUE,
                                         relationships |-> Component])
            /\ waiting' = Tail(waiting) /\ stage' = "dnf" /\ products' = <<>>
            /\ UNCHANGED <<limits, formula, dnf>>

Conditions(covers) ==
    Finish(IF covers = None THEN Component
           ELSE PresentationCnf(Atoms, CHOOSE c \in covers : TRUE))

\* What the syntax gives without passing the limit.
ReadAlternatives ==
    /\ waiting # <<>> /\ stage = "dnf"
    /\ LET covers == FormulaCover(Component, TRUE, Atoms)
       IN IF covers = None THEN Search("solve dnf") ELSE Alternatives(covers)
ReadConditions ==
    /\ waiting # <<>> /\ stage = "cnf"
    /\ LET covers == FormulaCover(Component, FALSE, Atoms)
       IN IF covers = None THEN Search("solve cnf") ELSE Conditions(covers)

\* Otherwise a solver is asked, one model at a time.
Sought == IF stage = "solve dnf" THEN Component ELSE Not(Component)
Models ==
    {m \in SUBSET ToSet(Atoms) :
       /\ Eval(Sought, m)
       /\ \A i \in DOMAIN products : \E at \in Looked(products[i]) :
            (Atoms[at] \in m) # (products[i][at] = 1)}
Concluded(covers) == IF stage = "solve dnf" THEN Alternatives(covers)
                     ELSE Conditions(covers)
Solving == waiting # <<>> /\ stage \in {"solve dnf", "solve cnf"}
Solve ==
    /\ Solving
    /\ \E m \in Models :
         IF Len(products) = MaxTerms THEN Concluded(None)
         ELSE /\ products' = Append(products, ProductOf(Sought, Atoms, m))
              /\ UNCHANGED <<limits, formula, waiting, stage, dnf, groups>>
Solved == Solving /\ Models = {} /\ Concluded({products})

Next == ReadAlternatives \/ ReadConditions \/ Solve \/ Solved

Spec == Init /\ [][Next]_vars

-----------------------------------------------------------------------------
(* What must hold.                                                         *)

\* Whatever limit is met and whatever models the solver finds, every spelling
\* says what the formula says, so that printing a type never weakens it.
PresentationIsExact ==
    waiting = <<>> =>
      LET atoms == AtomsIn(formula)
          same(spelling(_)) ==
            Equivalent(formula, AllOf([i \in DOMAIN groups |-> spelling(groups[i])]),
                       atoms)
      IN /\ same(LAMBDA g : g.dnf)
         /\ same(LAMBDA g : g.cnf)
         /\ same(LAMBDA g : g.relationships)
         /\ \A i \in DOMAIN groups :
              /\ Equivalent(groups[i].dnf, groups[i].relationships, atoms)
              /\ Equivalent(groups[i].cnf, groups[i].relationships, atoms)
=============================================================================
