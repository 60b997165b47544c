------------------------------- MODULE Covers -------------------------------
(***************************************************************************)
(* Sums of products over an ordered list of atoms, and how they are        *)
(* minimized (src/inference/sat.rs).  A cube says of each position of the  *)
(* list that the atom holds (1), does not (0), or is not looked at (Free). *)
(***************************************************************************)
EXTENDS Formulas, FiniteSetsExt

Free == 2
Anything(width) == [at \in 1..width |-> Free]
Looked(cube) == {at \in DOMAIN cube : cube[at] # Free}

\* `prime` holds wherever `row` does.
CubeCovers(prime, row) == \A at \in Looked(prime) : row[at] = prime[at]

\* Sorting, given a strict order in which no two elements are equal.
Sorted(S, Before(_, _)) ==
    [i \in 1..Cardinality(S) |->
       CHOOSE x \in S : Cardinality({y \in S : Before(y, x)}) = i - 1]

\* Rows are in the order of counting, the first atom changing fastest.
RowBefore(one, other) ==
    \E at \in DOMAIN one :
      /\ one[at] < other[at]
      /\ \A above \in DOMAIN one : above > at => one[above] = other[above]

\* Cubes are in the order of their literals, a literal that is missing last
\* of all unless nothing follows.
CubeBefore(one, other) ==
    \E at \in DOMAIN one :
      /\ \A below \in DOMAIN one : below < at => one[below] = other[below]
      /\ one[at] # other[at]
      /\ LET after(cube) == \E later \in Looked(cube) : later > at
         IN IF one[at] = Free THEN ~after(one)
            ELSE IF other[at] = Free THEN after(other)
            ELSE one[at] < other[at]

-----------------------------------------------------------------------------
(* The exact path: a truth table and its prime implicants.                 *)

RowsOf(cube) == {row \in [DOMAIN cube -> {0, 1}] : CubeCovers(cube, row)}

TooManyRows(cover, limit) ==
    MapThenSumSet(LAMBDA i : 2 ^ (Len(cover[i]) - Cardinality(Looked(cover[i]))),
                  DOMAIN cover) > limit
Rows(cover) ==
    Sorted(UNION {RowsOf(cover[i]) : i \in DOMAIN cover}, RowBefore)

\* Two halves of a wider cube: they look at the same and differ once.
Differing(one, other) == {at \in DOMAIN one : one[at] # other[at]}
Combines(one, other) ==
    Looked(one) = Looked(other) /\ Cardinality(Differing(one, other)) = 1
Combined(one, other) ==
    [at \in DOMAIN one |-> IF at \in Differing(one, other) THEN Free ELSE one[at]]

\* All prime implicants, layer by layer, in the order they are found.
RECURSIVE Primes(_)
Primes(layer) ==
    LET n == Len(layer)
        pairs == Sorted({<<i, j>> \in (1..n) \X (1..n) :
                           i < j /\ Combines(layer[i], layer[j])},
                        LAMBDA p, q : p[1] < q[1] \/ (p[1] = q[1] /\ p[2] < q[2]))
        used == UNION {{pairs[k][1], pairs[k][2]} : k \in DOMAIN pairs}
        next == FoldLeft(LAMBDA found, pair :
                           LET cube == Combined(layer[pair[1]], layer[pair[2]])
                           IN IF Contains(found, cube) THEN found
                              ELSE Append(found, cube), <<>>, pairs)
        kept == Sorted((1..n) \ used, <)
    IN IF n = 0 THEN <<>>
       ELSE [i \in DOMAIN kept |-> layer[kept[i]]] \o Primes(next)

\* The cover of `rows` by primes: those a row leaves no choice about, then
\* whichever covers most of what is left, the last of equals.
RECURSIVE Greedy(_, _, _)
Greedy(left, primes, picked) ==
    IF left = {} THEN picked
    ELSE LET gain(prime) == Cardinality({row \in left : CubeCovers(prime, row)})
             best == primes[CHOOSE i \in DOMAIN primes :
                       \A j \in DOMAIN primes :
                         \/ gain(primes[j]) < gain(primes[i])
                         \/ gain(primes[j]) = gain(primes[i]) /\ j <= i]
         IN Greedy({row \in left : ~CubeCovers(best, row)}, primes,
                   Append(picked, best))

Chosen(rows, primes) ==
    LET covering(row) == {i \in DOMAIN primes : CubeCovers(primes[i], row)}
        essential == FoldLeft(LAMBDA picked, row :
                       IF Cardinality(covering(row)) # 1 THEN picked
                       ELSE LET prime == primes[CHOOSE i \in covering(row) : TRUE]
                            IN IF Contains(picked, prime) THEN picked
                               ELSE Append(picked, prime), <<>>, rows)
        left == {row \in ToSet(rows) :
                   \A prime \in ToSet(essential) : ~CubeCovers(prime, row)}
    IN Greedy(left, primes, essential)

-----------------------------------------------------------------------------
(* The path in place, for covers with too many rows.                       *)

Literal(atoms, at, there) ==
    IF there = 1 THEN Atom(atoms[at]) ELSE Not(Atom(atoms[at]))
Literals(cube) == Sorted(Looked(cube), <)
Product(atoms, cube) ==
    LET looked == Literals(cube)
    IN AllOf([i \in DOMAIN looked |-> Literal(atoms, looked[i], cube[looked[i]])])
AnyProduct(atoms, cover) ==
    AnyOf([i \in DOMAIN cover |-> Product(atoms, cover[i])])

Implies(atoms, one, other) == Entails(one, other, ToSet(atoms))

\* Every literal the cover does not need is dropped, from the first on.
Expanded(atoms, cover) ==
    LET whole == AnyProduct(atoms, cover)
        widen(cube, at) ==
          LET wider == [cube EXCEPT ![at] = Free]
          IN IF Implies(atoms, Product(atoms, wider), whole) THEN wider ELSE cube
        widened(cube) == FoldLeft(widen, cube, Literals(cube))
    IN [i \in DOMAIN cover |-> widened(cover[i])]

RECURSIVE IrredundantFrom(_, _, _)
IrredundantFrom(atoms, cover, at) ==
    IF at > Len(cover) THEN cover
    ELSE LET rest == RemoveAt(cover, at)
         IN IF Implies(atoms, Product(atoms, cover[at]), AnyProduct(atoms, rest))
            THEN IrredundantFrom(atoms, rest, at)
            ELSE IrredundantFrom(atoms, cover, at + 1)
\* Mutant: a product removed is followed by one that is not looked at.
RECURSIVE SkippingFrom(_, _, _)
SkippingFrom(atoms, cover, at) ==
    IF at > Len(cover) THEN cover
    ELSE LET rest == RemoveAt(cover, at)
         IN IF Implies(atoms, Product(atoms, cover[at]), AnyProduct(atoms, rest))
            THEN SkippingFrom(atoms, rest, at + 1)
            ELSE SkippingFrom(atoms, cover, at + 1)
IrredundantSkipping(atoms, cover) == SkippingFrom(atoms, cover, 1)

Irredundant(atoms, cover) == IrredundantFrom(atoms, cover, 1)

\* `rows` is the most a cover is expanded into, a power of 2.
Minimized(atoms, cover, rows) ==
    IF TooManyRows(cover, rows)
    THEN Irredundant(atoms, Expanded(atoms, cover))
    ELSE LET all == Rows(cover) IN Chosen(all, Primes(all))

\* The formula of a cover, in canonical order; of two atoms, an equivalence
\* and a difference are recognized.
Rebuild(atoms, cover) ==
    LET cubes == Sorted(ToSet(cover), CubeBefore)
        left == Atom(atoms[1])
        right == Atom(atoms[2])
    IN CASE cover = <<>> -> False
         [] \E i \in DOMAIN cover : Looked(cover[i]) = {} -> True
         [] Len(atoms) = 2 /\ cubes = <<<<0, 1>>, <<1, 0>>>> -> Xor(left, right)
         [] Len(atoms) = 2 /\ cubes = <<<<0, 0>>, <<1, 1>>>> -> Iff(left, right)
         [] OTHER -> AnyProduct(atoms, cubes)
=============================================================================
