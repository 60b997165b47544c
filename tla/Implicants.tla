----------------------------- MODULE Implicants -----------------------------
(***************************************************************************)
(* The conjuncts of a formula that belong together, and the product a      *)
(* model of a formula is narrowed to (src/inference/sat.rs).               *)
(***************************************************************************)
EXTENDS Covers

AtomsIn(f) == ToSet(AtomsOf(f))

-----------------------------------------------------------------------------
(* Components.                                                             *)

RECURSIVE Conjuncts(_)
Conjuncts(f) ==
    LET g == Unowned(f)
    IN IF g.op = "and" THEN Conjuncts(g.left) \o Conjuncts(g.right) ELSE <<g>>

RECURSIVE RootOf(_, _)
RootOf(parents, at) ==
    IF parents[at] = at THEN at ELSE RootOf(parents, parents[at])
\* The earlier root stays one.
Unite(parents, pair) ==
    LET one == RootOf(parents, pair[1])
        other == RootOf(parents, pair[2])
    IN [parents EXCEPT ![IF one > other THEN one ELSE other] =
                          IF one > other THEN other ELSE one]

\* Each conjunct with the first one that names one of its atoms, conjunct by
\* conjunct.
Sharings(conjuncts) ==
    LET owner(atom) == CHOOSE i \in DOMAIN conjuncts :
          /\ Contains(AtomsOf(conjuncts[i]), atom)
          /\ \A j \in 1..(i - 1) : ~Contains(AtomsOf(conjuncts[j]), atom)
        sharing(at) ==
          LET atoms == AtomsOf(conjuncts[at])
          IN SelectSeq([i \in DOMAIN atoms |-> <<owner(atoms[i]), at>>],
                       LAMBDA pair : pair[1] # pair[2])
    IN FlattenSeq([at \in DOMAIN conjuncts |-> sharing(at)])

Components(f) ==
    LET conjuncts == Conjuncts(f)
        parents == FoldLeft(Unite, [at \in DOMAIN conjuncts |-> at],
                            Sharings(conjuncts))
        group(root) == AllOf(SelectSeq(
                         [at \in DOMAIN conjuncts |->
                            IF RootOf(parents, at) = root THEN conjuncts[at]
                            ELSE True], LAMBDA g : g # True))
        groups == SelectSeq([at \in DOMAIN conjuncts |-> group(at)],
                            LAMBDA g : g # True)
    IN IF groups = <<>> THEN <<True>> ELSE groups

-----------------------------------------------------------------------------
(* Products.                                                               *)

\* Mutant: of an equivalence or a difference one side is enough.
RECURSIVE JustifyLeft(_, _, _)
JustifyLeft(f, want, m) ==
    CASE Constant(f) -> {}
      [] f.op = "atom" -> {<<f.atom, IF want THEN 1 ELSE 0>>}
      [] Unary(f) -> JustifyLeft(f.of, IF f.op = "not" THEN ~want ELSE want, m)
      [] OTHER -> JustifyLeft(f.left, Eval(f.left, m), m)

\* The literals of a model that made the formula come out as it did.
RECURSIVE Justify(_, _, _)
Justify(f, want, m) ==
    CASE Constant(f) -> {}
      [] f.op = "atom" -> {<<f.atom, IF want THEN 1 ELSE 0>>}
      [] Unary(f) -> Justify(f.of, want = (f.op # "not"), m)
      [] OTHER ->
           LET first == Eval(f.left, m)
               left == Justify(f.left, first, m)
               right == Justify(f.right, Eval(f.right, m), m)
           IN \* One operand is enough when it decides.
              IF f.op \in {"and", "or"} /\ want # (f.op = "and")
              THEN IF first = want THEN left ELSE right
              ELSE left \cup right

ProductOf(f, kept, m) ==
    LET needed == Justify(f, TRUE, m)
    IN [at \in DOMAIN kept |->
          IF <<kept[at], 1>> \in needed THEN 1
          ELSE IF <<kept[at], 0>> \in needed THEN 0 ELSE Free]
=============================================================================
