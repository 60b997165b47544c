------------------------------ MODULE Formulas ------------------------------
(***************************************************************************)
(* Propositional formulas over presence atoms (Formula of src/types.rs):   *)
(* whether a label is there.  The constructors fold constants, so "says    *)
(* nothing" is always True.  A truth assignment is the set of the atoms    *)
(* that hold.                                                              *)
(***************************************************************************)
EXTENDS Sequences, Naturals, SequencesExt

True == [op |-> "true"]
False == [op |-> "false"]
Atom(a) == [op |-> "atom", atom |-> a]
\* A package's own constraint; the logic looks through the wrapper.
Owned(f) == [op |-> "owned", of |-> f]

Not(f) == CASE f = True -> False
            [] f = False -> True
            [] f.op = "not" -> f.of
            [] OTHER -> [op |-> "not", of |-> f]
And(f, g) == CASE f = False \/ g = False -> False
               [] f = True -> g
               [] g = True -> f
               [] OTHER -> [op |-> "and", left |-> f, right |-> g]
Or(f, g) == CASE f = True \/ g = True -> True
              [] f = False -> g
              [] g = False -> f
              [] OTHER -> [op |-> "or", left |-> f, right |-> g]
Iff(f, g) == [op |-> "iff", left |-> f, right |-> g]
Xor(f, g) == [op |-> "xor", left |-> f, right |-> g]
AllOf(parts) == FoldLeft(And, True, parts)
AnyOf(parts) == FoldLeft(Or, False, parts)

Constant(f) == f.op \in {"true", "false"}
Unary(f) == f.op \in {"not", "owned"}

\* Whether the formula holds when exactly the atoms in `m` do.
RECURSIVE Eval(_, _)
Eval(f, m) ==
    CASE Constant(f) -> f = True
      [] f.op = "atom" -> f.atom \in m
      [] Unary(f) -> Eval(f.of, m) = (f.op # "not")
      [] OTHER ->
           LET left == Eval(f.left, m)
               right == Eval(f.right, m)
           IN CASE f.op = "and" -> left /\ right
                [] f.op = "or" -> left \/ right
                [] f.op = "iff" -> left = right
                [] f.op = "xor" -> left # right

\* The atoms a formula names, in the order it first names them.
RECURSIVE AtomsFrom(_, _)
AtomsFrom(f, seen) ==
    CASE Constant(f) -> seen
      [] f.op = "atom" -> IF Contains(seen, f.atom) THEN seen
                          ELSE Append(seen, f.atom)
      [] Unary(f) -> AtomsFrom(f.of, seen)
      [] OTHER -> AtomsFrom(f.right, AtomsFrom(f.left, seen))
AtomsOf(f) == AtomsFrom(f, <<>>)

\* Every atom replaced by what `of` makes of it, through the constructors.
RECURSIVE Substitute(_, _)
Substitute(f, of) ==
    CASE Constant(f) -> f
      [] f.op = "atom" -> of[f.atom]
      [] Unary(f) -> LET inner == Substitute(f.of, of)
                     IN IF f.op = "not" THEN Not(inner) ELSE Owned(inner)
      [] OTHER ->
           LET left == Substitute(f.left, of)
               right == Substitute(f.right, of)
           IN CASE f.op = "and" -> And(left, right)
                [] f.op = "or" -> Or(left, right)
                [] f.op = "iff" -> Iff(left, right)
                [] f.op = "xor" -> Xor(left, right)

RECURSIVE Unowned(_)
Unowned(f) == IF f.op = "owned" THEN Unowned(f.of) ELSE f

\* Reference: the assignments over a set of atoms a formula holds under.
Truths(f, atoms) == {m \in SUBSET atoms : Eval(f, m)}
Equivalent(f, g, atoms) == Truths(f, atoms) = Truths(g, atoms)
Entails(f, g, atoms) == \A m \in SUBSET atoms : Eval(f, m) => Eval(g, m)
=============================================================================
