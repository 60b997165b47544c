----------------------------- MODULE PresenceSat -----------------------------
(***************************************************************************)
(* Projecting a formula onto some of its atoms (project of                 *)
(* src/inference/sat.rs): it is split into conjuncts that share no atom,   *)
(* each component's products are enumerated with a solver, one model at a  *)
(* time, under a budget they share, and each cover is minimized.           *)
(*                                                                         *)
(* The solver is batsat: it returns any model of what it has been told,    *)
(* and none only when there is none.  Literals and constants, which the    *)
(* code answers without it, come out the same.                             *)
(***************************************************************************)
EXTENDS Implicants

CONSTANT Arguments   \* what is projected: a set of [formula, keep, max, rows],
                     \* keep a sequence of atoms, max the value of max_terms,
                     \* rows that of MINTERMS

None == [op |-> "none"]

VARIABLES
    input,      \* the arguments
    parts,      \* components left: Seq([formula, atoms, kept])
    cover,      \* the products of the first of them so far
    spent,      \* the alternatives charged to the budget
    answer,     \* the factors so far
    status      \* "working", "done" or "limit"
vars == <<input, parts, cover, spent, answer, status>>

-----------------------------------------------------------------------------
\* Components are taken in the order of the first atom they keep, those that
\* keep none last; a component's kept atoms are in the caller's order.
Place(keep, atom) == CHOOSE i \in DOMAIN keep :
                       keep[i] = atom /\ \A j \in 1..(i - 1) : keep[j] # atom
Kept(f, keep) ==
    LET atoms == ToSet(AtomsOf(f)) \cap ToSet(keep)
    IN Sorted(atoms, LAMBDA a, b : Place(keep, a) < Place(keep, b))
Ranked(components, keep) ==
    LET first == [i \in DOMAIN components |->
                    Min({Place(keep, atom) : atom \in ToSet(Kept(components[i], keep))}
                          \cup {Len(keep) + 1})]
    IN Sorted(DOMAIN components, LAMBDA i, j :
                first[i] < first[j] \/ (first[i] = first[j] /\ i < j))
Arranged(components, keep, order) ==
    [i \in DOMAIN order |->
       [formula |-> components[order[i]],
        atoms |-> AtomsIn(components[order[i]]),
        kept |-> Kept(components[order[i]], keep)]]
Ordered(f, keep) ==
    LET arrange(components) == Arranged(components, keep, Ranked(components, keep))
    IN arrange(Components(f))

-----------------------------------------------------------------------------
(* Elimination.                                                            *)

Excluded(kept, m) ==
    \E i \in DOMAIN cover :
      \A at \in Looked(cover[i]) : (kept[at] \in m) = (cover[i][at] = 1)

Models(part) == {m \in SUBSET part.atoms :
                   Eval(part.formula, m) /\ ~Excluded(part.kept, m)}

\* One unit at least, for singletons need no budget left.
Available == LET left == input.max - spent
             IN IF left > 0 THEN left ELSE IF input.max > 0 THEN 1 ELSE 0

\* The solver finds a model that no product so far excludes.
Enumerate ==
    /\ status = "working" /\ parts # <<>>
    /\ \E m \in Models(Head(parts)) :
         IF Len(cover) = Available
         THEN /\ status' = "limit"
              /\ UNCHANGED cover
         ELSE /\ cover' = Append(cover, ProductOf(Head(parts).formula,
                                                  Head(parts).kept, m))
              /\ UNCHANGED status
    /\ UNCHANGED <<input, parts, spent, answer>>

Charge == IF Len(cover) > 1 THEN spent + Len(cover) ELSE spent

\* It finds none: the component's factor is what its cover comes to, and a
\* contradiction ends everything.
Eliminated ==
    /\ status = "working" /\ parts # <<>>
    /\ Models(Head(parts)) = {}
    /\ LET kept == Head(parts).kept
       IN IF cover = <<>>
          THEN /\ answer' = False /\ parts' = <<>> /\ UNCHANGED spent
          ELSE /\ answer' = And(answer, Rebuild(kept, Minimized(kept, cover, input.rows)))
               /\ spent' = Charge
               /\ parts' = Tail(parts)
    /\ cover' = <<>>
    /\ UNCHANGED <<input, status>>

Return ==
    /\ status = "working" /\ parts = <<>>
    /\ status' = "done"
    /\ UNCHANGED <<input, parts, cover, spent, answer>>

Satisfiable(f) == Truths(f, AtomsIn(f)) # {}

\* A formula of several components is first asked whether it has a model.
Init ==
    /\ input \in Arguments
    /\ LET ordered == Ordered(input.formula, input.keep)
           contradiction == Len(ordered) > 1 /\ ~Satisfiable(input.formula)
       IN /\ parts = IF contradiction THEN <<>> ELSE ordered
          /\ answer = IF contradiction THEN False ELSE True
    /\ cover = <<>> /\ spent = 0
    /\ status = "working"

Next == Enumerate \/ Eliminated \/ Return

Spec == Init /\ [][Next]_vars

-----------------------------------------------------------------------------
(* What must hold.                                                         *)

Hidden == AtomsIn(input.formula) \ ToSet(input.keep)

\* The answer is what the formula says of the kept atoms when the others may
\* be anything, whichever models the solver found.
ProjectionIsExact ==
    status = "done" =>
      /\ AtomsIn(answer) \subseteq ToSet(input.keep)
      /\ \A m \in SUBSET (AtomsIn(input.formula) \ Hidden) :
           Eval(answer, m) <=>
             \E hidden \in SUBSET Hidden : Eval(input.formula, m \cup hidden)

\* Reference: the factor a truth table gives.
Canonical(part) ==
    LET rows == Sorted({[at \in DOMAIN part.kept |->
                           IF part.kept[at] \in m THEN 1 ELSE 0] :
                              m \in Truths(part.formula, part.atoms)}, RowBefore)
    IN Rebuild(part.kept, Chosen(rows, Primes(rows)))

\* Nor does its spelling depend on them while every truth table is small
\* enough to be recovered: what a scheme publishes is the same in every
\* compile.
AnswerIsCanonical ==
    status = "done" /\ 4 ^ Cardinality(AtomsIn(input.formula)) <= input.rows =>
      LET ordered == Ordered(input.formula, input.keep)
          factors == [i \in DOMAIN ordered |-> Canonical(ordered[i])]
      IN answer = IF Satisfiable(input.formula) THEN AllOf(factors) ELSE False

\* The budget is never overdrawn: what is left of it, max_terms - spent, is
\* computed in an unsigned integer.
BudgetIsKept == spent <= input.max

ProjectionIsRight == ProjectionIsExact /\ AnswerIsCanonical /\ BudgetIsKept

\* Covers that are too large for that are prime and irredundant all the same:
\* each product, and each literal of it, is needed.
MinimizedIsTight ==
    \A part \in ToSet(parts) :
      part = parts[1] /\ cover # <<>> /\ Models(part) = {} =>
        LET tight == Minimized(part.kept, cover, input.rows)
            all == AnyProduct(part.kept, tight)
        IN /\ Equivalent(AnyProduct(part.kept, cover), all, ToSet(part.kept))
           /\ \A i \in DOMAIN tight :
                ~Implies(part.kept, Product(part.kept, tight[i]),
                         AnyProduct(part.kept, RemoveAt(tight, i)))
           /\ \A i \in DOMAIN tight : \A at \in Looked(tight[i]) :
                ~Implies(part.kept, Product(part.kept,
                           [tight[i] EXCEPT ![at] = Free]), all)
=============================================================================
