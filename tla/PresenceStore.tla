---------------------------- MODULE PresenceStore ----------------------------
(***************************************************************************)
(* The store of presence requirements of one declaration group             *)
(* (src/inference/mod.rs, src/inference/solve.rs).  Generation and solving *)
(* append batches, hold some in reserved slots and fill those in, decide   *)
(* presence variables, and undo what a failed congruence did.  At fixed    *)
(* boundaries questions are put to one solver that is kept throughout and  *)
(* is told each batch once, under a guard; what variables have been        *)
(* decided to be is only ever assumed.                                     *)
(*                                                                         *)
(* A decision to leave a variable alone (Undecided, Recovered) reads as    *)
(* Present, and is not told apart from it.                                 *)
(***************************************************************************)
EXTENDS Formulas, FiniteSets, FiniteSetsExt, TLC

CONSTANTS Vars,          \* presence variables, numbers
          Requirements,  \* the formulas batches may hold
          Premises,      \* those of the arms held back batches are in
          Types,         \* the variables of types folded back
          MaxBatches, MaxGuards   \* bounds

Unbound == [op |-> "unbound"]

VARIABLES
    batches,    \* the store: Seq(formula)
    deferred,   \* reserved slot -> what will be put in it
    bind,       \* Vars -> Unbound, True, False or an atom
    guards,     \* per position: the digest of what was told and its guard
    told,       \* the solver: guard -> formula
    atoms,      \* the variables the solver knows
    saved,      \* what a failing congruence goes back to; <<>> outside one
    flipped,    \* the batch that owns the contradiction; 0 if none (unsat)
    settled     \* the variables SAT has decided
vars == <<batches, deferred, bind, guards, told, atoms, saved, flipped, settled>>
solver == <<guards, told, atoms>>

-----------------------------------------------------------------------------
(* What the solve has decided.                                             *)

RECURSIVE PresenceOf(_, _)
PresenceOf(b, p) ==
    IF p.op = "atom" /\ b[p.atom] # Unbound THEN PresenceOf(b, b[p.atom]) ELSE p
Of(b, var) == PresenceOf(b, Atom(var))
Resolved(b, f) == Substitute(f, [var \in Vars |-> Of(b, var)])
Canonical(var) == bind[var] = Unbound

-----------------------------------------------------------------------------
(* The solver mirrors the store.                                           *)

\* Mutant: a slot is encoded when it is new.
NewSlots == {at \in DOMAIN batches : at \notin DOMAIN guards}

\* A 64-bit hash, taken to tell formulas apart.
Digest(f) == f

\* A slot is encoded when it is new or holds another batch than was told.
StaleSlots == {at \in DOMAIN batches :
                 at \notin DOMAIN guards \/ guards[at].digest # Digest(batches[at])}

Guard(at) == IF at \notin StaleSlots THEN guards[at].guard
             ELSE Len(told) + Cardinality({i \in StaleSlots : i <= at})
Guards == [at \in DOMAIN batches |->
             IF at \in StaleSlots THEN [digest |-> Digest(batches[at]), guard |-> Guard(at)]
             ELSE guards[at]]
Told == LET stale == SetToSortSeq(StaleSlots, <)
        IN told \o [i \in DOMAIN stale |-> batches[stale[i]]]
Known == atoms \cup UNION {ToSet(AtomsOf(batches[at])) : at \in StaleSlots}

\* The equivalences that variables decided to be another one call for.  Each
\* is told under a guard of its own, and only assumed while it is called for.
Aliases == {<<var, Of(bind, var).atom>> :
              var \in {v \in Known : Of(bind, v).op = "atom" /\ ~Canonical(v)}}

\* Afterwards the solver knows all that a question assumes.
Sync ==
    /\ guards' = Guards
    /\ told' = Told

\* What a model must make of a variable that is none any more.
Decided(var, m) == LET p == Of(bind, var)
                   IN /\ p = True => var \in m
                      /\ p = False => var \notin m

\* The answer to a question about the first batches, some literals assumed
\* besides; `asked` are their atoms.
Satisfied(prefix, asked, extra(_)) ==
    \E m \in SUBSET (Known \cup asked \cup {pair[2] : pair \in Aliases}) :
      /\ \A at \in 1..prefix : Eval(Told[Guards[at].guard], m)
      /\ \A var \in Known : Decided(var, m)
      /\ \A pair \in Aliases : (pair[1] \in m) = (pair[2] \in m)
      /\ extra(m)

PrefixSatisfiable(prefix) == Satisfied(prefix, {}, LAMBDA m : TRUE)
StoreSatisfiable == PrefixSatisfiable(Len(batches))
Settles(var, value) ==
    ~Satisfied(Len(batches), {var}, LAMBDA m : (var \in m) # value)
Equates(left, right) ==
    ~Satisfied(Len(batches), {left, right}, LAMBDA m : (left \in m) # (right \in m))

\* Mutant: the half that has a model keeps its last batch.
HalveLow(low, high) ==
    LET middle == low + ((high - low) \div 2)
    IN IF PrefixSatisfiable(middle) THEN high ELSE middle

\* The first batch that leaves no model, by halving.
RECURSIVE Halve(_, _)
Halve(low, high) ==
    LET middle == low + ((high - low) \div 2)
    IN IF low >= high THEN low
       ELSE IF PrefixSatisfiable(middle) THEN Halve(middle + 1, high)
       ELSE Halve(low, middle)

Flip == IF StoreSatisfiable THEN 0 ELSE Halve(1, Len(batches))

-----------------------------------------------------------------------------
(* Generation and solving.                                                 *)

Push(f) == batches' = Append(batches, f)

\* A requirement, in force or held back in its source-order slot.
Require(f) ==
    /\ Len(batches) < MaxBatches
    /\ Push(f)
    /\ UNCHANGED <<deferred, bind, solver, saved, flipped, settled>>
Reserve(f) ==
    /\ Len(batches) < MaxBatches /\ saved = <<>>
    /\ Push(True)
    /\ deferred' = (Len(batches) + 1 :> f) @@ deferred
    /\ UNCHANGED <<bind, solver, saved, flipped, settled>>
\* What was held back takes effect, under the premise of its arm if it has one.
Guarded(premise, f) == Or(Not(premise), f)
Commit(at, premise) ==
    /\ saved = <<>>
    /\ batches' = [batches EXCEPT ![at] = Guarded(premise, deferred[at])]
    /\ deferred' = [slot \in DOMAIN deferred \ {at} |-> deferred[slot]]
    /\ UNCHANGED <<bind, solver, saved, flipped, settled>>

\* Two presences are made one.
Unify(var, value) ==
    /\ Canonical(var)
    /\ value # Atom(var) /\ (value.op = "atom" => Canonical(value.atom))
    /\ bind' = [bind EXCEPT ![var] = value]
    /\ UNCHANGED <<batches, deferred, solver, saved, flipped, settled>>

\* Nominal types are compared argument by argument; a mismatch undoes it all.
BeginCongruence ==
    /\ saved = <<>>
    /\ saved' = <<[stored |-> Len(batches), bind |-> bind]>>
    /\ UNCHANGED <<batches, deferred, bind, solver, flipped, settled>>
UndoCongruence ==
    /\ saved # <<>>
    /\ batches' = SubSeq(batches, 1, saved[1].stored)
    /\ bind' = saved[1].bind
    /\ saved' = <<>>
    /\ UNCHANGED <<deferred, solver, flipped, settled>>
EndCongruence ==
    /\ saved # <<>>
    /\ saved' = <<>>
    /\ UNCHANGED <<batches, deferred, bind, solver, flipped, settled>>

-----------------------------------------------------------------------------
(* The boundaries at which the solver is asked.                            *)

Asking == saved = <<>> /\ Len(Told) <= MaxGuards

\* A definition has been solved: a contradiction is reported once.
ReportFlip ==
    /\ Asking /\ flipped = 0
    /\ Sync
    /\ atoms' = Known \cup {pair[2] : pair \in Aliases}
    /\ flipped' = Flip
    /\ UNCHANGED <<batches, deferred, bind, saved, settled>>
\* Its error was merged into an extern's: the mark goes with it.
ForgiveFlip ==
    /\ flipped # 0 /\ saved = <<>>
    /\ flipped' = 0
    /\ UNCHANGED <<batches, deferred, bind, solver, saved, settled>>

\* A presence the store has decided is no variable.  Only those it mentions
\* are asked about.
Mentioned == {var \in Vars : \E known \in Known : Of(bind, known) = Atom(var)}
\* Mutant: whatever the store allows is taken for decided.
FoldAllowed(var) == IF Settles(var, FALSE) THEN False ELSE True

Folded(var) == IF Settles(var, TRUE) THEN True
               ELSE IF Settles(var, FALSE) THEN False ELSE Unbound
FoldBack(found) ==
    /\ Asking /\ StoreSatisfiable
    /\ Sync
    /\ atoms' = Known \cup {pair[2] : pair \in Aliases}
    /\ LET asked == {var \in found \cap Mentioned : Canonical(var)}
       IN /\ bind' = [var \in Vars |-> IF var \in asked THEN Folded(var) ELSE bind[var]]
          /\ settled' = settled \cup {var \in asked : Folded(var) # Unbound}
    /\ UNCHANGED <<batches, deferred, saved, flipped>>

\* At the end of a match a result presence the store proves the same as one
\* of the scrutinee's becomes that one.
Alias(output, input) ==
    /\ Asking /\ StoreSatisfiable
    /\ output # input /\ Canonical(output) /\ Canonical(input)
    /\ Sync
    /\ atoms' = Known \cup {pair[2] : pair \in Aliases} \cup {output, input}
    /\ bind' = IF Equates(output, input) THEN [bind EXCEPT ![output] = Atom(input)]
               ELSE bind
    /\ UNCHANGED <<batches, deferred, saved, flipped, settled>>

Init ==
    /\ batches = <<>> /\ deferred = <<>>
    /\ bind = [var \in Vars |-> Unbound]
    /\ guards = <<>> /\ told = <<>> /\ atoms = {}
    /\ saved = <<>> /\ flipped = 0 /\ settled = {}

Next ==
    \/ \E f \in Requirements : Require(f) \/ Reserve(f)
    \/ \E at \in DOMAIN deferred, premise \in Premises :
         Commit(at, premise)
    \/ \E var \in Vars, value \in {True, False} \cup {Atom(v) : v \in Vars} :
         Unify(var, value)
    \/ BeginCongruence \/ UndoCongruence \/ EndCongruence
    \/ ReportFlip \/ ForgiveFlip
    \/ \E found \in Types : FoldBack(found)
    \/ \E output, input \in Vars : Alias(output, input)

Spec == Init /\ [][Next]_vars

-----------------------------------------------------------------------------
(* What must hold.                                                         *)

\* Reference: the store read with everything the solve has decided.
Reading(prefix) == AllOf([at \in 1..prefix |-> Resolved(bind, batches[at])])
Holds(prefix) == Truths(Reading(prefix), Vars)

\* However often batches were replaced and decisions undone since it was told
\* of them, the solver's answers are about the store as it now reads.
AnswersAreCurrent ==
    Asking =>
      /\ \A prefix \in 0..Len(batches) : PrefixSatisfiable(prefix) <=> Holds(prefix) # {}
      /\ \A var \in {v \in Vars : Canonical(v)}, value \in BOOLEAN :
           Settles(var, value) <=> \A m \in Holds(Len(batches)) : (var \in m) = value
      /\ \A one, other \in {v \in Vars : Canonical(v)} :
           Equates(one, other) <=>
             \A m \in Holds(Len(batches)) : (one \in m) = (other \in m)

\* The error belongs to the first batch that cannot be reconciled with those
\* before it.
FlipIsFirst ==
    flipped = 0 /\ flipped' # 0 => Holds(flipped') = {} /\ Holds(flipped' - 1) # {}

\* What is decided for the program at a boundary takes no model away.
DecisionsAreForced ==
    (\E found \in Types : FoldBack(found))
      \/ (\E output, input \in Vars : Alias(output, input)) =>
        \A m \in Holds(Len(batches)) : \A var \in {v \in Vars : bind'[v] # bind[v]} :
          (var \in m) = Eval(bind'[var], m)

BoundaryIsRight == FlipIsFirst /\ DecisionsAreForced

\* A contradiction once reported stays one: nothing that is suppressed on its
\* account was in order after all.
FlipStands == flipped # 0 /\ saved = <<>> => Holds(Len(batches)) = {}

\* What SAT has settled is permanent: without these decisions the store, which
\* may have grown since, still entails every one of them.
SettledIsEntailed ==
    LET open == [var \in Vars |-> IF var \in settled THEN Unbound ELSE bind[var]]
        reading == AllOf([at \in DOMAIN batches |-> Resolved(open, batches[at])])
    IN \A var \in settled : \A m \in Truths(reading, Vars) :
         (var \in m) = (bind[var] = True)

DecisionsStand == FlipStands /\ SettledIsEntailed
=============================================================================
