---------------------------- MODULE MC_Algorithms ----------------------------
(***************************************************************************)
(* What depends on nothing but its input, one run for all: the three uses  *)
(* of presence formulas (projecting them, presenting them, keeping them in *)
(* a store) and the integer primitives.  A behaviour is of one of the      *)
(* four, and leaves the variables of the others alone.                     *)
(*                                                                         *)
(* Widths of 2, 3, 4 and 8 bits stand for 8, 16, 32 and 64, doubles of 7   *)
(* significant bits for 53, bytes of 2 bits for 8.                         *)
(***************************************************************************)
EXTENDS PrimIntegers, Formulas, TLC

MC_Narrow == {2, 3}

VARIABLES
  part,   \* "projection", "presentation", "two", "three" or
          \* "integers"
  input, parts, cover, spent, answer, status,
  limits, formula, waiting, stage, products, dnf, groups,
  batches, deferred, bind, guards, told, atoms, saved, flipped, settled

projection == <<input, parts, cover, spent, answer, status>>
presentation == <<limits, formula, waiting, stage, products, dnf, groups>>
store == <<batches, deferred, bind, guards, told, atoms, saved, flipped, settled>>

a == Atom("a")
b == Atom("b")
c == Atom("c")
d == Atom("d")
e == Atom("e")

-----------------------------------------------------------------------------
(* Projections.                                                            *)

Clauses == {Or(a, Not(b)), Or(Not(a), Not(c)), Iff(a, b), Xor(b, c),
            Or(Not(c), d), Owned(Iff(c, Not(d))), Xor(a, Or(c, d))}
Conjoined == {And(f, g) : f \in Clauses, g \in Clauses \cup {a, Not(c), True, False}}
               \cup {Or(And(f, b), g) : f, g \in Clauses}
               \cup {Not(And(f, c)) : f \in Clauses}

\* Two of three atoms hold, in all ways but one: a cover with tight answers of
\* different sizes.
Cyclic == {And(Or(Or(a, b), c), Not(And(And(a, b), c))),
           Or(And(a, b), And(b, c))}
            \cup {Or(f, And(g, a)) : f, g \in Clauses}

\* Several components.
Apart == {And(And(f, g), h) :
            f \in {Or(a, b), Xor(a, b), a}, g \in {Or(c, Not(d)), Iff(c, d), Not(d)},
            h \in {True, Or(e, Atom("f")), And(e, Not(e)), Xor(e, a), Not(e), Or(b, c)}}

Arguments ==
  [formula : Conjoined, keep : {<<"b", "a">>, <<"a", "c", "d">>},
   max : {256}, rows : {256}]
    \cup [formula : Cyclic, keep : {<<"a", "b", "c">>}, max : {256}, rows : {1}]
    \cup [formula : Apart, keep : {<<"d", "a", "c">>, <<"a", "b", "f">>, <<"d">>},
          max : {0, 1, 2, 3, 5}, rows : {256}]

-----------------------------------------------------------------------------
(* Presentations: definitions, implications, choices and differences, under*)
(* the limits of the code and under limits the formulas meet.              *)

Lit(f, sign) == IF sign THEN f ELSE Not(f)
Gates == {Iff(Lit(a, s), Or(Lit(b, t), Lit(c, u))) : s, t, u \in BOOLEAN}
           \cup {Iff(d, And(And(a, Lit(b, s)), c)) : s \in BOOLEAN}
Relations == {And(Xor(a, b), Iff(b, Lit(c, s))) : s \in BOOLEAN}
               \cup {Or(Iff(a, b), Lit(c, s)) : s \in BOOLEAN}
               \cup {Xor(a, Xor(b, Lit(c, s))) : s \in BOOLEAN}
               \cup {And(Or(Not(a), b), Or(Not(b), c))}
Decided == {Or(And(a, Lit(b, s)), And(c, Lit(d, t))) : s, t \in BOOLEAN}
             \cup {Or(Or(a, b), And(c, Not(a))), And(a, Not(a)), True,
                   And(Or(Or(a, b), c), Or(Not(a), Not(b))),
                   Or(Not(a), Or(Not(b), Not(c)))}
Shapes == Gates \cup Relations \cup Decided
Shown == Shapes
           \cup {And(f, g) : f \in Shapes, g \in {Or(e, Not(Atom("f"))), Iff(c, e)}}
           \cup {Not(f) : f \in Shapes}

TheLimits == [terms |-> 2048, rows |-> 32, atoms |-> 64, binary |-> 256,
              clauses |-> 128, literals |-> 1024]
LowLimits == [terms |-> 3, rows |-> 4, atoms |-> 3, binary |-> 4,
              clauses |-> 3, literals |-> 6]
Cases == [formula : Shown, limits : {TheLimits, LowLimits}]

-----------------------------------------------------------------------------
Sat == INSTANCE PresenceSat
Spell == INSTANCE Presentation
\* Stores of two and of three variables.
Two == INSTANCE PresenceStore WITH
  Vars <- {1, 2}, Requirements <- {Xor(Atom(1), Atom(2))},
  Premises <- {Atom(1)}, Types <- {{1}, {2}, {1, 2}}, MaxBatches <- 3, MaxGuards <- 3
Three == INSTANCE PresenceStore WITH
  Vars <- {1, 2, 3},
  Requirements <- {And(Xor(Atom(1), Atom(2)), Or(Atom(2), Not(Atom(3))))},
  Premises <- {True}, Types <- {{1, 2}, {3}}, MaxBatches <- 2, MaxGuards <- 2

\* The variables of the parts a behaviour is not of.
NoProjection == /\ input = {} /\ parts = <<>> /\ cover = <<>> /\ spent = 0
                /\ answer = {} /\ status = "working"
NoPresentation == /\ limits = {} /\ formula = {} /\ waiting = <<>> /\ stage = {}
                  /\ products = <<>> /\ dnf = {} /\ groups = <<>>
NoStore == /\ batches = <<>> /\ deferred = <<>> /\ bind = {} /\ guards = <<>>
           /\ told = <<>> /\ atoms = {} /\ saved = <<>> /\ flipped = 0 /\ settled = {}
NoIntegers == /\ domain = Word /\ type = [signed |-> FALSE, bits |-> Own]
              /\ interp = Value(0) /\ js = Num(0)

AllInit ==
  \/ part = "projection" /\ Sat!Init /\ NoPresentation /\ NoStore /\ NoIntegers
  \/ part = "presentation" /\ Spell!Init /\ NoProjection /\ NoStore /\ NoIntegers
  \/ part = "two" /\ Two!Init /\ NoProjection /\ NoPresentation /\ NoIntegers
  \/ part = "three" /\ Three!Init /\ NoProjection /\ NoPresentation /\ NoIntegers
  \/ part = "integers" /\ Init /\ NoProjection /\ NoPresentation /\ NoStore

OfProjection == part = "projection" /\ Sat!Next /\ UNCHANGED <<presentation, store, vars>>
OfPresentation == part = "presentation" /\ Spell!Next /\ UNCHANGED <<projection, store, vars>>
OfTwo == part = "two" /\ Two!Next /\ UNCHANGED <<projection, presentation, vars>>
OfThree == part = "three" /\ Three!Next /\ UNCHANGED <<projection, presentation, vars>>
OfIntegers == part = "integers" /\ Next /\ UNCHANGED <<projection, presentation, store>>

AllNext ==
  /\ OfProjection \/ OfPresentation \/ OfTwo \/ OfThree \/ OfIntegers
  /\ UNCHANGED part

AllSpec == AllInit /\ [][AllNext]_<<part, projection, presentation, store, vars>>

-----------------------------------------------------------------------------
ProjectionIsRight == part = "projection" => Sat!ProjectionIsRight
MinimizedIsTight == part = "projection" /\ input.rows = 1 => Sat!MinimizedIsTight
PresentationIsExact == part = "presentation" => Spell!PresentationIsExact
StoreAnswersAreCurrent ==
  CASE part = "two" -> Two!AnswersAreCurrent
    [] part = "three" -> Three!AnswersAreCurrent
    [] OTHER -> TRUE
DecisionsStand ==
  CASE part = "two" -> Two!DecisionsStand
    [] part = "three" -> Three!DecisionsStand
    [] OTHER -> TRUE
BoundariesAreRight ==
  [][CASE part = "two" -> Two!BoundaryIsRight
       [] part = "three" -> Three!BoundaryIsRight
       [] OTHER -> TRUE]_store
=============================================================================
