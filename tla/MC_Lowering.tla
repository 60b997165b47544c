---------------------------- MODULE MC_Lowering ----------------------------
(* Small texts for TLC.  A body is written as what it refers to, stands    *)
(* for, nests, allocates and imports; the same code may be written wider.  *)
EXTENDS Lowering

Body(refs, stands, inner, width) ==
  [refs |-> refs, stands |-> stands, inner |-> inner, rigids |-> 0, muts |-> 0,
   scope |-> FALSE, bad |-> FALSE, width |-> width]

Shape(width)   == Body({}, None, None, width)
Calls(i)       == Body({i}, None, None, 2)
Forwards(i)    == Body({i}, i, None, 1)
Nested(i)      == Body({i}, Itself, i, 2)
NestedLoop     == Body({}, None, Itself, 2)
Mutates        == [Shape(1) EXCEPT !.muts = 1]
Quantifies     == [Shape(2) EXCEPT !.rigids = 1]
Imports(width) == [Shape(width) EXCEPT !.scope = TRUE]
Broken         == [Shape(1) EXCEPT !.bad = TRUE]

\* Of a text in which only the bodies of two definitions change.
Plain == [defs |-> 1 .. 2, bodies |-> {Shape(1), Calls(1), Calls(2)}, headers |-> {1},
          attributes |-> {}, gaps |-> {0}, cancels |-> FALSE]

\* What a body may mean to the incremental path: references, forwarding in
\* every way that closes a loop, and the first use of mut; what it may do to
\* the ranges handed out to everyone after it; groups that merge and split;
\* analyses that are cancelled; and text that moves.
Texts ==
  {[Plain EXCEPT !.bodies = {Shape(1), Calls(2), Forwards(1), Forwards(2), Nested(1),
                             NestedLoop, Mutates}],
   [Plain EXCEPT !.bodies = {Shape(1), Calls(2), Quantifies, Broken}, !.headers = {None, 1, 2}],
   [Plain EXCEPT !.bodies = {Shape(1), Calls(1), Calls(2), Calls(3)}, !.defs = 1 .. 3],
   [Plain EXCEPT !.headers = {None, 1}, !.cancels = TRUE],
   [Plain EXCEPT !.bodies = {Shape(1), Shape(2), Imports(3)}, !.attributes = {2}, !.gaps = {0, 1}]}

OneFile == [i \in Defs |-> 1]
ThreeDefs == 1 .. 3
=============================================================================
