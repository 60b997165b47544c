------------------------------ MODULE Lowering ------------------------------
(***************************************************************************)
(* Incremental lowering (src/ir/incremental.rs) and the inference inputs   *)
(* it feeds (src/analysis.rs, src/inference/queries.rs).  An editor        *)
(* changes a program text; every analysis lowers it.  While the            *)
(* declarations read as before, only bodies whose text changed are lowered *)
(* again and everything else is kept: values, references, forwarding,      *)
(* ranges of rigid variables, uses of `mut`, groups, and the positions of  *)
(* everything, which move with the text around them.  Otherwise the        *)
(* ordinary builder runs.  Inference in turn keeps the inputs of groups in *)
(* which no definition is reported to have changed.                        *)
(*                                                                         *)
(* A text is a list of definitions, each with an attribute or none, a      *)
(* header up to its body, and a body.  Of a body it matters what it refers *)
(* to, what it merely forwards, what it allocates and how wide it is.      *)
(***************************************************************************)
EXTENDS Integers, Sequences, FiniteSets, SequencesExt

CONSTANTS
  Defs,       \* 1 .. N, the definitions in the order they are written
  FileOf,     \* the file each is written in
  Habits,     \* what may be written in a behaviour: the "defs" that are, the
              \* "bodies" and "headers" they may have (None leaves one out), those
              \* that may be given "attributes", the "gaps" of blank text before a
              \* definition or its let, and if an edit "cancels" the analysis it
              \* overtakes
  None,       \* what is not there: a header, a target, a cache, a place
  All         \* everything was lowered anew

Itself == -1  \* the binding nested in a body

ASSUME TextAssumption ==
  /\ IsFiniteSet(Defs) /\ Defs = 1 .. Cardinality(Defs) /\ None \notin Int
  /\ \A x \in Habits :
       /\ x.defs \subseteq Defs /\ x.attributes \subseteq x.defs /\ x.gaps \subseteq Nat
       /\ x.headers \subseteq {None, 1, 2} /\ x.cancels \in BOOLEAN
       /\ \A b \in x.bodies :
            /\ b.refs \subseteq Defs /\ b.width \in Nat \ {0}
            /\ b.rigids \in Nat /\ b.muts \in Nat
            /\ b.stands \in b.refs \cup {None, Itself}    \* what the body forwards
            /\ b.inner \in b.refs \cup {None, Itself}     \* what a nested let is given as

VARIABLES
  habit,     \* one of Habits
  text,      \* what the editor holds
  lowered,   \* the text that was lowered last
  cached,    \* Session::cached, or None
  output,    \* what the last lowering returned
  changed,   \* Session::changed: the definitions lowered anew, or All. Inference
             \* alone reads it, so it is let go once inference has run
  phase,     \* whether an analysis stands between lowering and inference
  behind,    \* how many generations inference is behind: 0, 1, or 2 for more
  inputs,    \* Session::body_inputs of inference: group -> what it was given
  header     \* Session::header_input

state == <<text, lowered, cached, output, changed, phase, behind, inputs, header>>
vars == <<habit, state>>

-----------------------------------------------------------------------------
(* Where things are written.                                               *)

Present(t) == {i \in Defs : t[i].h # None}
HeaderWidth(h) == 2 + h
AttributeWidth == 2

\* What a function gives for 1 .. n, added up.
SumTo(f, n) == LET sum[k \in 0 .. n] == IF k = 0 THEN 0 ELSE sum[k - 1] + f[k] IN sum[n]

\* How far from where a definition starts its let is and its body ends.
LetAt(d) == IF d.attr THEN AttributeWidth + 1 + d.mid ELSE 0
EndAt(d) == LetAt(d) + HeaderWidth(d.h) + d.body.width

\* What is written above a definition in its file.
Above(t, i) == SumTo([j \in Defs |-> IF FileOf[j] = FileOf[i] /\ t[j].h # None
                                     THEN t[j].gap + EndAt(t[j]) + 1 ELSE 0], i - 1)

\* The places of a text: of each definition its attribute, its let, its name,
\* its body and its end.
Places(t) ==
  [i \in Present(t) |->
     LET from == Above(t, i) + t[i].gap
         let  == from + LetAt(t[i])
     IN  [attr |-> from, let |-> let, name |-> let + 1, body |-> let + HeaderWidth(t[i].h),
          end |-> from + EndAt(t[i])]]

Span(i, at, width) == [file |-> FileOf[i], start |-> at, width |-> width]

\* NodeId::of and SourceMap::record: a node is told by where it starts from
\* its definition's start and by its width, and keeps the first span recorded.
NodeOf(base, at, width) == <<IF at > base THEN at - base ELSE 0, width>>
Anchor(of, base, at, width) == [of |-> of, node |-> NodeOf(base, at, width)]

\* The nodes of a body: itself and, where there is room, one inside it.
Nodes(b) == IF b.width > 1 THEN <<<<0, b.width>>, <<1, 1>>>> ELSE <<<<0, 1>>>>

\* Attributes are anchored while no definition is being lowered: of None, from
\* the start of the file.  Names and bodies are their definition's.
AttributeAnchor(p)  == Anchor(None, 0, p.attr, AttributeWidth)
NameAnchor(i, p)    == Anchor(i, p.name, p.name, 1)
BodyAnchors(i, p, b) == [n \in DOMAIN Nodes(b) |-> Anchor(i, p.name, p.body + Nodes(b)[n][1], Nodes(b)[n][2])]

AttributeRecords(t, p) ==
  FlattenSeq([i \in Defs |-> IF i \in Present(t) /\ t[i].attr
                             THEN <<<<AttributeAnchor(p[i]), Span(i, p[i].attr, AttributeWidth)>>>>
                             ELSE <<>>])

DefRecords(t, p, i) ==
  <<<<NameAnchor(i, p[i]), Span(i, p[i].name, 1)>>>>
    \o [n \in DOMAIN Nodes(t[i].body) |->
          <<BodyAnchors(i, p[i], t[i].body)[n],
            Span(i, p[i].body + Nodes(t[i].body)[n][1], Nodes(t[i].body)[n][2])>>]

FirstRecorded(rs) ==
  LET anchors == {rs[n][1] : n \in DOMAIN rs}
  IN  [a \in anchors |-> rs[CHOOSE n \in DOMAIN rs : rs[n][1] = a /\ \A m \in 1 .. n - 1 : rs[m][1] # a][2]]

\* SourceMap::span: where an anchor points, nowhere when it was never recorded.
Located(source, a) == IF a \in DOMAIN source THEN source[a] ELSE None

-----------------------------------------------------------------------------
(* The ordinary builder.                                                   *)

Erased == [refs |-> {}, stands |-> None, inner |-> None, rigids |-> 0, muts |-> 0,
           scope |-> FALSE, bad |-> TRUE, width |-> 1]

\* alias_projection: what a definition and its nested binding are given as.
\* The nested binding of i is written -i.
Links(i, b) ==
  LET name(x) == IF x = Itself THEN -i ELSE x
  IN  {<<i, name(b.stands)>>} \cup (IF b.inner = None THEN {} ELSE {<<-i, name(b.inner)>>})

\* circling, has_alias_cycle: the names given, directly or not, as themselves.
Circling(links) ==
  LET names == {l[1] : l \in links}
      next(S) == {l[2] : l \in {k \in links : k[1] \in S}}
      reached[k \in 1 .. Cardinality(names)] ==
        [x \in names |-> next(IF k = 1 THEN {x} ELSE reached[k - 1][x])]
  IN  {x \in names : \E k \in 1 .. Cardinality(names) : x \in reached[k][x]}

AllLinks(bodyOf) == UNION {Links(i, bodyOf[i]) : i \in DOMAIN bodyOf}

\* reference_set: what a body refers to among the definitions.
References(b, defs) == b.refs \cap defs

\* grouping: the strongly connected components of the references.
Grouping(refs) ==
  LET defs == DOMAIN refs
      reach[k \in 0 .. Cardinality(defs)] ==
        [i \in defs |-> IF k = 0 THEN {i}
                        ELSE reach[k - 1][i] \cup UNION {refs[j] : j \in reach[k - 1][i]}]
      from(i) == reach[Cardinality(defs)][i]
  IN  {{j \in defs : j \in from(i) /\ i \in from(j)} : i \in defs}

\* A header may quantify one rigid variable, a body any number.
RigidsOf(d) == (IF d.h = 2 THEN 1 ELSE 0) + d.body.rigids

RigidStart(t, i) == SumTo([j \in Defs |-> IF t[j].h = None THEN 0 ELSE RigidsOf(t[j])], i - 1)

MutsIn(muts) == SumTo([i \in Defs |-> IF i \in DOMAIN muts THEN muts[i] ELSE 0], Cardinality(Defs))

\* A lowered definition: the code, and the anchors of what was written.
Term(i, d, p, value, rigid) ==
  [h |-> d.h, value |-> value, rigid |-> rigid, name |-> NameAnchor(i, p),
   attr |-> IF d.attr THEN AttributeAnchor(p) ELSE None, nodes |-> BodyAnchors(i, p, d.body)]

\* What is wrong with a body where these definitions are declared.
Wrong(b, defs) == b.bad \/ ~(b.refs \subseteq defs)

BodyScope(i, p) == [of |-> i, span |-> Span(i, p.body, p.end - p.body)]

\* build_captured: the whole program from its text.
Build(t) ==
  LET p     == Places(t)
      defs  == Present(t)
      loops == Circling(AllLinks([i \in defs |-> t[i].body]))
      value(i) == IF i \in loops \/ -i \in loops THEN Erased ELSE t[i].body
      refs  == [i \in defs |-> References(value(i), defs)]
  IN  [terms  |-> [i \in defs |-> Term(i, t[i], p[i], value(i), RigidStart(t, i))],
       groups |-> Grouping(refs),
       mut    |-> MutsIn([i \in defs |-> t[i].body.muts]) > 0,
       errors |-> {i \in defs : Wrong(t[i].body, defs) \/ i \in loops \/ -i \in loops},
       scopes |-> {BodyScope(i, p[i]) : i \in {j \in defs : t[j].body.scope}},
       source |-> FirstRecorded(AttributeRecords(t, p) \o
                    FlattenSeq([i \in Defs |-> IF i \in defs THEN DefRecords(t, p, i) ELSE <<>>]))]

-----------------------------------------------------------------------------
(* What a lowering keeps for the next one.                                 *)

\* ShapeInput::read: the headers with their attributes, the bodies, and every
\* boundary between text that is compared and text that is not.
ShapeHeaders(t) == [i \in Present(t) |-> <<t[i].h, t[i].attr>>]

PointsOfBodies(t) ==
  LET p == Places(t)
  IN  FlattenSeq([i \in Defs |-> IF i \in Present(t) THEN <<<<FileOf[i], p[i].body>>, <<FileOf[i], p[i].end>>>>
                                                     ELSE <<>>])

Points(t) ==
  LET p == Places(t)
      of(i) == (IF t[i].attr THEN <<p[i].attr, p[i].attr + AttributeWidth>> ELSE <<>>)
                 \o <<p[i].let, p[i].body, p[i].end>>
      in(i) == [n \in DOMAIN of(i) |-> <<FileOf[i], of(i)[n]>>]
  IN  FlattenSeq([i \in Defs |-> IF i \in Present(t) THEN in(i) ELSE <<>>])

Snapshot(t, out) ==
  [text |-> t, output |-> out,
   rigids  |-> [i \in Present(t) |-> <<RigidStart(t, i), RigidStart(t, i) + RigidsOf(t[i])>>],
   muts    |-> [i \in Present(t) |-> t[i].body.muts],
   refs    |-> [i \in Present(t) |-> References(t[i].body, Present(t))],
   aliases |-> [i \in Present(t) |-> Links(i, t[i].body)]]

-----------------------------------------------------------------------------
(* Relocations: unchanged boundaries say where unchanged text went.        *)

Pairs(before, after) == {<<before[n][1], before[n][2], after[n][2]>> : n \in DOMAIN before}

Relocatable(before, after) ==
  /\ Len(before) = Len(after)
  /\ \A n \in DOMAIN before : before[n][1] = after[n][1]
  /\ \A x, y \in Pairs(before, after) :
       x[1] = y[1] => /\ x[2] = y[2] => x[3] = y[3]
                      /\ x[2] < y[2] => x[3] <= y[3]

\* Relocations::position: by the last boundary at or before the place.
Position(pairs, file, old) ==
  LET here  == {x \in pairs : x[1] = file}
      upto  == {x \in here : x[2] <= old}
      from  == IF upto # {} THEN CHOOSE x \in upto : \A y \in upto : y[2] <= x[2]
                            ELSE CHOOSE x \in here : \A y \in here : x[2] <= y[2]
  IN  IF here = {} THEN old ELSE LET to == old + from[3] - from[2] IN IF to < 0 THEN 0 ELSE to

MovedSpan(pairs, s) == [s EXCEPT !.start = Position(pairs, s.file, @)]

\* Both ends move: a scope may hold text that changed.
MovedScope(pairs, s) ==
  LET start == Position(pairs, s.file, s.start)
  IN  [s EXCEPT !.start = start, !.width = Position(pairs, s.file, s.start + s.width) - start]

Within(inner, outer) ==
  /\ inner.file = outer.file /\ outer.start <= inner.start
  /\ inner.start + inner.width <= outer.start + outer.width

-----------------------------------------------------------------------------
(* Cached::update.                                                         *)

ChangedBodies(before, after) == {i \in Present(after) : before[i].body # after[i].body}

\* The edit stays inside the ranges the snapshot fixed for everyone else.
KeepsRanges(c, t, edited) ==
  /\ \A i \in edited : c.rigids[i][1] + RigidsOf(t[i]) = c.rigids[i][2]
  /\ ~c.output.mut => \A i \in edited : t[i].body.muts = 0

\* What everything is given as, after an edit.
Relinked(c, t, edited) == [i \in Present(t) |-> IF i \in edited THEN Links(i, t[i].body) ELSE c.aliases[i]]

\* Groups are found again when what any definition refers to has changed.
Regrouped(c, refs) == IF refs # c.refs THEN Grouping(refs) ELSE c.output.groups

\* The places of everything: what was kept moves, what was edited is recorded anew.
SourceAfter(c, t, edited) ==
  LET p     == Places(t)
      pairs == Pairs(Points(c.text), Points(t))
      kept  == [a \in {b \in DOMAIN c.output.source : b.of \notin edited} |->
                  MovedSpan(pairs, c.output.source[a])]
      fresh == FirstRecorded(FlattenSeq([i \in Defs |-> IF i \in edited THEN DefRecords(t, p, i) ELSE <<>>]))
  IN  [a \in DOMAIN kept \cup DOMAIN fresh |-> IF a \in DOMAIN fresh THEN fresh[a] ELSE kept[a]]

ScopesAfter(c, t, edited) ==
  LET p     == Places(t)
      pairs == Pairs(Points(c.text), Points(t))
      was   == Places(c.text)
      inEdited(s) == \E i \in edited : Within(s, Span(i, was[i].body, was[i].end - was[i].body))
  IN  {[s EXCEPT !.span = MovedScope(pairs, @)] : s \in {x \in c.output.scopes : ~inEdited(x.span)}}
        \cup {BodyScope(i, p[i]) : i \in {j \in edited : t[j].body.scope}}

Updated(c, t) ==
  LET edited == ChangedBodies(c.text, t)
      p      == Places(t)
      refs   == [i \in Present(t) |-> IF i \in edited THEN References(t[i].body, Present(t)) ELSE c.refs[i]]
      muts   == [i \in Present(t) |-> IF i \in edited THEN t[i].body.muts ELSE c.muts[i]]
  IN  [text |-> t, rigids |-> c.rigids, muts |-> muts, refs |-> refs, aliases |-> Relinked(c, t, edited),
       output |->
         [c.output EXCEPT
            !.terms  = [i \in DOMAIN @ |->
                          IF i \in edited THEN [@[i] EXCEPT !.value = t[i].body, !.name = NameAnchor(i, p[i]),
                                                            !.nodes = BodyAnchors(i, p[i], t[i].body)]
                                          ELSE @[i]],
            !.groups = Regrouped(c, refs),
            !.scopes = ScopesAfter(c, t, edited),
            !.source = SourceAfter(c, t, edited)]]

NoLoopByReference(c, u) ==
  u.refs # c.refs => Circling(UNION {u.aliases[i] : i \in DOMAIN u.aliases}) = {}

\* An edit that forwards something else must not make anything forward itself.
NoLoop(c, u) ==
  u.aliases # c.aliases => Circling(UNION {u.aliases[i] : i \in DOMAIN u.aliases}) = {}

\* When the update gives up and the builder runs instead.
Reusable(c, t) ==
  /\ c # None
  /\ ShapeHeaders(c.text) = ShapeHeaders(t)
  /\ Relocatable(Points(c.text), Points(t))
  /\ LET edited == ChangedBodies(c.text, t)
         u      == Updated(c, t)
     IN  /\ KeepsRanges(c, t, edited)
         /\ \A i \in edited : ~Wrong(t[i].body, Present(t))
         /\ NoLoop(c, u)
         /\ ~(MutsIn(c.muts) # 0 /\ MutsIn(u.muts) = 0)

-----------------------------------------------------------------------------
(* Inference inputs.                                                       *)

PreparedOnce(out, only) ==
  [g \in out.groups |->
     IF only # All /\ g \in DOMAIN inputs THEN inputs[g] ELSE [i \in g |-> out.terms[i]]]

\* prepare_bodies: a group that is still one and holds no changed definition
\* keeps what it was given; others are given the program's terms.
Prepared(out, only) ==
  [g \in out.groups |->
     IF only # All /\ g \cap only = {} /\ g \in DOMAIN inputs THEN inputs[g]
     ELSE [i \in g |-> out.terms[i]]]

PreparedHeader(out, only) ==
  IF only # All /\ header # None THEN header ELSE [i \in DOMAIN out.terms |-> out.terms[i].h]

\* What inference may rely on: the changes of this one lowering, unless it
\* missed one before.
Reported == IF behind = 1 THEN changed ELSE All

-----------------------------------------------------------------------------
(* Actions.                                                                *)

Written(h, b) == [h |-> h, attr |-> FALSE, gap |-> 0, mid |-> 0, body |-> b]
Absent == Written(None, Erased)

\* A definition is written, rewritten or removed, or moves.
Edit ==
  /\ phase = "idle"
  /\ \E i \in habit.defs :
       \/ \E h \in habit.headers \ {None}, b \in habit.bodies :
            text' = [text EXCEPT ![i].h = h, ![i].body = b]
       \/ None \in habit.headers /\ text' = [text EXCEPT ![i] = Absent]
       \/ text[i].h # None /\ \E n \in habit.gaps : text' = [text EXCEPT ![i].gap = n]
       \/ text[i].attr /\ \E n \in habit.gaps : text' = [text EXCEPT ![i].mid = n]
       \/ /\ i \in habit.attributes /\ text[i].h # None
          /\ text' = [text EXCEPT ![i].attr = ~@, ![i].mid = 0]
  /\ text' # text
  /\ UNCHANGED <<lowered, cached, output, changed, phase, behind, inputs, header>>

NextGeneration == behind' = IF behind = 2 THEN 2 ELSE behind + 1

\* build_with_interfaces, with the cache or without it.
Lower ==
  /\ phase = "idle"
  /\ lowered' = text /\ phase' = "lowered" /\ NextGeneration
  /\ IF Reusable(cached, text)
     THEN LET u == Updated(cached, text)
          IN  cached' = u /\ output' = u.output /\ changed' = ChangedBodies(cached.text, text)
     ELSE LET out == Build(text)
          IN  /\ output' = out /\ changed' = All
              /\ cached' = IF out.errors = {} THEN Snapshot(text, out) ELSE None
  /\ UNCHANGED <<text, inputs, header>>

\* Cancelled while it lowers: the previous revision stays.
CancelLowering ==
  /\ habit.cancels /\ phase = "idle" /\ NextGeneration
  /\ UNCHANGED <<text, lowered, cached, output, changed, phase, inputs, header>>

Infer ==
  /\ phase = "lowered"
  /\ inputs' = Prepared(output, Reported) /\ header' = PreparedHeader(output, Reported)
  /\ phase' = "idle" /\ changed' = All
  \* Cancelled while it solves: the inputs are set, the generation is not.
  /\ behind' \in (IF habit.cancels THEN {0, behind} ELSE {0})
  /\ UNCHANGED <<text, lowered, cached, output>>

\* Cancelled before the inputs were set.
CancelInference ==
  /\ habit.cancels /\ phase = "lowered" /\ phase' = "idle" /\ changed' = All
  /\ UNCHANGED <<text, lowered, cached, output, behind, inputs, header>>

Nothing == [terms |-> <<>>, groups |-> {}, mut |-> FALSE, errors |-> {}, scopes |-> {}, source |-> <<>>]

Init ==
  /\ habit \in Habits
  /\ \E b \in [habit.defs -> habit.bodies] :
       text = [i \in Defs |-> IF i \in habit.defs THEN Written(1, b[i]) ELSE Absent]
  /\ lowered = [i \in Defs |-> Absent]
  /\ cached = None /\ output = Nothing /\ changed = All /\ phase = "idle" /\ behind = 0
  /\ inputs = <<>> /\ header = None

Next == (Edit \/ Lower \/ CancelLowering \/ Infer \/ CancelInference) /\ UNCHANGED habit

Spec == Init /\ [][Next]_vars

-----------------------------------------------------------------------------
(* Properties.                                                             *)

\* The cache is a revision that was built without an error, and it says of
\* itself what the builder would.
TypeOK ==
  /\ phase \in {"idle", "lowered"} /\ behind \in 0 .. 2
  /\ changed = All \/ changed \subseteq Present(lowered)
  /\ cached # None => /\ cached.output.errors = {}
                      /\ cached = [Snapshot(cached.text, cached.output) EXCEPT !.output = cached.output]

\* The code of a term: everything but where its attribute is anchored.
Code(term) == [h |-> term.h, value |-> term.value, rigid |-> term.rigid, name |-> term.name, nodes |-> term.nodes]

\* However many edits an incremental lowering has behind it, it returns the
\* program, the groups and the errors that lowering the text afresh returns
\* (src/ir/incremental.rs; tests/src/ir.rs asserts it of a dozen edits).
ProgramIsCurrent ==
  LET fresh == Build(lowered)
  IN  /\ DOMAIN output.terms = DOMAIN fresh.terms
      /\ \A i \in DOMAIN fresh.terms : Code(output.terms[i]) = Code(fresh.terms[i])
      /\ output.groups = fresh.groups /\ output.mut = fresh.mut /\ output.errors = fresh.errors

\* So are the places its anchors point to, attributes included, and the scopes
\* of local imports: Relocations moves what was kept.
PlacesAreCurrent ==
  LET fresh == Build(lowered)
      at(out, a) == Located(out.source, a)
  IN  /\ output.scopes = fresh.scopes
      /\ \A i \in DOMAIN fresh.terms :
           LET o == output.terms[i]
               f == fresh.terms[i]
           IN  /\ at(output, o.name) = at(fresh, f.name)
               /\ o.attr # None => at(output, o.attr) = at(fresh, f.attr)
               /\ \A n \in DOMAIN f.nodes : at(output, o.nodes[n]) = at(fresh, f.nodes[n])

\* When an analysis is done, inference has read the program that was lowered:
\* no group keeps an input of an earlier revision, whatever was cancelled in
\* between (src/analysis.rs:350, prepare_bodies).
InferenceIsCurrent ==
  phase = "idle" /\ behind = 0 /\ lowered # [i \in Defs |-> Absent] =>
    /\ DOMAIN inputs = output.groups
    /\ \A g \in DOMAIN inputs : \A i \in g : Code(inputs[g][i]) = Code(output.terms[i])
    /\ header = [i \in DOMAIN output.terms |-> output.terms[i].h]

\* SourceMap: "Where every anchor of a program points" (src/tracking.rs:80).
\* Two attributes written in two places are not found at one.
AttributesAreApart ==
  LET written == {i \in DOMAIN output.terms : output.terms[i].attr # None}
  IN  \A i, j \in written :
        i # j => Located(output.source, output.terms[i].attr) # Located(output.source, output.terms[j].attr)

\* "An anchor is a fact about the definition's structure, so the lowered form
\* of a definition nobody edited compares equal to what it was"
\* (src/tracking.rs:41).
UneditedStaysEqual ==
  [][\A i \in DOMAIN output.terms \cap DOMAIN output'.terms :
       lowered'[i] = lowered[i] => output'.terms[i].attr = output.terms[i].attr]_vars
=============================================================================
