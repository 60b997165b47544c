---------------------------- MODULE PrimIntegers ----------------------------
(***************************************************************************)
(* The integers of the portable primitive table, twice: as the reference   *)
(* interpreter computes them (interp/src/prim.rs) and as the JavaScript    *)
(* backend does (src/backend/primitives.js).  The interpreter takes every  *)
(* result in a wide integer and keeps the low bits.  JavaScript has no     *)
(* integers below 64 bits: it computes with doubles, cuts to a 32-bit word *)
(* by a bitwise operator, shifts a narrow width up and down again, and     *)
(* uses BigInt for 64 bits only.                                           *)
(*                                                                         *)
(* A program holds one integer, of some type, and each step applies a      *)
(* primitive to it.  Widths are scaled down, keeping what the code relies  *)
(* on: two narrow widths inside a word, a product of two narrow numbers    *)
(* but not of two words inside the exact doubles, a wide width of two      *)
(* words outside them, and the interpreter's integer of two wide widths.   *)
(***************************************************************************)
EXTENDS Integers, Sequences, FiniteSets, Functions

CONSTANTS
  Narrow,    \* the widths below a word: 8 and 16 bits in the code
  Word,      \* the width of a bitwise operation of JavaScript: 32 bits
  Exact,     \* the bits of a double's significand: 53
  Wide,      \* the width of a BigInt primitive and of Rust's u64: 64 bits
  ByteBits,  \* the bits of one byte
  Bounds     \* how far apart the two bounds of a clamp may be

ASSUME WidthsAssumption ==
  /\ \A w \in Narrow : w \in 2 .. Word - 1 /\ 2 * w <= Exact
  /\ Word < Exact /\ Exact < 2 * Word /\ Wide = 2 * Word
  /\ Word % ByteBits = 0
  /\ Bounds \in Nat

VARIABLES
  domain,  \* what the build binds Nat and Int to: Exact or Word bits
  type,    \* the type of the integer the program holds
  interp,  \* the integer as the interpreter holds it
  js       \* the same as the generated program holds it

vars == <<domain, type, interp, js>>

Own == 0   \* the width of Nat and Int, which the target decides
Widths == Narrow \cup {Word, Wide}
Types == [signed : BOOLEAN, bits : Widths \cup {Own}]

-----------------------------------------------------------------------------
(* Ranges.                                                                 *)

\* Domains::nat and Domains::int: the safe integers are symmetric, a word is not.
DomainHigh(d, signed) == 2 ^ (IF signed /\ d = Word THEN d - 1 ELSE d) - 1
DomainLow(d, signed)  == IF ~signed THEN 0 ELSE IF d = Word THEN -(2 ^ (d - 1)) ELSE -(2 ^ d - 1)
Holds(d, signed, v)   == v \in DomainLow(d, signed) .. DomainHigh(d, signed)

InWidth(t, v) == IF t.signed THEN v \in -(2 ^ (t.bits - 1)) .. 2 ^ (t.bits - 1) - 1
                             ELSE v \in 0 .. 2 ^ t.bits - 1

Values(d, t) ==
  IF t.bits = Own THEN DomainLow(d, t.signed) .. DomainHigh(d, t.signed)
  ELSE IF t.signed THEN -(2 ^ (t.bits - 1)) .. 2 ^ (t.bits - 1) - 1
  ELSE 0 .. 2 ^ t.bits - 1

Abs(v)     == IF v < 0 THEN -v ELSE v
Sign(v)    == IF v < 0 THEN -1 ELSE 1
Trunc(a, b) == Sign(a) * Sign(b) * (Abs(a) \div Abs(b))   \* towards zero
Rem(a, b)   == a - b * Trunc(a, b)

-----------------------------------------------------------------------------
(* The interpreter.  An outcome is a value or a contract failure.          *)

Value(v) == [fails |-> FALSE, v |-> v]
Failure  == [fails |-> TRUE, v |-> 0]

\* wrap: the low bits, the highest of them read as a sign where there is one.
Wrap(t, v) ==
  LET low == v % 2 ^ t.bits
  IN  IF InWidth(t, low) THEN low ELSE low - 2 ^ t.bits

I64  == [signed |-> TRUE,  bits |-> Wide]
U64  == [signed |-> FALSE, bits |-> Wide]
I128 == [signed |-> TRUE,  bits |-> 2 * Wide]

\* fixed: one primitive of a fixed width; c is the second bound of a clamp.
Fixed(t, name, a, b, c) ==
  LET whole(v) == Value(Wrap(t, v))
  IN  CASE name = "add"      -> whole(a + b)
        [] name = "subtract" -> whole(a - b)
        [] name = "multiply" -> whole(Wrap(I128, a * b))
        [] name = "divide"    -> IF b = 0 THEN Failure ELSE whole(Trunc(a, b))
        [] name = "remainder" -> IF b = 0 THEN Failure ELSE whole(Rem(a, b))
        [] name = "negate"   -> whole(-a)
        [] name = "abs"      -> whole(Abs(a))
        [] name = "min"      -> whole(IF a < b THEN a ELSE b)
        [] name = "max"      -> whole(IF a > b THEN a ELSE b)
        [] name = "clamp"    -> whole(IF a < b THEN b ELSE IF a > c THEN c ELSE a)

\* integers and naturals: one primitive of the target's own width, in the
\* interpreter's 64 bits.
Native(t, name, a, b, c) ==
  LET whole(v) == Value(Wrap(IF t.signed THEN I64 ELSE U64, v))
  IN  CASE name = "add"      -> whole(a + b)
        [] name = "subtract" -> IF t.signed \/ a > b THEN whole(a - b) ELSE Value(0)
        [] name = "multiply" -> whole(a * b)
        [] name = "divide"    -> IF b = 0 THEN Failure ELSE whole(Trunc(a, b))
        [] name = "remainder" -> IF b = 0 THEN Failure ELSE whole(Rem(a, b))
        [] name = "negate"   -> whole(-a)
        [] name = "abs"      -> whole(Abs(a))
        [] name = "min"      -> Value(IF a < b THEN a ELSE b)
        [] name = "max"      -> Value(IF a > b THEN a ELSE b)
        [] name = "clamp"    -> LET m == IF a > b THEN a ELSE b
                                IN  Value(IF m < c THEN m ELSE c)

Interp(t, name, a, b, c) ==
  IF t.bits = Own THEN Native(t, name, a, b, c) ELSE Fixed(t, name, a, b, c)

\* from_nat and from_int of a fixed width, and to_nat and to_int of one.
InterpNarrow(t, v)       == Value(Wrap(t, v))
InterpWiden(d, signed, v) == IF Holds(d, signed, v) THEN Value(v) ELSE Failure

-----------------------------------------------------------------------------
(* JavaScript.  A number is a double, whose zero has a sign; a BigInt has  *)
(* none.                                                                   *)

Num(v)            == [fails |-> FALSE, v |-> v, minus |-> FALSE]
SignedNum(v, neg) == [fails |-> FALSE, v |-> v, minus |-> v = 0 /\ neg]
Throw             == [fails |-> TRUE, v |-> 0, minus |-> FALSE]

Negative(x) == x.v < 0 \/ x.minus

\* The bits of a natural number, and the rational a/b (both positive) rounded
\* to Exact bits, ties to even, as the pair <<m, k>> that stands for m / 2^k.
Bits(v) == CHOOSE n \in 0 .. 4 * Wide : v < 2 ^ n /\ (n > 0 => v >= 2 ^ (n - 1))

HalfEven(a, b) ==
  LET q == a \div b
      r == 2 * (a - q * b)
  IN  IF r > b \/ (r = b /\ q % 2 = 1) THEN q + 1 ELSE q

RoundedQuotient(a, b) ==
  LET k == IF Bits(a \div b) < Exact THEN Exact - Bits(a \div b) ELSE 0
  IN  <<HalfEven(a * 2 ^ k, b), 2 ^ k>>

\* An integer result kept in a double: beyond Exact bits the low ones are lost.
Double(v) ==
  LET drop == IF Bits(Abs(v)) > Exact THEN Bits(Abs(v)) - Exact ELSE 0
  IN  Sign(v) * HalfEven(Abs(v), 2 ^ drop) * 2 ^ drop

\* Math.trunc(left / right), the quotient having been rounded to a double.
TruncQuotient(x, y) ==
  LET q == RoundedQuotient(Abs(x.v), Abs(y.v))
  IN  SignedNum(Sign(x.v) * Sign(y.v) * (q[1] \div q[2]), Negative(x) # Negative(y))

ToInt32(v)  == Wrap([signed |-> TRUE, bits |-> Word], v)
ToUint32(v) == v % 2 ^ Word
ShiftLeft(v, n)  == ToInt32(ToInt32(v) * 2 ^ n)
ShiftRight(v, n) == ToInt32(v) \div 2 ^ n
AsN(t, v)   == Wrap(t, v)   \* BigInt.asIntN, BigInt.asUintN

\* Math.imul: the low word of the product of two words, whatever it exceeds.
ProductOfDoubles(a, b) == ToInt32(Double(a * b))
Imul(a, b) == ToInt32(ToInt32(a) * ToInt32(b))

\* What each width puts around a result: << 24 >> 24, & 255, | 0, >>> 0, asIntN.
JsWhole(t, v) ==
  Num(CASE t.bits = Wide -> AsN(t, v)
        [] t.bits = Word -> IF t.signed THEN ToInt32(v) ELSE ToUint32(v)
        [] OTHER -> IF t.signed THEN ShiftRight(ShiftLeft(v, Word - t.bits), Word - t.bits)
                                ELSE ToInt32(v) % 2 ^ t.bits)

JsFixed(t, name, x, y, z) ==
  LET whole(v) == JsWhole(t, v)
      big == t.bits = Wide
  IN  CASE name = "add"      -> whole(x.v + y.v)
        [] name = "subtract" -> whole(x.v - y.v)
        [] name = "multiply" -> IF t.bits = Word THEN whole(Imul(x.v, y.v)) ELSE whole(x.v * y.v)
        [] name = "divide"    -> IF y.v = 0 THEN Throw
                                 ELSE whole(IF big THEN Trunc(x.v, y.v) ELSE TruncQuotient(x, y).v)
        [] name = "remainder" -> IF y.v = 0 THEN Throw ELSE whole(Rem(x.v, y.v))
        [] name = "negate"   -> whole(-x.v)
        [] name = "abs"      -> IF x.v < 0 THEN whole(-x.v) ELSE x
        [] name = "min"      -> IF x.v < y.v THEN x ELSE y
        [] name = "max"      -> IF x.v > y.v THEN x ELSE y
        [] name = "clamp"    -> IF x.v < y.v THEN y ELSE IF x.v > z.v THEN z ELSE x

\* value + 0: the one integer zero.
PlusZero(x) == [x EXCEPT !.minus = FALSE]

\* Math.min and Math.max tell the zeros apart: the negative one is the lesser.
JsLess(x, y) == x.v < y.v \/ (x.v = y.v /\ x.minus /\ ~y.minus)
JsMin(x, y)  == IF JsLess(y, x) THEN y ELSE x
JsMax(x, y)  == IF JsLess(x, y) THEN y ELSE x

JsNative(t, name, x, y, z) ==
  CASE name = "add"      -> SignedNum(Double(x.v + y.v), x.minus /\ y.minus)
    [] name = "subtract" -> LET d == SignedNum(Double(x.v - y.v), x.minus /\ ~y.minus)
                            IN  IF t.signed THEN d ELSE JsMax(Num(0), d)
    [] name = "multiply" -> LET p == SignedNum(Double(x.v * y.v), Negative(x) # Negative(y))
                            IN  IF t.signed THEN PlusZero(p) ELSE p
    [] name = "divide"    -> LET q == TruncQuotient(x, y) IN IF t.signed THEN PlusZero(q) ELSE q
    [] name = "remainder" -> LET r == SignedNum(Rem(x.v, y.v), Negative(x))
                             IN  IF t.signed THEN PlusZero(r) ELSE r
    [] name = "negate"   -> PlusZero(SignedNum(-x.v, ~Negative(x)))
    [] name = "abs"      -> Num(Abs(x.v))
    [] name = "min"      -> JsMin(x, y)
    [] name = "max"      -> JsMax(x, y)
    [] name = "clamp"    -> JsMin(JsMax(x, y), z)

Js(t, name, x, y, z) ==
  IF t.bits = Own THEN JsNative(t, name, x, y, z) ELSE JsFixed(t, name, x, y, z)

Safe(v) == Abs(v) < 2 ^ Exact

\* from_nat and from_int refuse what is no safe integer, BigInt or not.
JsNarrow(t, x) == IF ~Safe(x.v) THEN Throw ELSE JsWhole(t, x.v)

\* to_nat and to_int compare numbers with the clamped bounds, and a BigInt
\* with the exact ones and with what a double keeps of it.
JsWiden(d, t, x) ==
  IF Holds(d, t.signed, x.v) /\ (t.bits = Wide => Double(x.v) = x.v) THEN Num(x.v) ELSE Throw

-----------------------------------------------------------------------------
(* Reals become integers: floor, ceil, round and truncate to Int, from_real *)
(* to either.  A real is a double: a number of halves, its zero with a sign, *)
(* an infinity, or no number.                                              *)

Finite(h, neg) == [kind |-> "finite", h |-> h, minus |-> h = 0 /\ neg]
Infinity(sign) == [kind |-> "infinite", h |-> sign, minus |-> FALSE]
NaN            == [kind |-> "nan", h |-> 0, minus |-> FALSE]

\* Reals about zero and the ends of every integer domain, as far as a double
\* has them, and what lies beyond all of them.
Reals ==
  LET edges == {0} \cup {sign * 2 ^ (e + 1) : sign \in {-1, 1},
                         e \in {Word - 1, Word, Exact, Wide - 1, Wide}}
      halves == {edge + k : edge \in edges, k \in -3 .. 3}
  IN  {Finite(h, neg) : h \in {x \in halves : Double(x) = x}, neg \in BOOLEAN}
        \cup {Infinity(-1), Infinity(1), NaN}

Roundings(signed) ==
  {"from_real"} \cup (IF signed THEN {"floor", "ceil", "round", "truncate"} ELSE {})

Rounded(name, h) ==
  CASE name = "floor" -> h \div 2
    [] name = "ceil"  -> -((-h) \div 2)
    [] name = "round" -> (h + 1) \div 2      \* ties go up in both
    [] name \in {"truncate", "from_real"} -> Trunc(h, 2)

\* Rust's `as`: what is no number is zero, the rest is clamped to the type.
As(t, name, r) ==
  LET low == IF t.signed THEN -(2 ^ (t.bits - 1)) ELSE 0
      high == 2 ^ (IF t.signed THEN t.bits - 1 ELSE t.bits) - 1
      v == Rounded(name, r.h)
  IN  CASE r.kind = "nan" -> 0
        [] r.kind = "infinite" -> IF r.h < 0 THEN low ELSE high
        [] OTHER -> IF InWidth(t, v) THEN v ELSE IF v < 0 THEN low ELSE high

InterpNatFromReal(r) == As(U64, "from_real", r)
InterpIntFromReal(r) == As(I64, "from_real", r)
InterpOfReal(signed, name, r) ==
  Value(IF ~signed THEN InterpNatFromReal(r)
        ELSE IF name = "from_real" THEN InterpIntFromReal(r) ELSE As(I64, name, r))

\* Math.floor and its like keep a double a double, and + 0 leaves one zero.
JsRounded(name, r) ==
  IF r.kind = "finite" THEN Finite(2 * Rounded(name, r.h), r.h < 0 \/ r.minus) ELSE r
JsPlusZero(x) == [x EXCEPT !.minus = FALSE]

\* The greater of 0 and a number; of NaN it is NaN.
JsNatFromReal(r) ==
  LET x == JsRounded("from_real", r)
  IN  IF x.kind # "nan" /\ (x.h < 0 \/ x.minus) THEN Finite(0, FALSE) ELSE x
JsIntFromReal(r) == JsPlusZero(JsRounded("from_real", r))
JsOfReal(signed, name, r) ==
  IF ~signed THEN JsNatFromReal(r)
  ELSE IF name = "from_real" THEN JsIntFromReal(r) ELSE JsPlusZero(JsRounded(name, r))

-----------------------------------------------------------------------------
(* Bytes.  A writer writes the low bytes of a number, least first; a reader *)
(* is given at least as many bytes as it reads.                            *)

WideBytes == Wide \div ByteBits
WordBytes == Word \div ByteBits

Written(v, n) == [i \in 1 .. n |-> (v \div 2 ^ ((i - 1) * ByteBits)) % 2 ^ ByteBits]

LittleEndian(bytes) == SumFunction([i \in DOMAIN bytes |-> bytes[i] * 2 ^ ((i - 1) * ByteBits)])

Readers == {"nat64", "int64", "nat", "int", "nat32"}

ReadType(reader) ==
  [signed |-> reader \in {"int64", "int"}, bits |-> IF reader \in {"nat64", "int64"} THEN Wide ELSE Own]

Count(reader) == IF reader = "nat32" THEN WordBytes ELSE WideBytes

\* An option that is #None is told as a failure: nothing else fails here.
InterpRead(d, reader, bytes) ==
  LET t == ReadType(reader)
      n == LittleEndian(SubSeq(bytes, 1, Count(reader)))
      v == IF t.signed THEN Wrap(I64, n) ELSE n
  IN  IF reader \in {"nat", "int"} /\ ~Holds(d, t.signed, v) THEN Failure ELSE Value(v)

\* nat32_from_bytes: the low bytes put together as a word, which has a sign,
\* and the last one multiplied in so that it does not become that sign.
TopShifted(bytes) == ToInt32(LittleEndian(SubSeq(bytes, 1, WordBytes)))
TopMultiplied(bytes) ==
  ToInt32(LittleEndian(SubSeq(bytes, 1, WordBytes - 1))) + bytes[WordBytes] * 2 ^ (Word - ByteBits)

\* The 64-bit readers reduce over every byte they are given.
JsRead(d, reader, bytes) ==
  LET t == ReadType(reader)
      n == LittleEndian(bytes)
      v == IF t.signed THEN AsN(I64, n) ELSE n
  IN  IF reader = "nat32" THEN Num(TopMultiplied(bytes))
      ELSE IF reader \in {"nat", "int"} /\ ~Holds(d, t.signed, v) THEN Throw ELSE Num(v)

\* The writer of a type, as the standard library's codec picks it.
CanWrite(t) == t.bits \in {Own, Wide}

-----------------------------------------------------------------------------
(* The program.                                                            *)

Keep(t, i, j) == type' = t /\ interp' = i /\ js' = j /\ UNCHANGED domain

Running == ~interp.fails /\ ~js.fails

Names(t) == {"add", "subtract", "multiply", "divide", "remainder", "min", "max", "clamp"}
              \cup (IF t.signed THEN {"negate", "abs"} ELSE {})

\* At the target's own width overflow and a zero divisor are undefined
\* (tests/src/interp_prim.rs:139): no claim is made about them.
Defined(t, name, a, b) ==
  t.bits = Own =>
    /\ name \in {"divide", "remainder"} => b # 0
    /\ Holds(domain, t.signed,
             CASE name = "add" -> a + b
               [] name = "subtract" /\ t.signed -> a - b
               [] name = "multiply" -> a * b
               [] name = "divide" -> Trunc(a, b)
               [] name \in {"negate", "abs"} -> -a
               [] OTHER -> a)

Operands(t, name) == IF name \in {"negate", "abs"} THEN {interp.v} ELSE Values(domain, t)
Uppers(t, name, b) == IF name = "clamp" THEN (b - Bounds .. b + Bounds) \cap Values(domain, t) ELSE {b}

\* One primitive of the type, on the held integer and one or two more.
Apply ==
  /\ Running
  /\ \E name \in Names(type) : \E b \in Operands(type, name) : \E c \in Uppers(type, name, b) :
       /\ Defined(type, name, interp.v, b)
       /\ Keep(type, Interp(type, name, interp.v, b, c), Js(type, name, js, Num(b), Num(c)))

\* from_nat and from_int of every fixed width.
ToFixed ==
  /\ Running /\ type.bits = Own
  /\ \E t \in Types : t.bits # Own /\ Keep(t, InterpNarrow(t, interp.v), JsNarrow(t, js))

\* to_nat and to_int of every fixed width.
ToOwn ==
  /\ Running /\ type.bits # Own
  /\ Keep([type EXCEPT !.bits = Own], InterpWiden(domain, type.signed, interp.v), JsWiden(domain, type, js))

\* nat.from_int, which saturates, and int.from_nat where the Int holds it.
ToOther ==
  /\ Running /\ type.bits = Own
  /\ Holds(domain, ~type.signed, IF type.signed /\ interp.v < 0 THEN 0 ELSE interp.v)
  /\ Keep([type EXCEPT !.signed = ~@],
          IF type.signed /\ interp.v < 0 THEN Value(0) ELSE interp,
          IF type.signed THEN JsMax(Num(0), js) ELSE js)

\* A conversion out of the domain is undefined as overflow is
\* (.scratch/introspection/spec.md:84): the interpreter has 0 for NaN and the
\* ends of 64 bits, JavaScript has the double.  Below zero a Nat is 0.
DefinedReal(signed, name, r) ==
  LET v == Rounded(name, r.h)
  IN  CASE r.kind = "nan" -> FALSE
        [] r.kind = "infinite" -> ~signed /\ r.h < 0
        [] OTHER -> Holds(domain, signed, v) \/ (~signed /\ v < 0)

\* A real number becomes an integer, in JavaScript by staying the number it is.
OfReal ==
  /\ Running /\ type.bits = Own
  /\ \E name \in Roundings(type.signed), r \in Reals :
       /\ DefinedReal(type.signed, name, r)
       /\ LET x == JsOfReal(type.signed, name, r)
          IN  Keep(type, InterpOfReal(type.signed, name, r), SignedNum(x.h \div 2, x.minus))

\* The integer is written to bytes and these are read as something else.
Recode ==
  /\ Running /\ CanWrite(type)
  /\ \E reader \in Readers :
       LET n == Count(reader)
       IN  Keep(ReadType(reader), InterpRead(domain, reader, Written(interp.v, n)),
                                  JsRead(domain, reader, Written(js.v, n)))

Init ==
  /\ domain \in {Exact, Word}
  /\ type \in Types
  /\ \E v \in Values(domain, type) : interp = Value(v) /\ js = Num(v)

Next == Apply \/ ToFixed \/ ToOwn \/ ToOther \/ OfReal \/ Recode

Spec == Init /\ [][Next]_vars

-----------------------------------------------------------------------------
(* Properties.                                                             *)

\* Every integer a program comes to hold is one of its type: interp/src/prim.rs
\* wraps a fixed width on every path, to_nat and to_int check what leaves one,
\* and of the target's own integers what is defined stays in the domain.
Held == ~interp.fails => interp.v \in Values(domain, type)

\* "Integers have one zero" (docs/src/grammar.md:46): no primitive hands a
\* program the negative zero of JavaScript's numbers.
OneZero == ~js.minus

\* "Every target implements the same table" (docs/src/grammar.md:770): after
\* any sequence of primitives the interpreter and the generated program hold
\* the same integer, one of its type and with one zero, or both have failed.
\* Of primitives that are undefined for their operands nothing is claimed.
TheSameTable == interp.fails = js.fails /\ interp.v = js.v /\ Held /\ OneZero

\* What tests/src/interp_prim.rs:171 pins for NaN and 1e30 would hold of every
\* target: reals become the same integer wherever they are.  They do not.
RealsBecomeTheSame ==
  \A signed \in BOOLEAN : \A name \in Roundings(signed), r \in Reals :
    LET x == JsOfReal(signed, name, r)
    IN  x.kind = "finite" /\ x.h = 2 * InterpOfReal(signed, name, r).v

\* What one implementation writes as bytes the other reads back whole, at
\* every width that has a writer (std/binary.rud).
BytesCarryNumbers ==
  Running /\ CanWrite(type) =>
    LET back == IF type.bits = Wide THEN IF type.signed THEN "int64" ELSE "nat64"
                                    ELSE IF type.signed THEN "int" ELSE "nat"
    IN  /\ JsRead(domain, back, Written(interp.v, WideBytes)) = js
        /\ InterpRead(domain, back, Written(js.v, WideBytes)) = interp
        /\ type.bits = Own /\ interp.v \in 0 .. 2 ^ Word - 1 =>
             /\ JsRead(domain, "nat32", Written(interp.v, WordBytes)) = js
             /\ InterpRead(domain, "nat32", Written(js.v, WordBytes)) = interp

\* "Bytes past the count are left out, as the JavaScript leaves them out by
\* never reading them" (interp/src/prim.rs:626): the JavaScript reads the
\* same integer whatever byte follows.
BytesPastTheCountAreLeftOut ==
  \A reader \in Readers : \A extra \in 0 .. 2 ^ ByteBits - 1 :
    LET bytes == Written(js.v, Count(reader))
    IN  JsRead(domain, reader, Append(bytes, extra)) = JsRead(domain, reader, bytes)
=============================================================================
