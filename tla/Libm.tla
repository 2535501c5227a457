-------------------------------- MODULE Libm --------------------------------
(***************************************************************************)
(* asin, atan and atan2 of the gyroscope's task                            *)
(* (app/demo/mpu6050/src/asin.c, atan.c, atan2.c, fabs.c, libm.h; the      *)
(* stand-alone demo has the same files, byte for byte).                    *)
(*                                                                         *)
(* A double is its sign and its magnitude.  Moderate magnitudes are counted *)
(* in units of 2^-13, and sums, products, quotients and coefficients are   *)
(* rounded to a unit; the others stand for their kind.  The functions      *)
(* choose their formula by the upper word of the argument, which is        *)
(* computed here to the bit.  A behaviour is a sequence of calls.          *)
(***************************************************************************)
EXTENDS Integers, Sequences

CONSTANTS
  Step,      \* bound: the numbers tried are multiples of Step units ...
  Coarse,    \* ... or, where two are needed, of Coarse units, ...
  Limit      \* ... up to Limit units

LibmAssumption == {Step, Coarse, Limit} \subseteq Nat \ {0}

VARIABLES
  fn,        \* the function called last
  argY, argX,
  angle      \* what it returned

libmVars == <<fn, argY, argX, angle>>

Unit == 8192

\* Kinds: "num" is mag units; "tiny" stands for 2^-80, "huge" for 2^100, and
\* "over" for the next float above 1.
Double(kind, neg, mag) == [kind |-> kind, neg |-> neg, mag |-> mag]
Num(n) == Double("num", n < 0, IF n < 0 THEN -n ELSE n)
NaN == Double("nan", FALSE, 0)
Negated(d) == [d EXCEPT !.neg = ~@]
Signed(neg, d) == IF neg THEN Negated(d) ELSE d
Value(d) == IF d.neg THEN -d.mag ELSE d.mag

Kinds == {"tiny", "over", "huge", "inf"}
Specials == {Double(k, s, 0) : k \in Kinds, s \in BOOLEAN} \cup {NaN, Double("num", TRUE, 0)}
Multiples(n) == {Num(n * i) : i \in -(Limit \div n)..(Limit \div n)} \cup Specials

\* Rounded to a unit.
Mul(a, b) == (a * b + Unit \div 2) \div Unit
Div(a, b) == (a * Unit + b \div 2) \div b

\* The magnitude, in units, of a number of moderate size.
Units(d) == IF d.kind = "over" THEN Unit ELSE d.mag

fabs(d) == [d EXCEPT !.neg = FALSE]
isnan(d) == d.kind = "nan"
IsZero(d) == d.kind = "num" /\ d.mag = 0

\* GET_HIGH_WORD without the sign: the exponent, and 20 bits of the fraction.
HighWord(d) ==
  CASE d.kind = "tiny" -> \h3af00000
    [] d.kind = "over" -> \h3ff00000
    [] d.kind = "huge" -> \h46300000
    [] d.kind = "inf"  -> \h7ff00000
    [] d.kind = "nan"  -> \h7ff80000
    [] OTHER ->
         IF d.mag = 0 THEN 0
         ELSE LET n == CHOOSE i \in 0..20 : 2^i <= d.mag /\ d.mag < 2^(i + 1)
              IN (n + 1010) * 2^20 + (d.mag - 2^n) * 2^(20 - n)

\* Seeded fault: the lower word is not looked at.
HasLowWord_Never(d) == FALSE

\* GET_LOW_WORD: a number of units has none; the rest may.
HasLowWord(d) == d.kind = "over"

----------------------------------------------------------------------------
\* atanhi: atan of 1/2, 1, 3/2 and infinity; atanlo is far below a unit.
atanhi == <<3798, 6434, 8051, 12868>>
pi == 25736

\* The eleven coefficients aT, and the odd polynomial x - x*(s1+s2).
aT == <<2731, -1638, 1170, -910, 745, -630, 546, -478, 408, -299, 133>>
AtanPolynomial(x) ==
  LET z == Mul(x, x)
      w == Mul(z, z)
      horner[i \in 1..13] == IF i > 11 THEN 0 ELSE aT[i] + Mul(w, horner[i + 2])
  IN x - Mul(x, Mul(z, horner[1]) + Mul(w, horner[2]))

\* Seeded fault: the third formula forgets the 1.5 of its divisor.
Reduced_Third(x, ix) ==
  CASE ix < \h3fe60000 -> <<1, Div(2 * x - Unit, 2 * Unit + x)>>
    [] \h3fe60000 <= ix /\ ix < \h3ff30000 -> <<2, Div(x - Unit, x + Unit)>>
    [] \h3ff30000 <= ix /\ ix < \h40038000 -> <<3, Div(x - 12288, Unit + x)>>
    [] OTHER -> <<4, -Div(Unit, x)>>

\* The argument reduced, and the angle of atanhi it is relative to; the
\* intervals end at 11/16, 19/16 and 39/16.
Reduced(x, ix) ==
  CASE ix < \h3fe60000 -> <<1, Div(2 * x - Unit, 2 * Unit + x)>>
    [] \h3fe60000 <= ix /\ ix < \h3ff30000 -> <<2, Div(x - Unit, x + Unit)>>
    [] \h3ff30000 <= ix /\ ix < \h40038000 -> <<3, Div(x - 12288, Unit + Mul(12288, x))>>
    [] OTHER -> <<4, -Div(Unit, x)>>

\* From 2^66 on a right angle; below 7/16 the polynomial alone, below 2^-27
\* not even that.
atan(d) ==
  LET ix == HighWord(d) IN
  CASE ix >= \h44100000 -> IF isnan(d) THEN d ELSE Signed(d.neg, Num(atanhi[4]))
    [] ix <  \h3e400000 -> d
    [] \h3e400000 <= ix /\ ix < \h3fdc0000 -> Signed(d.neg, Num(AtanPolynomial(d.mag)))
    [] OTHER ->
         LET r == Reduced(Units(d), ix)
         IN Signed(d.neg, Num(atanhi[r[1]] + AtanPolynomial(r[2])))

----------------------------------------------------------------------------
\* R(z), a quotient of two polynomials.
pS == <<1365, -2667, 1648, -328, 6, 0>>
qS == <<Unit, -19689, 16556, -5638, 631>>
Horner(c, z) ==
  LET h[i \in 1..(Len(c) + 1)] == IF i > Len(c) THEN 0 ELSE c[i] + Mul(z, h[i + 1])
  IN h[1]
R(z) == Div(Mul(z, Horner(pS, z)), Horner(qS, z))

\* sqrt, of a number of units up to 1/2.
sqrt(z) == CHOOSE s \in 0..Unit : s * s <= z * Unit /\ z * Unit < (s + 1) * (s + 1)

\* |x| from 1/2 on: pi/2 - 2*asin(sqrt(z)), where z is half of 1-|x|.  Up to
\* 0.975 the root is taken in two parts: f without its low word, here its last
\* six bits, and the rest c.
AsinUpper(ix, z) ==
  LET s == sqrt(z)
      f == s - (s % 64)
      c == Div(z - Mul(f, f), s + f)
  IN IF ix >= \h3fef3333 THEN pi \div 2 - 2 * (s + Mul(s, R(z)))
     ELSE pi \div 4 - (2 * Mul(s, R(z)) + 2 * c - (pi \div 4 - 2 * f))

\* pi/2 at 1, and beyond it NaN, from 0/(x-x); below 1/2 a series.
asin(d) ==
  LET ix == HighWord(d) IN
  CASE ix = \h3ff00000 /\ ~HasLowWord(d) -> Signed(d.neg, Num(pi \div 2))
    [] ix > \h3ff00000 \/ HasLowWord(d) -> NaN
    [] ix < \h3fe00000 ->
         IF ix < \h3e500000 /\ ix >= \h00100000 THEN d
         ELSE Signed(d.neg, Num(d.mag + Mul(d.mag, R(Mul(d.mag, d.mag)))))
    [] OTHER -> Signed(d.neg, Num(AsinUpper(ix, (Unit - d.mag) \div 2)))

----------------------------------------------------------------------------
\* A quotient of magnitudes, as far as atan2 takes one.
Quotient(y, x) ==
  CASE {y.kind, x.kind} \subseteq {"num", "over"} -> Num(Div(Units(y), Units(x)))
    [] y.kind = x.kind -> Num(Unit)
    [] OTHER -> Double("tiny", FALSE, 0)

\* A zero, or an infinite x, leaves only the quadrant.
AtAxis(y, x) ==
  CASE IsZero(y) -> IF x.neg THEN Num(pi) ELSE fabs(y)
    [] ~IsZero(y) /\ IsZero(x) -> Num(pi \div 2)
    [] OTHER ->
         IF y.kind = "inf" THEN Num(IF x.neg THEN (3 * pi) \div 4 ELSE pi \div 4)
         ELSE Num(IF x.neg THEN pi ELSE 0)

\* One of the two exponents is more than 64 above the other.
Dwarfs(a, b) == HighWord(b) + 64 * 2^20 < HighWord(a)

\* atan(|y/x|), without underflow; left of the y axis it is taken from pi.
InQuadrant(y, x) ==
  IF x.neg THEN Num(pi - (IF Dwarfs(x, y) THEN 0 ELSE atan(Quotient(y, x)).mag))
  ELSE atan(Quotient(y, x))

\* The sign of y is the sign of the angle, which is right if y dwarfs x.
atan2(y, x) ==
  CASE isnan(x) \/ isnan(y) -> NaN
    [] x = Num(Unit) -> atan(y)
    [] x # Num(Unit) /\ ~isnan(y) /\ (IsZero(y) \/ IsZero(x) \/ x.kind = "inf") ->
         Signed(y.neg, AtAxis(y, x))
    [] OTHER -> Signed(y.neg, IF Dwarfs(y, x) \/ y.kind = "inf" THEN Num(pi \div 2)
                              ELSE InQuadrant(y, x))

----------------------------------------------------------------------------
Init == fn = "none" /\ argY = NaN /\ argX = NaN /\ angle = NaN

\* IMUupdate calls asin and atan2, and atan2 calls atan.
CallAsin ==
  /\ fn = "none" /\ fn' = "asin"
  /\ \E x \in Multiples(Step) : argX' = x /\ angle' = asin(x)
  /\ UNCHANGED argY

CallAtan ==
  /\ fn = "none" /\ fn' = "atan"
  /\ \E x \in Multiples(Step) : argX' = x /\ angle' = atan(x)
  /\ UNCHANGED argY

CallAtan2 ==
  /\ fn = "none" /\ fn' = "atan2"
  /\ \E y, x \in Multiples(Coarse) : argY' = y /\ argX' = x /\ angle' = atan2(y, x)

Return == fn # "none" /\ fn' = "none" /\ argY' = NaN /\ argX' = NaN /\ angle' = NaN

Next == CallAsin \/ CallAtan \/ CallAtan2 \/ Return

Spec == Init /\ [][Next]_libmVars

----------------------------------------------------------------------------
\* Types; an angle is NaN, a number up to pi, or as tiny as its tangent.
TypeOK ==
  /\ fn \in {"none", "asin", "atan", "atan2"}
  /\ {argX, argY} \subseteq Multiples(Step) \cup Multiples(Coarse)
  /\ angle \in {NaN} \cup {Double("tiny", s, 0) : s \in BOOLEAN}
       \cup {Double("num", s, angle.mag) : s \in BOOLEAN}
  /\ angle.mag <= pi

\* Sine and cosine, by their series: the reference.
Series(r, o) ==
  LET r2 == Mul(r, r)
      h[k \in 1..8] == IF k = 8 THEN Unit
                       ELSE Unit - Mul(r2, h[k + 1]) \div ((2 * k - 1 + o) * (2 * k + o))
  IN h[1]
Sin(r) == Mul(r, Series(r, 1))
Cos(r) == Series(r, 0)

\* The vector (x, y) in units: of magnitudes of different kinds only the larger
\* counts, and the zeros of an empty one have signs.
Rank(d) == CASE IsZero(d) -> 0 [] d.kind = "tiny" -> 1 [] d.kind = "huge" -> 3
             [] d.kind = "inf" -> 4 [] OTHER -> 2
Component(d, other) ==
  Signed(d.neg, Num(CASE Rank(d) < Rank(other) -> 0
                      [] Rank(d) = 2 -> Units(d)
                      [] OTHER -> Unit))

\* r is the angle of the vector (x, y), to three digits, on the side of the sign of y.
Points(r, y, x) ==
  LET cx == IF IsZero(x) /\ IsZero(y) THEN Signed(x.neg, Num(Unit)) ELSE Component(x, y)
      cy == IF IsZero(x) /\ IsZero(y) THEN Num(0) ELSE Component(y, x)
      cross == Mul(Sin(Value(r)), Value(cx)) - Mul(Cos(Value(r)), Value(cy))
  IN /\ r.neg = y.neg
     /\ cross \in -(8 + (cx.mag + cy.mag) \div 1024)..(8 + (cx.mag + cy.mag) \div 1024)
     /\ Mul(Sin(Value(r)), Value(cy)) + Mul(Cos(Value(r)), Value(cx)) > 0

\* Pitch and roll are the angles they are taken for (asin.c:67, atan.c:63,
\* atan2.c:46): whatever formula the upper word of the argument selects, the
\* sine of asin(x) is x, atan(x) and atan2(y, x) point where (1, x) and (x, y)
\* do, signed zeros and infinities included, and NaN comes out for what has no
\* angle and nothing else.
AnglesPoint ==
  LET beyond == fn = "asin" /\ (argX.kind \in {"over", "huge", "inf"} \/ argX.mag > Unit)
      noAngle == beyond \/ isnan(argX) \/ (fn = "atan2" /\ isnan(argY))
      x == Value(argX)
      r == Value(angle)
  IN fn # "none" =>
       /\ isnan(angle) <=> noAngle
       /\ ~noAngle =>
            CASE fn = "asin"  -> /\ angle.neg = argX.neg
                                 /\ Sin(r) - x \in -8..8 /\ Cos(r) >= -8
              [] fn = "atan"  -> Points(angle, argX, Num(Unit))
              [] fn = "atan2" -> Points(angle, argY, argX)
=============================================================================
