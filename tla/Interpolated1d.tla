--------------------------- MODULE Interpolated1d ---------------------------
(***************************************************************************)
(* Curves through samples: the sorted set of samples (DiscreteSet) and the *)
(* piecewise polynomials over it (Interpolated1d), which are rebuilt when  *)
(* they are first needed after a change of the samples or the method.  The *)
(* interpolator points to the set it belongs to, copies included.          *)
(*                                                                         *)
(* Abscissas are small even numbers, in order; everything computed of them *)
(* is a number of the prime field.                                         *)
(***************************************************************************)
EXTENDS PrimeField, Sequences, SequencesExt

CONSTANTS
    Abscissas,          \* even numbers
    Sample(_, _),       \* the sample [x, y, d] at an abscissa, first or second
    MaxOperations       \* bound on the operations on a set of curves

VARIABLES
    curves,             \* two sets: samples, polynomials, their state, owner
    operations

curveVars == <<curves, operations>>

Method == {"Nearest", "Linear", "Quadratic", "CubicSimple", "Cubic", "Cubic2",
           "CubicDerivInit", "Cubic2DerivInit", "CubicDeriv", "Cubic2Deriv"}

-----------------------------------------------------------------------------
(* DiscreteSetBase: the searches are bisections.                           *)
get_interval(data, x) ==
    LET found[lo \in Nat, hi \in Nat] ==
          LET p == (lo + hi) \div 2
          IN  IF hi - lo <= 1 THEN lo
              ELSE IF x >= data[p].x THEN found[p, hi] ELSE found[lo, p]
    IN  found[0, Len(data) + 1]

get_nearest(data, x) ==
    LET found[lo \in Nat, hi \in Nat] ==
          LET p == (lo + hi) \div 2
          IN  IF hi - lo <= 1 THEN lo
              ELSE IF x + x >= data[p].x + data[p + 1].x THEN found[p, hi] ELSE found[lo, p]
    IN  found[0, Len(data)]

Added(data, e) ==
    LET di == get_interval(data, e.x)
    IN  IF di > 0 /\ data[IF di > 0 THEN di ELSE 1].x = e.x THEN [data EXCEPT ![di] = e]
        ELSE InsertAt(data, di + 1, e)

-----------------------------------------------------------------------------
(* Polynomials a x^3 + b x^2 + c x + d.                                    *)
Poly(a, b, c, d) == <<a % Prime, b % Prime, c % Prime, d % Prime>>
P(e) == e % Prime       \* brings a factor into the field
Cube(x) == P(P(x * x) * x)

LineThrough(p, q) ==
    Poly(0, 0, Over(p.y - q.y, p.x - q.x), Over(q.x * p.y - p.x * q.y, q.x - p.x))

LineFrom(p, slope) == Poly(0, 0, slope, p.y - slope * p.x)

ParabolaThrough(p, q, r) ==
    LET n == P((q.x - p.x) * (r.x - p.x) * (r.x - q.x))
        pp == p.x * p.x
        qq == q.x * q.x
        rr == r.x * r.x
    IN  Poly(0,
             Over(r.y * (q.x - p.x) + q.y * (p.x - r.x) + p.y * (r.x - q.x), n),
             Over(r.y * (pp - qq) + q.y * (rr - pp) + p.y * (qq - rr), n),
             Over(P(r.y * P(p.x * qq - q.x * pp)) + P(q.y * P(r.x * pp - p.x * rr))
                    + P(p.y * P(q.x * rr - r.x * qq)), n))

ParabolaFrom(p, d, dd) ==
    Poly(0, Over(dd, 2), d - p.x * dd, Over(P(p.x * p.x) * dd, 2) - p.x * d + p.y)

(* By the slopes at both ends.                                             *)
CubicBySlopes(p, q, d1, d2) ==
    LET x1 == p.x
        x2 == q.x
        y1 == p.y
        y2 == q.y
        n == P(3 * x1 * x2 * x2 - Cube(x2) - 3 * x1 * x1 * x2 + Cube(x1))
    IN  Poly(-Over(2 * y1 - 2 * y2 + (d2 + d1) * x2 - (d2 + d1) * x1, n),
             Over(P(x1 * P((d2 - d1) * x2 - 3 * y2)) - 3 * x2 * y2 + (3 * x2 + 3 * x1) * y1
                    + P((d2 + 2 * d1) * x2) * x2 - P((2 * d2 + d1) * x1) * x1, n),
             -Over(P(x1 * P(P((2 * d2 + d1) * x2) * x2 - 6 * x2 * y2)) + P(6 * x1 * x2) * y1
                    + d1 * Cube(x2) - P((d2 + 2 * d1) * x1) * P(x1 * x2) - d2 * Cube(x1), n),
             Over(P(x1 * x1 * P(P((d2 - d1) * x2) * x2 - 3 * x2 * y2))
                    + P(Cube(x1) * P(y2 - d2 * x2)) + P((3 * x1 * x2 * x2 - Cube(x2)) * y1)
                    + P(P(d1 * x1) * Cube(x2)), n))

(* By the second derivatives at both ends.                                 *)
CubicByCurvatures(p, q, dd1, dd2) ==
    LET x1 == p.x
        x2 == q.x
        n == 6 * x1 - 6 * x2
    IN  Poly(Over(dd1 - dd2, n),
             Over(dd2 * x1 - dd1 * x2, 2 * x1 - 2 * x2),
             Over(6 * p.y - 6 * q.y + P((dd2 + 2 * dd1) * x2) * x2
                    + P((2 * dd1 - 2 * dd2) * x1) * x2 - P((2 * dd2 + dd1) * x1) * x1, n),
             -Over(P(x1 * P(P((dd2 + 2 * dd1) * x2) * x2 - 6 * q.y)) + 6 * x2 * p.y
                    - P((2 * dd2 + dd1) * x1) * P(x1 * x2), n))

Slope(p, q) == Over(q.y - p.y, q.x - p.x)

(* The second derivatives of the smooth curve with the slopes d0 and dn at *)
(* its ends (Cubic2ndDerivFirst): a tridiagonal system; sub, diag and super*)
(* are its diagonals by row.                                               *)
compute_cubic_2nd_deriv(data, d0, dn) ==
    LET n == Len(data)
        h(i) == data[i + 1].x - data[i].x
        slope(i) == Slope(data[i], data[i + 1])
        sub(i) == Over(h(i - 1), 6)
        super(i) == Over(h(i), 6)
        diag(i) == IF i = 1 THEN Over(h(1), 3) ELSE IF i = n THEN Over(h(n - 1), 3)
                   ELSE Over(data[i + 1].x - data[i - 1].x, 3)
        rhs(i) == IF i = 1 THEN slope(1) - d0 ELSE IF i = n THEN dn - slope(n - 1)
                  ELSE slope(i) - slope(i - 1)
        forward(rows, i) ==
          LET f == Over(sub(i), rows[i - 1].diag)
          IN  Append(rows, [diag |-> P(diag(i) - f * super(i - 1)),
                            rhs |-> P(rhs(i) - f * rows[i - 1].rhs)])
        rows == FoldLeft(forward, <<[diag |-> diag(1), rhs |-> P(rhs(1))]>>,
                         [i \in 1 .. n - 1 |-> i + 1])
        backward(dds, i) ==
          LET k == IF i = n THEN 0 ELSE super(i) * dds[1]
          IN  <<Over(rows[i].rhs - k, rows[i].diag)>> \o dds
    IN  FoldLeft(backward, << >>, [i \in 1 .. n |-> n + 1 - i])

-----------------------------------------------------------------------------
(* The update functions: a polynomial for each interval between samples and*)
(* one beyond either end; for parabolas one around each sample.            *)
Quadratics(data) ==
    LET n == Len(data)
        Middle(p, q) == [x |-> (p.x + q.x) \div 2, y |-> Over(p.y + q.y, 2)]
    IN  [i \in 1 .. n |->
           IF i = 1 THEN LineThrough(data[1], data[2])
           ELSE IF i = n THEN LineThrough(data[n - 1], data[n])
           ELSE ParabolaThrough(Middle(data[i - 1], data[i]), data[i],
                                Middle(data[i], data[i + 1]))]

Joined(data, inner(_), before, after) ==
    [k \in 1 .. Len(data) + 1 |-> IF k = 1 THEN before
                                  ELSE IF k = Len(data) + 1 THEN after ELSE inner(k - 1)]

CubicSimple(data) ==
    LET n == Len(data)
        slope(i) == IF i = 1 THEN Slope(data[1], data[2])
                    ELSE IF i = n THEN Slope(data[n - 1], data[n])
                    ELSE Slope(data[i - 1], data[i + 1])
        inner(i) == CubicBySlopes(data[i], data[i + 1], slope(i), slope(i + 1))
    IN  Joined(data, inner, LineFrom(data[1], slope(1)), LineFrom(data[n], slope(n)))

(* Cubic and CubicDerivInit; with parabolas at the ends, Cubic2 and        *)
(* Cubic2DerivInit.                                                        *)
SmoothWith(data, d0, dn, parabolas, dd) ==
    LET n == Len(data)
        inner(i) == CubicByCurvatures(data[i], data[i + 1], dd[i], dd[i + 1])
    IN  IF parabolas
          THEN Joined(data, inner, ParabolaFrom(data[1], d0, dd[1]),
                                   ParabolaFrom(data[n], dn, dd[n]))
          ELSE Joined(data, inner, LineFrom(data[1], d0), LineFrom(data[n], dn))
Smooth(data, d0, dn, parabolas) ==
    SmoothWith(data, d0, dn, parabolas, compute_cubic_2nd_deriv(data, d0, dn))

(* CubicDeriv and Cubic2Deriv.                                             *)
WithSlopes(data, parabolas) ==
    LET n == Len(data)
        dd(i) == Over(data[i + 1].d - data[i].d, data[i + 1].x - data[i].x)
        inner(i) == CubicBySlopes(data[i], data[i + 1], data[i].d, data[i + 1].d)
    IN  IF parabolas
          THEN Joined(data, inner, ParabolaFrom(data[1], data[1].d, dd(1)),
                                   ParabolaFrom(data[n], data[n].d, dd(n - 1)))
          ELSE Joined(data, inner, LineFrom(data[1], data[1].d),
                                   LineFrom(data[n], data[n].d))

EndSlopes(data) == LET n == Len(data)
                   IN  <<Slope(data[1], data[2]), Slope(data[n - 1], data[n])>>

Updated(data, method) ==
    LET n == Len(data)
        ends == EndSlopes(data)
    IN  CASE method \in {"Nearest", "Linear"} -> << >>
          [] method = "Quadratic" -> Quadratics(data)
          [] method = "CubicSimple" -> CubicSimple(data)
          [] method = "Cubic" -> Smooth(data, ends[1], ends[2], FALSE)
          [] method = "Cubic2" -> Smooth(data, ends[1], ends[2], TRUE)
          [] method = "CubicDerivInit" -> Smooth(data, data[1].d, data[n].d, FALSE)
          [] method = "Cubic2DerivInit" -> Smooth(data, data[1].d, data[n].d, TRUE)
          [] method = "CubicDeriv" -> WithSlopes(data, FALSE)
          [] method = "Cubic2Deriv" -> WithSlopes(data, TRUE)

(* Fewer samples and the update functions throw; to look one up takes one, *)
(* a line two.                                                             *)
Needed(method) == IF method = "Nearest" THEN 1 ELSE IF method = "Linear" THEN 2
                  ELSE IF method = "Quadratic" THEN 3 ELSE 4

-----------------------------------------------------------------------------
(* Operations.  Polynomials beyond those that an update sets stay.         *)
Fresh(s) == [data |-> << >>, poly |-> << >>, invalid |-> TRUE, method |-> "Linear", of |-> s]

CurveInit ==
    /\ \E n \in SUBSET Abscissas, method \in Method :
          curves = <<[Fresh(1) EXCEPT
                        !.data = FoldLeft(LAMBDA d, x : Added(d, Sample(x, 1)), << >>,
                                          SetToSeq(n)),
                        !.method = method],
                     Fresh(2)>>
    /\ operations = 0

Edit(s, edited) == curves' = [curves EXCEPT ![s] = edited]

(* Mutant: only a new abscissa makes the polynomials invalid.              *)
InvalidatesWhenLonger(old, data) == Len(data) > Len(old)
Invalidates(old, data) == TRUE

AddData(s, x, v) ==
    LET data == Added(curves[s].data, Sample(x, v))
    IN  Edit(s, [curves[s] EXCEPT !.data = data,
                   !.invalid = @ \/ Invalidates(curves[s].data, data)])

ClearData(s) == Edit(s, [curves[s] EXCEPT !.data = << >>, !.invalid = TRUE])

SetInterpolation(s, method) ==
    Edit(s, [curves[s] EXCEPT !.method = method, !.invalid = TRUE])

(* interpolate(): what it returns is Value, below.                         *)
(* Mutant: only the pieces that are missing are set.                       *)
ReplacedWhereMissing(old, poly) == old \o SubSeq(poly, Len(old) + 1, Len(poly))
Replaced(old, poly) ==
    IF poly = << >> THEN poly ELSE poly \o SubSeq(old, Len(poly) + 1, Len(old))

Interpolate(s) ==
    LET c == curves[s]
        data == curves[c.of].data
    IN  /\ c.invalid /\ Len(data) >= Needed(c.method)
        /\ Edit(s, [c EXCEPT !.poly = Replaced(@, Updated(data, c.method)), !.invalid = FALSE])

(* A copy belongs to itself.                                               *)
(* Mutant: it goes on belonging to the set it is copied from.              *)
CopyKeepsOwner(s, t) == Edit(t, curves[s])
Copy(s, t) == Edit(t, [curves[s] EXCEPT !.of = t])

CurveNext ==
    /\ operations < MaxOperations
    /\ operations' = operations + 1
    /\ \E s \in 1 .. 2 :
          \/ \E x \in Abscissas, v \in 1 .. 2 : AddData(s, x, v)
          \/ ClearData(s)
          \/ \E method \in Method : SetInterpolation(s, method)
          \/ Interpolate(s)
          \/ Copy(s, 3 - s)

-----------------------------------------------------------------------------
At(p, x, order) ==
    CASE order = 0 -> P(P(P(p[1] * x + p[2]) * x + p[3]) * x + p[4])
      [] order = 1 -> P(P(3 * p[1] * x + 2 * p[2]) * x + p[3])
      [] order = 2 -> P(6 * p[1] * x + 2 * p[2])
      [] order = 3 -> P(6 * p[1])
      [] OTHER -> 0

LinearValue(data, x, order) ==
    LET n == Len(data)
        found == get_interval(data, x)
        di == IF found = 0 THEN 1 ELSE IF found = n THEN n - 1 ELSE found
        mu == Over(x - data[di].x, data[di + 1].x - data[di].x)
    IN  CASE order = 0 -> P(P(data[di].y * (1 - mu)) + data[di + 1].y * mu)
          [] order = 1 -> Slope(data[di], data[di + 1])
          [] OTHER -> 0

(* interpolate(x, order) of a curve that is up to date.                    *)
Interpolated(c, x, order) ==
    LET data == curves[c.of].data
    IN  CASE c.method = "Nearest" ->
               IF order = 0 THEN P(data[get_nearest(data, x) + 1].y) ELSE 0
          [] c.method = "Linear" -> LinearValue(data, x, order)
          [] c.method = "Quadratic" ->
               IF order = 3 THEN 0 ELSE At(c.poly[get_nearest(data, x) + 1], x, order)
          [] OTHER -> At(c.poly[get_interval(data, x) + 1], x, order)

(* What Interpolation documents: how many derivatives are continuous where *)
(* pieces meet, and at the ends.                                           *)
Inside(method) == IF method \in {"Cubic", "Cubic2", "CubicDerivInit", "Cubic2DerivInit"}
                  THEN 2 ELSE 1
AtEnds(method) == IF method \in {"Cubic2", "Cubic2DerivInit"} THEN 2 ELSE 1

(* The value on the left of x, by the pieces' Taylor series there.         *)
LeftOf(c, x, order) ==
    LET y == x - 1
        rest(k) == IF order + k > 3 THEN 0 ELSE Interpolated(c, y, order + k)
    IN  P(rest(0) + rest(1) + Over(rest(2), 2) + Over(rest(3), 6))

(* A curve that is up to date goes through the samples its set has now, is *)
(* as smooth where its pieces meet as the method promises, has the slopes  *)
(* that were prescribed, and its derivatives are those of its values --    *)
(* after any order of changes, copies and evaluations.                     *)
CurvesAreAsDocumented ==
    \A s \in 1 .. 2 :
      LET c == curves[s]
          data == c.data
          n == Len(data)
          cubic == c.method \notin {"Nearest", "Linear", "Quadratic"}
      IN  ~c.invalid =>
            /\ \A i \in 1 .. n : Same(Interpolated(c, data[i].x, 0), data[i].y)
            /\ c.method = "Linear" => \A i \in 2 .. n - 1 : LeftOf(c, data[i].x, 0) = P(data[i].y)
            /\ c.method = "Quadratic" =>
                 \A i \in 2 .. n :
                   LET m == (data[i - 1].x + data[i].x) \div 2
                   IN  LeftOf(c, m, 0) = Interpolated(c, m, 0)
            /\ cubic =>
                 \A i \in 1 .. n :
                   \A order \in 0 .. (IF i \in {1, n} THEN AtEnds(c.method) ELSE Inside(c.method)) :
                     LeftOf(c, data[i].x, order) = Interpolated(c, data[i].x, order)
            /\ c.method \in {"CubicDeriv", "Cubic2Deriv"} =>
                 \A i \in 1 .. n : Same(Interpolated(c, data[i].x, 1), data[i].d)
            /\ c.method \in {"CubicDerivInit", "Cubic2DerivInit"} =>
                 \A i \in {1, n} : Same(Interpolated(c, data[i].x, 1), data[i].d)
            /\ c.method \in {"CubicSimple", "Cubic", "Cubic2"} =>
                 <<Interpolated(c, data[1].x, 1), Interpolated(c, data[n].x, 1)>> = EndSlopes(data)
=============================================================================
