---------------------------- MODULE LeastSquares ----------------------------
(***************************************************************************)
(* The linear algebra of MINPACK: QR factorization and the steps taken with*)
(* it.  lmder takes Levenberg-Marquardt steps (qrfac with pivoting, qrsolv,*)
(* lmpar); hybrd takes dogleg steps and updates its factors by Broyden's   *)
(* rank-one correction (qrfac, qform, dogleg, r1updt, r1mpyq).             *)
(*                                                                         *)
(* Numbers are those of PrimeCircle, where what is a sum of squares has a  *)
(* root; they have no order, so that comparisons of magnitudes are made of *)
(* arbitrary ranks: what the steps solve may not depend on them.  Matrices *)
(* are sequences of columns, packed triangles are unpacked.                *)
(***************************************************************************)
EXTENDS PrimeCircle

CONSTANTS
    Problems,           \* a Jacobian, residuals, scales, a bound and a trial
    rgiant              \* the rank from which numbers are too large to square

VARIABLES
    problem,            \* [fjac, fvec, diag, delta, par, trial, accepted]
    solution            \* what the solvers make of it, or Unsolved

solverVars == <<problem, solution>>
Unsolved == << >>

Kept(s) == s \o << >>   \* a sequence whose elements are computed once
Neg(a) == Minus(Zero, a)
Quotient(a, b) == Scaled(Reciprocal(SquaredModulus(b)), Times(a, Conjugate(b)))
Square(a) == Times(a, a)
Dot(a, b) == Total(Kept([i \in 1 .. Len(a) |-> Times(a[i], b[i])]))
Down(k, l) == [i \in 1 .. k - l + 1 |-> k + 1 - i]
Up(k, l) == [i \in 1 .. l - k + 1 |-> k - 1 + i]

(* A root of a number of the field; the square among the two, if one is.   *)
Root(a) == LET r == Raised(a[1], (Prime + 1) \div 4)
           IN  IF (r * r) % Prime = a[1] THEN <<r, 0>> ELSE <<0, r>>
Real(a) == a[2] = 0
Rank(a) == (a[1] + 3 * a[2]) % Prime
Negative(a) == Rank(a) > Prime \div 2

-----------------------------------------------------------------------------
(* enorm(): large numbers are divided by the largest so far before they are*)
(* squared.  Numbers too small to be squared come to nought.  (The largest *)
(* is taken under the root, where the sum is of the field.)                *)
Accumulated(sum, x, agiant) ==
    IF Rank(x) < agiant THEN [sum EXCEPT !.s2 = Plus(@, Square(x))]
    ELSE IF Rank(x) > Rank(sum.x1max)
      THEN [sum EXCEPT !.s1 = Plus(One, Times(@, Square(Quotient(sum.x1max, x)))),
                       !.x1max = x]
      ELSE [sum EXCEPT !.s1 = Plus(@, Square(Quotient(x, sum.x1max)))]

enorm(v) ==
    LET none == [s1 |-> Zero, s2 |-> Zero, x1max |-> Zero]
        sum == FoldLeft(LAMBDA s, x : Accumulated(s, x, rgiant \div Len(v)), none, v)
    IN  IF sum.s1 = Zero THEN Root(sum.s2)
        ELSE Root(Times(Square(sum.x1max),
                        Plus(sum.s1, Quotient(Quotient(sum.s2, sum.x1max), sum.x1max))))

-----------------------------------------------------------------------------
(* qrfac(): a holds R above the diagonal and the vectors of the reflections*)
(* from there down, rdiag the diagonal of R, and before a column is reached*)
(* what is left of its length; wa what that was when last computed.        *)
Exchanged(s, j, k) == [s EXCEPT ![j] = s[k], ![k] = s[j]]

Pivoted(f, j) ==
    LET ranks(k) == Rank(f.rdiag[k])
        kmax == CHOOSE k \in j .. Len(f.a) :
                   /\ \A l \in j .. Len(f.a) : ranks(l) <= ranks(k)
                   /\ \A l \in j .. k - 1 : ranks(l) < ranks(k)
    IN  [f EXCEPT !.a = Exchanged(@, j, kmax), !.ipvt = Exchanged(@, j, kmax),
                  !.rdiag[kmax] = f.rdiag[j], !.wa[kmax] = f.wa[j]]

Below(v, j) == SubSeq(v, j, Len(v))

(* The reflection with vector u of what lies below row j.                  *)
Reflected(v, u, j) ==
    LET temp == Quotient(Dot(Below(u, j), Below(v, j)), u[j])
    IN  Kept([i \in 1 .. Len(v) |->
                IF i < j THEN v[i] ELSE Minus(v[i], Times(temp, u[i]))])

(* What is left of column k's length below row j, or its length anew when  *)
(* that has become too short to be trusted.                                *)
Shortened(rdiag, element) == Times(rdiag, Root(Minus(One, Square(Quotient(element, rdiag)))))
Left(f, a, j, k, left) ==
    IF Rank(left) < Rank(f.wa[k]) \div 2
      THEN [rdiag |-> enorm(Below(a[k], j + 1)), anew |-> TRUE]
      ELSE [rdiag |-> left, anew |-> FALSE]
WithLengths(f, a, j, lengths) ==
    [f EXCEPT !.a = a,
       !.rdiag = Kept([k \in DOMAIN @ |-> IF k > j THEN lengths[k].rdiag ELSE @[k]]),
       !.wa = Kept([k \in DOMAIN @ |-> IF k > j /\ lengths[k].anew THEN lengths[k].rdiag
                                       ELSE @[k]])]
Remeasured(f, a, j, pivot) ==
    WithLengths(f, a, j, Kept([k \in DOMAIN a |->
        IF pivot /\ k > j /\ f.rdiag[k] # Zero
          THEN Left(f, a, j, k, Shortened(f.rdiag[k], a[k][j]))
          ELSE [rdiag |-> f.rdiag[k], anew |-> FALSE]]))

(* The vector of the reflection that turns column j into its length, kept *)
(* where the column was, and all columns behind it reflected.              *)
Reflection(v, j, ajnorm) ==
    Kept([i \in DOMAIN v |-> IF i < j THEN v[i]
                             ELSE Plus(Quotient(v[i], ajnorm), IF i = j THEN One ELSE Zero)])
ReflectedAll(a, u, j) ==
    Kept([k \in DOMAIN a |-> IF k < j THEN a[k] ELSE IF k = j THEN u
                             ELSE Reflected(a[k], u, j)])
ReducedBy(f, j, pivot, ajnorm) ==
    IF ajnorm = Zero THEN [f EXCEPT !.rdiag[j] = Zero]
    ELSE Remeasured([f EXCEPT !.rdiag[j] = Neg(ajnorm)],
                 ReflectedAll(f.a, Reflection(f.a[j], j, ajnorm), j), j, pivot)
Signed(norm, a) == IF Negative(a) THEN Neg(norm) ELSE norm
Reduced(f, j, pivot) ==
    ReducedBy(f, j, pivot, Signed(enorm(Below(f.a[j], j)), f.a[j][j]))

qrfac(fjac, pivot) ==
    LET n == Len(fjac)
        acnorm == Kept([j \in 1 .. n |-> enorm(fjac[j])])
        start == [a |-> fjac, ipvt |-> Kept(Up(1, n)), rdiag |-> acnorm, wa |-> acnorm]
    IN  FoldLeft(LAMBDA f, j : Reduced(IF pivot THEN Pivoted(f, j) ELSE f, j, pivot),
                 start, Kept(Up(1, n)))

(* lmder(), hybrd(): the reflections applied to the residuals.             *)
qtf(f, fvec) == FoldLeft(LAMBDA v, j : IF f.a[j][j] = Zero THEN v
                                       ELSE Reflected(v, f.a[j], j),
                         fvec, Kept(Up(1, Len(f.a))))

(* Element i, j of R.                                                      *)
Upper(f, i, j) == IF i = j THEN f.rdiag[j] ELSE IF i < j THEN f.a[j][i] ELSE Zero
Rows(f) == LET n == Len(f.a)
           IN  Kept([i \in 1 .. n |-> Kept([j \in 1 .. n |-> Upper(f, i, j)])])

(* qform(): Q from the reflections, the last first.                        *)
qform(f) ==
    LET m == Len(f.a[1])
        unit == Kept([j \in 1 .. m |-> Kept([i \in 1 .. m |-> IF i = j THEN One ELSE Zero])])
        applied(q, k) == IF f.a[k][k] = Zero THEN q
                         ELSE Kept([j \in 1 .. m |-> Reflected(q[j], f.a[k], k)])
    IN  FoldLeft(applied, unit, Kept(Down(Len(f.a), 1)))

-----------------------------------------------------------------------------
(* Givens rotations.  One that turns b into a is made of the ratio of the  *)
(* smaller to the larger; which that is decides only the formula.          *)
Half == <<Reciprocal(2), 0>>
Hypotenuse(t) == Root(Plus(Square(Half), Times(Square(Half), Square(t))))

(* The cosine of the angle to the larger of the two, and the rotation from *)
(* it: the number that stands for a rotation is its sine, or the reciprocal*)
(* of its cosine, or one where that is too large.                          *)
FromLarger(t) == Quotient(Half, Hypotenuse(t))
AboveHalf(sin, cos) ==
    [sin |-> sin, cos |-> cos,
     tau |-> IF cos = Zero THEN [inverse |-> FALSE, of |-> One]
             ELSE [inverse |-> TRUE, of |-> Quotient(One, cos)]]
BelowHalf(cos, sin) == [sin |-> sin, cos |-> cos, tau |-> [inverse |-> FALSE, of |-> sin]]
Steep(sin, ratio) == AboveHalf(sin, Times(sin, ratio))
Flat(cos, ratio) == BelowHalf(cos, Times(cos, ratio))
Rotation(a, b) ==
    IF Rank(a) < Rank(b) THEN Steep(FromLarger(Quotient(a, b)), Quotient(a, b))
    ELSE Flat(FromLarger(Quotient(b, a)), Quotient(b, a))

(* The rotation that tau stands for: a number above one is the reciprocal  *)
(* of the cosine, any other the sine.                                      *)
Recovered(tau) ==
    IF tau.inverse
      THEN LET cos == Quotient(One, tau.of)
           IN  [cos |-> cos, sin |-> Root(Minus(One, Square(cos)))]
      ELSE [sin |-> tau.of, cos |-> Root(Minus(One, Square(tau.of)))]

Onto(r, a, b) == Plus(Times(r.cos, a), Times(r.sin, b))     \* what a becomes
Off(r, a, b)  == Minus(Times(r.cos, b), Times(r.sin, a))    \* and what b
OntoAll(r, a, b) == Kept([i \in DOMAIN a |-> Onto(r, a[i], b[i])])
OffAll(r, a, b)  == Kept([i \in DOMAIN a |-> Off(r, a[i], b[i])])

-----------------------------------------------------------------------------
(* The triangular systems S z = w and S^T z = w.  From the first nought on *)
(* the diagonal on, z is left nought.                                      *)
NSing(s) == LET noughts == {j \in DOMAIN s : s[j][j] = Zero}
            IN  IF noughts = {} THEN Len(s)
                ELSE (CHOOSE j \in noughts : \A k \in noughts : j <= k) - 1

BackSolved(s, w) ==
    LET prepend(z, j) ==
          LET sum == Dot(Below(s[j], j + 1), z)
          IN  <<IF j > NSing(s) THEN Zero ELSE Quotient(Minus(w[j], sum), s[j][j])>> \o z
    IN  FoldLeft(prepend, << >>, Kept(Down(Len(s), 1)))

ForwardSolved(s, w) ==
    LET append(z, j) ==
          LET sum == Dot(z, Kept([i \in 1 .. j - 1 |-> s[i][j]]))
          IN  Append(z, Quotient(Minus(w[j], sum), s[j][j]))
    IN  FoldLeft(append, << >>, Kept(Up(1, Len(s))))

(* Component l of x is that of z whose column was column l.                *)
Unpermuted(ipvt, z) == Kept([l \in DOMAIN z |-> z[CHOOSE j \in DOMAIN z : ipvt[j] = l]])
Weighted(diag, x) == Kept([l \in DOMAIN x |-> Times(diag[l], x[l])])
Divided(v, d) == Kept([i \in DOMAIN v |-> Quotient(v[i], d)])

(* qrsolv(): row j of the scales, a single number, is rotated into S from  *)
(* there down, together with its right-hand side.                          *)
RotatedRow(t, k, r) ==
    [s |-> [t.s EXCEPT ![k] = OntoAll(r, @, t.row)], row |-> OffAll(r, t.s[k], t.row),
     w |-> [t.w EXCEPT ![k] = Onto(r, @, t.b)], b |-> Off(r, t.w[k], t.b)]

Eliminated(e, l, j) ==
    FoldLeft(LAMBDA t, k : IF t.row[k] = Zero THEN t
                           ELSE RotatedRow(t, k, Rotation(t.s[k][k], t.row[k])),
             [s |-> e.s, w |-> e.w, b |-> Zero,
              row |-> Kept([k \in DOMAIN e.s |-> IF k = j THEN l ELSE Zero])],
             Kept(Up(j, Len(e.s))))

SolvedWith(e, ipvt) == [x |-> Unpermuted(ipvt, BackSolved(e.s, e.w)), s |-> e.s]
qrsolv(r, ipvt, diag, qtb) ==
    SolvedWith(FoldLeft(LAMBDA e, j : Eliminated(e, diag[ipvt[j]], j),
                        [s |-> r, w |-> qtb], Kept(Up(1, Len(r)))), ipvt)

-----------------------------------------------------------------------------
(* lmpar(): the parameter for which the scaled step is about delta long, in*)
(* at most ten corrections between the bounds parl and paru.  sys is the   *)
(* system to solve: r, ipvt, diag, qtb and the step bound delta.           *)
AtMost(a, b) == Rank(a) <= Rank(b)
Larger(a, b) == IF AtMost(a, b) THEN b ELSE a
Smaller(a, b) == IF AtMost(a, b) THEN a ELSE b
Tenth(a) == Quotient(a, <<10, 0>>)

OverTwice(a, b) == Quotient(Quotient(a, b), b)
Excess(sys, x) == Minus(enorm(Weighted(sys.diag, x)), sys.delta)
(* The correction that the triangle s the step was solved with gives.      *)
Correction(sys, s, x, fp) ==
    LET dx == Weighted(sys.diag, x)
        toward == Divided(dx, enorm(dx))
        slope == Kept([j \in DOMAIN x |-> Times(sys.diag[sys.ipvt[j]], toward[sys.ipvt[j]])])
    IN  OverTwice(Quotient(fp, sys.delta), enorm(ForwardSolved(s, slope)))
Gradient(r, qtb, scales) ==
    Kept([j \in DOMAIN r |->
        Quotient(Dot(Kept([i \in 1 .. j |-> r[i][j]]), SubSeq(qtb, 1, j)), scales[j])])

(* Mutant: the scales are multiplied by the parameter, not by its root.    *)
ScalesTimesPar(par, diag) == Kept([j \in DOMAIN diag |-> Times(par, diag[j])])
ScalesForPar(par, diag) == Kept([j \in DOMAIN diag |-> Times(Root(par), diag[j])])

(* The tests with the step q for a value of par, and the next value.       *)
RaisedParl(t, par, fp) == IF ~Negative(fp) THEN Larger(t.parl, par) ELSE t.parl
Judged(sys, t, par, q, fp) ==
    IF \/ AtMost(fp, Tenth(sys.delta))
       \/ t.parl = Zero /\ AtMost(fp, t.fp) /\ Negative(t.fp)
       \/ t.iter = 9
      THEN [t EXCEPT !.x = q.x, !.s = q.s, !.par = par, !.done = TRUE]
      ELSE [t EXCEPT !.iter = @ + 1, !.fp = fp, !.parl = RaisedParl(t, par, fp),
             !.paru = IF Negative(fp) THEN Smaller(@, par) ELSE @,
             !.par = Larger(RaisedParl(t, par, fp), Plus(par, Correction(sys, q.s, q.x, fp)))]
Corrected(sys, t) ==
    LET par == IF t.par = Zero THEN Larger(One, Quotient(t.paru, <<1000, 0>>)) ELSE t.par
        q == qrsolv(sys.r, sys.ipvt, ScalesForPar(par, sys.diag), sys.qtb)
    IN  Judged(sys, t, par, q, Excess(sys, q.x))

(* The first value, between bounds.                                        *)
Bracketed(sys, estimate, x, fp, parl, gnorm) ==
    LET bound == Quotient(gnorm, sys.delta)
        paru == IF bound = Zero THEN One ELSE bound
        within == Smaller(Larger(estimate, parl), paru)
    IN  [par |-> IF within = Zero THEN Quotient(gnorm, enorm(Weighted(sys.diag, x))) ELSE within,
         parl |-> parl, paru |-> paru, fp |-> fp, iter |-> 0,
         x |-> x, s |-> sys.r, done |-> FALSE]
ParFor(sys, estimate, x, fp) ==
    IF AtMost(fp, Tenth(sys.delta)) THEN [par |-> Zero, x |-> x, s |-> sys.r]
    ELSE FoldLeft(LAMBDA t, k : IF t.done THEN t ELSE Corrected(sys, t),
           Bracketed(sys, estimate, x, fp,
             IF NSing(sys.r) < Len(sys.r) THEN Zero ELSE Correction(sys, sys.r, x, fp),
             enorm(Gradient(sys.r, sys.qtb, Kept([j \in DOMAIN x |-> sys.diag[sys.ipvt[j]]])))),
           Kept(Up(1, 10)))
lmpar(sys, estimate) ==
    LET x == Unpermuted(sys.ipvt, BackSolved(sys.r, sys.qtb))
    IN  ParFor(sys, estimate, x, Excess(sys, x))

-----------------------------------------------------------------------------
(* dogleg(): the Gauss-Newton step if it is short enough, else a point that*)
(* far on the way to it by the lowest point along the gradient.            *)
Nonzero(r, j) ==
    LET largest == FoldLeft(Larger, Zero, Kept([i \in 1 .. j |-> r[i][j]]))
    IN  IF r[j][j] # Zero THEN r[j][j] ELSE IF largest = Zero THEN One ELSE largest

(* Mutant: the step bound enters the quadratic's root unsquared.           *)
DoglegPartUnsquared(bnorm, gnorm, qnorm, sgnorm, delta) ==
    LET d == Quotient(delta, qnorm)
        g == Quotient(sgnorm, delta)
        t == Times(Times(Quotient(bnorm, gnorm), Quotient(bnorm, qnorm)), g)
        temp == Plus(Minus(t, Times(d, g)),
                     Root(Plus(Square(Minus(t, d)),
                               Times(Minus(One, Square(d)), Minus(One, Square(g))))))
    IN  Quotient(Times(d, Minus(One, Square(g))), temp)

DoglegPart(bnorm, gnorm, qnorm, sgnorm, delta) ==
    LET d == Quotient(delta, qnorm)
        g == Quotient(sgnorm, delta)
        t == Times(Times(Quotient(bnorm, gnorm), Quotient(bnorm, qnorm)), g)
        temp == Plus(Minus(t, Times(d, Square(g))),
                     Root(Plus(Square(Minus(t, d)),
                               Times(Minus(One, Square(d)), Minus(One, Square(g))))))
    IN  Quotient(Times(d, Minus(One, Square(g))), temp)

(* The direction of the scaled gradient, how far along it the quadratic is *)
(* lowest, the part of the Gauss-Newton step to take, and the mixture.     *)
Downhill(gradient, gnorm, diag) ==
    Kept([j \in DOMAIN diag |-> IF gnorm = Zero THEN Zero
                               ELSE Quotient(Quotient(gradient[j], gnorm), diag[j])])
Lowest(gnorm, slope, delta) ==
    IF gnorm = Zero THEN Zero ELSE IF slope = Zero THEN delta
    ELSE OverTwice(gnorm, slope)
NewtonPart(bnorm, gnorm, qnorm, sgnorm, delta) ==
    IF gnorm = Zero THEN Quotient(delta, qnorm)
    ELSE IF AtMost(delta, sgnorm) THEN Zero
    ELSE DoglegPart(bnorm, gnorm, qnorm, sgnorm, delta)
Mixed(x, alpha, downhill, along) ==
    Kept([j \in DOMAIN x |-> Plus(Times(Times(Minus(One, alpha), along), downhill[j]),
                                 Times(alpha, x[j]))])
(* The step where Gauss-Newton's is too long: what is computed on the way  *)
(* is an argument of the next.                                             *)
Bent(x, downhill, qtb, gnorm, qnorm, sgnorm, delta) ==
    [x |-> Mixed(x, NewtonPart(enorm(qtb), gnorm, qnorm, sgnorm, delta), downhill,
                 Smaller(sgnorm, delta)),
     newton |-> FALSE, norms |-> <<qnorm, gnorm>>]
Descended(r, qtb, x, downhill, gnorm, qnorm, delta) ==
    Bent(x, downhill, qtb, gnorm, qnorm,
         Lowest(gnorm, enorm(Kept([j \in DOMAIN x |-> Dot(r[j], downhill)])), delta), delta)
Turned(r, diag, qtb, x, gradient, gnorm, qnorm, delta) ==
    Descended(r, qtb, x, Downhill(gradient, gnorm, diag), gnorm, qnorm, delta)
Stepped(r, diag, qtb, delta, x, qnorm) ==
    IF AtMost(qnorm, delta) THEN [x |-> x, newton |-> TRUE, norms |-> <<qnorm>>]
    ELSE Turned(r, diag, qtb, x, Gradient(r, qtb, diag), enorm(Gradient(r, qtb, diag)),
                qnorm, delta)
dogleg(r, diag, qtb, delta) ==
    LET x == BackSolved(Kept([j \in DOMAIN r |-> [r[j] EXCEPT ![j] = Nonzero(r, j)]]), qtb)
    IN  Stepped(r, diag, qtb, delta, x, enorm(Weighted(diag, x)))

-----------------------------------------------------------------------------
(* r1updt(): the lower triangle S (column j holds rows j on) plus u v^T,   *)
(* times rotations that make it a lower triangle again; these are returned *)
(* as gv and gw.                                                           *)
SpikedBy(t, j, r) ==
    LET n == Len(t.s)
        old(i) == IF i = j THEN Zero ELSE t.w[i]
    IN  [t EXCEPT !.v[n] = Onto(r, @, t.v[j]), !.gv[j] = r.tau,
           !.s[j] = Kept([i \in 1 .. n |-> IF i < j THEN @[i] ELSE Off(r, old(i), @[i])]),
           !.w = Kept([i \in 1 .. n |-> IF i < j THEN @[i] ELSE Onto(r, old(i), t.s[j][i])])]
Spiked(t, j) == IF t.v[j] = Zero THEN [t EXCEPT !.w[j] = Zero]
                ELSE SpikedBy(t, j, Rotation(t.v[Len(t.s)], t.v[j]))

DespikedBy(t, j, r) ==
    [t EXCEPT !.gw[j] = r.tau,
       !.s[j] = Kept([i \in DOMAIN @ |-> IF i < j THEN @[i] ELSE Onto(r, @[i], t.w[i])]),
       !.w = Kept([i \in DOMAIN @ |-> IF i < j THEN @[i] ELSE Off(r, t.s[j][i], @[i])])]
Despiked(t, j) == IF t.w[j] = Zero THEN t
                  ELSE DespikedBy(t, j, Rotation(t.s[j][j], t.w[j]))

NoTurn == [inverse |-> FALSE, of |-> Zero]

WithSpike(t, u) ==
    [t EXCEPT !.w = Kept([i \in DOMAIN u |-> Plus(t.w[i], Times(t.v[Len(u)], u[i]))])]
Closed(t, n) ==
    [s |-> [t.s EXCEPT ![n] = Kept([i \in 1 .. n |-> IF i < n THEN Zero ELSE t.w[n]])],
     gv |-> t.gv, gw |-> t.gw]
r1updt(s, u, v) ==
    LET n == Len(s)
        none == Kept([j \in 1 .. n - 1 |-> NoTurn])
        spiked == FoldLeft(Spiked, [s |-> s, v |-> v, w |-> s[n], gv |-> none, gw |-> none],
                           Kept(Down(n - 1, 1)))
    IN  Closed(FoldLeft(Despiked, WithSpike(spiked, u), Kept(Up(1, n - 1))), n)

(* r1mpyq(): the same rotations of the columns of another matrix.          *)
TurnedBack(c, j, n, r) == [c EXCEPT ![j] = OffAll(r, c[n], @), ![n] = OntoAll(r, @, c[j])]
TurnedForth(c, j, n, r) == [c EXCEPT ![j] = OntoAll(r, @, c[n]), ![n] = OffAll(r, c[j], @)]
r1mpyq(q, gv, gw) ==
    LET n == Len(q)
        back(c, j) == TurnedBack(c, j, n, Recovered(gv[j]))
        forth(c, j) == TurnedForth(c, j, n, Recovered(gw[j]))
    IN  FoldLeft(forth, FoldLeft(back, q, Kept(Down(n - 1, 1))), Kept(Up(1, n - 1)))

-----------------------------------------------------------------------------
(* A step of each method from one point.  hybrd() walks against x, and     *)
(* when it has the residuals at the trial updates its factors.             *)
LinearSystem(f, qtb) ==
    [r |-> Rows(f), ipvt |-> f.ipvt, qtb |-> qtb, diag |-> problem.diag, delta |-> problem.delta]
Marquardt(f) ==
    LET sys == LinearSystem(f, SubSeq(qtf(f, problem.fvec), 1, Len(f.a)))
    IN  [r |-> sys.r, ipvt |-> f.ipvt, step |-> lmpar(sys, problem.par)]

(* Broyden's update after the step p to a trial point: sum is Q^T times its *)
(* residuals, u and v the correction.                                      *)
Revised(r, q, sum, p, u, v, qtb) ==
    LET new == r1updt(r, u, v)
    IN  [r |-> new.s, q |-> r1mpyq(q, new.gv, new.gw), p |-> p,
         qtb |-> r1mpyq(Kept([j \in DOMAIN p |-> <<IF problem.accepted THEN sum[j] ELSE qtb[j]>>]),
                        new.gv, new.gw),
         rotations |-> new.gv \o new.gw]
Surprise(r, qtb, sum, p) ==
    Kept([j \in DOMAIN p |-> Minus(sum[j], Plus(qtb[j], Dot(r[j], p)))])
Along(r, q, qtb, p, sum, pnorm) ==
    Revised(r, q, sum, p, Weighted(problem.diag, Divided(Weighted(problem.diag, p), pnorm)),
             Divided(Surprise(r, qtb, sum, p), pnorm), qtb)
Broyden(r, q, qtb, p) ==
    Along(r, q, qtb, p, Kept([j \in DOMAIN p |-> Dot(q[j], problem.trial)]),
          enorm(Weighted(problem.diag, p)))

StepOf(r, q, qtb, d) ==
    [r |-> r, q |-> q, qtb |-> qtb, dogleg |-> d,
     update |-> Broyden(r, q, qtb, Kept([j \in DOMAIN d.x |-> Neg(d.x[j])]))]
Hybrid(r, q, qtb) ==
    StepOf(r, q, qtb, dogleg(r, problem.diag, qtb, problem.delta))

SolverInit == problem \in Problems /\ solution = Unsolved

Solve ==
    /\ solution = Unsolved
    /\ solution' = [marquardt |-> Marquardt(qrfac(problem.fjac, TRUE)),
                    hybrid |-> IF Len(problem.fjac) # Len(problem.fvec) THEN Unsolved
                               ELSE LET f == qrfac(problem.fjac, FALSE)
                                    IN  Hybrid(Rows(f), qform(f), qtf(f, problem.fvec))]
    /\ UNCHANGED problem

-----------------------------------------------------------------------------
(* Properties *)

Norm2(v) == Dot(v, v)
TimesVector(a, x) ==        \* the matrix with these columns times x
    Kept([i \in DOMAIN a[1] |-> Dot(Kept([j \in DOMAIN a |-> a[j][i]]), x)])
Orthogonal(q) == \A j, k \in DOMAIN q : Dot(q[j], q[k]) = IF j = k THEN One ELSE Zero

(* A Levenberg-Marquardt step, whichever columns were exchanged, numbers   *)
(* scaled and corrections made, solves the normal equations of the Jacobian*)
(* damped with the parameter that comes with it, and S is their factor.    *)
MarquardtStepSolves ==
    solution # Unsolved =>
        LET lm == solution.marquardt
            a == problem.fjac
            x == lm.step.x
            damping(l) == Times(lm.step.par, Square(problem.diag[l]))
            normal(k, l) == Plus(Dot(a[k], a[l]), IF k = l THEN damping(l) ELSE Zero)
            n == Len(a)
            gram(s, k, l) == Dot(Kept([i \in 1 .. n |-> s[i][k]]), Kept([i \in 1 .. n |-> s[i][l]]))
        IN  /\ {lm.ipvt[j] : j \in 1 .. n} = 1 .. n
            /\ \A k, l \in 1 .. n : gram(lm.r, k, l) = Dot(a[lm.ipvt[k]], a[lm.ipvt[l]])
            /\ Real(lm.step.par) /\ (lm.step.par # Zero => NSing(lm.step.s) = n) =>
                 /\ \A l \in 1 .. n :
                      Dot(Kept([k \in 1 .. n |-> normal(l, k)]), x) = Dot(a[l], problem.fvec)
                 /\ \A k, l \in 1 .. n :
                      gram(lm.step.s, k, l) = normal(lm.ipvt[k], lm.ipvt[l])

(* A dogleg step solves the linear model or is as long as the step bound;  *)
(* the updated factors are those of the Jacobian with Broyden's correction *)
(* for the trial, and go with the residuals of the point that was kept.    *)
HybridStepSolves ==
    solution # Unsolved /\ solution.hybrid # Unsolved =>
        LET h == solution.hybrid
            a == problem.fjac
            d == h.dogleg
            b == h.update
            n == Len(a)
            entry(q, r, i, j) == Dot(Kept([k \in 1 .. n |-> q[k][i]]), Kept([k \in 1 .. n |-> r[k][j]]))
            Dp == Weighted(problem.diag, b.p)
            model == TimesVector(a, b.p)
            correction(i, j) ==
              Quotient(Times(Minus(problem.trial[i], Plus(problem.fvec[i], model[i])),
                             Times(problem.diag[j], Dp[j])), Norm2(Dp))
            kept == IF problem.accepted THEN problem.trial ELSE problem.fvec
        IN  /\ Orthogonal(h.q)
            /\ \A i, j \in 1 .. n : entry(h.q, h.r, i, j) = a[j][i]
            /\ h.qtb = Kept([j \in 1 .. n |-> Dot(h.q[j], problem.fvec)])
            /\ NSing(h.r) = n =>
                 IF d.newton THEN TimesVector(a, d.x) = problem.fvec
                 ELSE (\A k \in DOMAIN d.norms : Real(d.norms[k])) =>
                        Norm2(Weighted(problem.diag, d.x)) = Square(problem.delta)
            /\ Real(Norm2(Dp)) /\ (\A k \in DOMAIN b.rotations :
                    Real(b.rotations[k].of) /\ Real(Recovered(b.rotations[k]).cos)
                    /\ Real(Recovered(b.rotations[k]).sin)) =>
                 /\ Orthogonal(b.q)
                 /\ \A i, j \in 1 .. n : entry(b.q, b.r, i, j) = Plus(a[j][i], correction(i, j))
                 /\ \A j \in 1 .. n : b.qtb[j] = <<Dot(b.q[j], kept)>>

(* The steps both solvers take are those their equations define.           *)
StepsSolve == MarquardtStepSolves /\ HybridStepSolves
=============================================================================
