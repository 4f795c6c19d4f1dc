----------------------------- MODULE PrimeCircle -----------------------------
(***************************************************************************)
(* Complex numbers and vectors over the field, and its circle: with        *)
(* Prime = 3 modulo 4 the pairs <<re, im>> multiply like complex numbers,  *)
(* and those of modulus one form a circle of Prime + 1 points that Unit    *)
(* generates, which serve as the cosines and sines of fractions of a turn. *)
(***************************************************************************)
EXTENDS PrimeField, Sequences, SequencesExt

CONSTANT
    Unit                \* a point <<cos, sin>> of order Prime + 1

Zero == <<0, 0>>
One  == <<1, 0>>

Plus(a, b)  == <<(a[1] + b[1]) % Prime, (a[2] + b[2]) % Prime>>
Minus(a, b) == <<(a[1] - b[1]) % Prime, (a[2] - b[2]) % Prime>>
Times(a, b) == <<(a[1] * b[1] - a[2] * b[2]) % Prime,
                 (a[1] * b[2] + a[2] * b[1]) % Prime>>
Scaled(r, a) == <<(r * a[1]) % Prime, (r * a[2]) % Prime>>
Conjugate(a) == <<a[1], (-a[2]) % Prime>>
TimesI(a)    == <<(-a[2]) % Prime, a[1]>>
SquaredModulus(a) == (a[1] * a[1] + a[2] * a[2]) % Prime

Total(s) ==
    LET sum[a \in Nat, b \in Nat] ==
          IF a > b THEN Zero
          ELSE IF a = b THEN s[a]
          ELSE LET mid == (a + b) \div 2 IN Plus(sum[a, mid], sum[mid + 1, b])
    IN  sum[1, Len(s)]

Power(a, k) ==
    LET p[i \in Nat] == IF i = 0 THEN One
                        ELSE LET h == p[i \div 2]
                             IN  Times(Times(h, h), IF i % 2 = 1 THEN a ELSE One)
    IN  p[k]

(* The point at k / n of a turn: cos(2 pi k / n) and sin(2 pi k / n).      *)
Turn(k, n) == Power(Unit, (k % n) * ((Prime + 1) \div n))

-----------------------------------------------------------------------------
(* Real numbers: with Prime = 3 modulo 4 exactly one of a number and its   *)
(* negative is a square.  The squares serve as the positive numbers: they  *)
(* are closed under products and quotients, but not under sums.            *)

a ** b == (a * b) % Prime
IsPositive(a) == Raised(a % Prime, (Prime - 1) \div 2) = 1
abs(a) == IF IsPositive(a) THEN a % Prime ELSE (-a) % Prime
HasRoot(a) == a % Prime = 0 \/ IsPositive(a)
sqrt(a) == Raised(a % Prime, (Prime + 1) \div 4)

(* Vectors of three numbers.                                               *)
plus(a, b)   == <<(a[1] + b[1]) % Prime, (a[2] + b[2]) % Prime, (a[3] + b[3]) % Prime>>
times(a, k)  == <<a[1] ** k, a[2] ** k, a[3] ** k>>
negate(a)    == times(a, -1)
minus(a, b)  == plus(a, negate(b))
divide(a, k) == times(a, Reciprocal(k))
dot(a, b)    == (a[1] * b[1] + a[2] * b[2] + a[3] * b[3]) % Prime
cross(a, b)  == <<(a[2] * b[3] - a[3] * b[2]) % Prime, (a[3] * b[1] - a[1] * b[3]) % Prime,
                  (a[1] * b[2] - a[2] * b[1]) % Prime>>
length(a)    == sqrt(dot(a, a))
normalize(a) == divide(a, length(a))

ASSUME CircleAssumption ==
    /\ Prime % 4 = 3
    /\ Unit \in (0 .. Prime - 1) \X (0 .. Prime - 1)
    /\ Turn(1, 4) = <<0, 1>>
    /\ (Unit[1] * Unit[1] + Unit[2] * Unit[2]) % Prime = 1
=============================================================================
