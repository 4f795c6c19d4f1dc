----------------------------- MODULE PrimeField -----------------------------
(***************************************************************************)
(* Exact arithmetic in place of floating point.  Where the code adds,      *)
(* multiplies and divides and nothing else, the same steps can be taken    *)
(* modulo a prime: an identity between the results that holds there holds  *)
(* of the formulas, and a slip in one of them shows.  What is lost is      *)
(* rounding, and the order of numbers.                                     *)
(***************************************************************************)
EXTENDS Integers

CONSTANT Prime          \* the modulus, small enough for products to be added

ASSUME PrimeAssumption ==
    /\ Prime \in Nat /\ Prime > 2
    /\ \A d \in 2 .. Prime - 1 : d * d <= Prime => Prime % d # 0

Raised(b, k) ==
    LET p[i \in Nat] == IF i = 0 THEN 1
                        ELSE LET h == p[i \div 2]
                             IN  (((h * h) % Prime) * (IF i % 2 = 1 THEN b ELSE 1)) % Prime
    IN  p[k]

(* By Fermat; the reciprocal of nought is nought, which the callers avoid. *)
Reciprocal(b) == Raised(b % Prime, Prime - 2)

Over(a, b) == ((a % Prime) * Reciprocal(b)) % Prime

Same(a, b) == (a - b) % Prime = 0
=============================================================================
