-------------------------- MODULE FourierTransform --------------------------
(***************************************************************************)
(* The mixed-radix Fourier transform (src/mathlib/fftpack): the size is    *)
(* split into factors, and one pass per factor combines the data of one    *)
(* array into another, the two arrays taking turns.                        *)
(*                                                                         *)
(* An array of the code holds the real and the imaginary part of each      *)
(* number behind each other; here it is a function from 0 .. n - 1 to      *)
(* numbers, so that a stride of the code counts two for each one here.     *)
(***************************************************************************)
EXTENDS PrimeCircle, FiniteSets

CONSTANTS
    Sizes,              \* lengths of the data
    Inputs(_),          \* Inputs(n): the data of length n that is transformed
    Null

VARIABLES
    job,                \* [n, isign, x]: what is transformed, and which way
    wtable,             \* ComplexDoubleFFT::wavetable: factors and angles
    pass                \* cfftf1's two arrays and its loop: c, ch, na, l1, iw, k1

lineVars == <<job, wtable, pass>>

-----------------------------------------------------------------------------
(* cffti1(): the factors in the order they are tried -- 3, 4, 2, 5, 7, 9,  *)
(* ... -- except that a 2 goes in front of those found before it.          *)
Trial(j) == IF j <= 4 THEN <<3, 4, 2, 5>>[j] ELSE 2 * j - 3

Factors(n) ==
    LET found[nl \in Nat, j \in Nat] ==
          IF nl = 1 THEN << >>
          ELSE IF nl % Trial(j) = 0
            THEN <<Trial(j)>> \o found[nl \div Trial(j), j]
            ELSE found[nl, j + 1]
        raw == found[n, 1]
    IN  IF Contains(raw, 2) THEN <<2>> \o Remove(raw, 2) ELSE raw

(* Mutant: the first entry is one for every factor.                        *)
BlocksUnmoved(n, ip, before) ==
    LET ido == n \div (ip * before)
    IN  FlattenSeq([j \in 1 .. ip - 1 |->
          [f \in 1 .. ido |-> Turn((f - 1) * j * before, n)]])

(* The angles of one pass: for each j a block of ido entries, the first of *)
(* which is not needed to turn the data; the general pass (ip > 5) finds   *)
(* its own cosines there, which the code moves up from behind the block.   *)
Blocks(n, ip, before) ==
    LET ido == n \div (ip * before)
    IN  FlattenSeq([j \in 1 .. ip - 1 |->
          [f \in 1 .. ido |->
             IF f > 1 THEN Turn((f - 1) * j * before, n)
             ELSE IF ip > 5 THEN Turn(ido * j * before, n) ELSE One]])

Product(s) == FoldLeft(LAMBDA a, b : a * b, 1, s)

WaveTable(n) ==
    LET nac == Factors(n)
    IN  [factors |-> nac,
         w |-> FlattenSeq([k \in 1 .. Len(nac) |->
                  Blocks(n, nac[k], Product(SubSeq(nac, 1, k - 1)))])]

-----------------------------------------------------------------------------
(* The butterflies: ip numbers x[0 .. ip - 1] to the ip numbers of the     *)
(* transform of that length.                                               *)
passf2(x) == <<Plus(x[0], x[1]), Minus(x[0], x[1])>>

TAU == Turn(1, 3)

passf3(x, isign) ==
    LET taui == isign * TAU[2]
        t2 == Plus(x[1], x[2])
        c2 == Plus(x[0], Scaled(TAU[1], t2))
        c3 == TimesI(Scaled(taui, Minus(x[1], x[2])))
    IN  <<Plus(x[0], t2), Plus(c2, c3), Minus(c2, c3)>>

passf4(x, isign) ==
    LET t1 == Minus(x[0], x[2])
        t2 == Plus(x[0], x[2])
        t3 == Plus(x[1], x[3])
        t4 == Scaled(isign, TimesI(Minus(x[1], x[3])))
    IN  <<Plus(t2, t3), Plus(t1, t4), Minus(t2, t3), Minus(t1, t4)>>

TR11 == Turn(1, 5)
TR12 == Turn(2, 5)

passf5(x, isign) ==
    LET t2 == Plus(x[1], x[4])
        t3 == Plus(x[2], x[3])
        t4 == Minus(x[2], x[3])
        t5 == Minus(x[1], x[4])
        c2 == Plus(x[0], Plus(Scaled(TR11[1], t2), Scaled(TR12[1], t3)))
        c3 == Plus(x[0], Plus(Scaled(TR12[1], t2), Scaled(TR11[1], t3)))
        c5 == TimesI(Scaled(isign, Plus(Scaled(TR11[2], t5), Scaled(TR12[2], t4))))
        c4 == TimesI(Scaled(isign, Minus(Scaled(TR12[2], t5), Scaled(TR11[2], t4))))
    IN  <<Plus(x[0], Plus(t2, t3)), Plus(c2, c5), Plus(c3, c4), Minus(c3, c4),
          Minus(c2, c5)>>

(* passfg(): any odd factor, by the sums and the differences of the pairs  *)
(* x[j], x[ip - j]; block(m) is the first entry of the m-th block of       *)
(* angles.  Its sums of products go to the scratch array.                  *)
passfgSums(ip, x, isign, block(_)) ==
    LET half == (ip - 1) \div 2
        s == [j \in 1 .. half |-> Plus(x[j], x[ip - j])]
        d == [j \in 1 .. half |-> Minus(x[j], x[ip - j])]
        angle(l, j) == block((l * j - 1) % ip)
    IN  [l \in 1 .. ip - 1 |->
           IF l <= half
             THEN Plus(x[0], Total([j \in 1 .. half |->
                                      Scaled(angle(l, j)[1], s[j])]))
             ELSE Total([j \in 1 .. half |->
                           Scaled(isign * angle(ip - l, j)[2], d[j])])]

passfg(ip, x, c2) ==
    [j \in 1 .. ip |->
       IF j = 1 THEN Total([m \in 1 .. ip |-> x[m - 1]])
       ELSE IF j - 1 <= (ip - 1) \div 2
         THEN Plus(c2[j - 1], TimesI(c2[ip - j + 1]))
         ELSE Minus(c2[ip - j + 1], TimesI(c2[j - 1]))]

-----------------------------------------------------------------------------
(* What an iteration of cfftf1() computes: numbers ip apart in the array it*)
(* reads are combined into numbers ido * l1 apart, plain or turned by the  *)
(* angles of the pass, the first of a block by an angle of nought.  The last*)
(* pass (ido = 1) leaves the plain numbers; the general one otherwise turns*)
(* its result on the way back into the array it read.                      *)
Angle(w, off, ido, idl1, m) == w[off + ((m \div idl1) - 1) * ido + (m % ido) + 1]
Results(ip, idl1, ido, isign, off, w, in, plain, sums) ==
    LET n == Cardinality(DOMAIN in)
        turned(m) == Times(plain[m], IF isign = 1 THEN Angle(w, off, ido, idl1, m)
                                     ELSE Conjugate(Angle(w, off, ido, idl1, m)))
    IN  [plain   |-> plain,
         turned  |-> [m \in 0 .. n - 1 |-> IF m < idl1 \/ (ip > 5 /\ m % ido = 0)
                                            THEN plain[m] ELSE turned(m)],
         scratch |-> [m \in 0 .. n - 1 |-> IF m < idl1 \/ ip <= 5 THEN in[m]
                                            ELSE sums[m][m \div idl1]],
         last    |-> ido = 1,
         inPlace |-> ip > 5 /\ ido > 1]

Butterfly(ip, x, isign, sums) ==
    CASE ip = 4 -> passf4(x, isign)
      [] ip = 2 -> passf2(x)
      [] ip = 3 -> passf3(x, isign)
      [] ip = 5 -> passf5(x, isign)
      [] OTHER  -> passfg(ip, x, sums)
Combined(ip, idl1, ido, isign, off, w, in, x, sums) ==
    Results(ip, idl1, ido, isign, off, w, in,
            [m \in DOMAIN in |-> Butterfly(ip, x[m], isign, sums[m])[(m \div idl1) + 1]],
            sums)

Combine(n, ip, isign, before, off, w, in) ==
    LET ido == n \div (ip * before)
        x == [m \in 0 .. n - 1 |-> [q \in 0 .. ip - 1 |->
                in[(m % ido) + (q + ((m \div ido) % before) * ip) * ido]]]
        block(q) == w[off + q * ido + 1]
    IN  Combined(ip, ido * before, ido, isign, off, w, in, x,
                 [m \in 0 .. n - 1 |-> IF ip <= 5 THEN << >>
                                       ELSE passfgSums(ip, x[m], isign, block)])

(* The locals of cfftf1() at its start, and one iteration of its loop.      *)
Start(x) == [c |-> x, ch |-> [m \in DOMAIN x |-> Zero],
             na |-> 0, l1 |-> 1, iw |-> 0, k1 |-> 1]

Swapped(s, ip, r, in, out) ==
    LET n == Cardinality(DOMAIN s.c)
    IN  [c  |-> IF s.na = 0 THEN in ELSE out,
         ch |-> IF s.na = 0 THEN out ELSE in,
         na |-> IF r.inPlace THEN s.na ELSE 1 - s.na,
         l1 |-> ip * s.l1,
         iw |-> s.iw + (ip - 1) * (n \div (ip * s.l1)),
         k1 |-> s.k1 + 1]
Stored(s, ip, r) == Swapped(s, ip, r, IF r.inPlace THEN r.turned ELSE r.scratch,
                            IF r.inPlace \/ r.last THEN r.plain ELSE r.turned)
Iterate(table, isign, s) ==
    LET ip == table.factors[s.k1]
    IN  Stored(s, ip, Combine(Cardinality(DOMAIN s.c), ip, isign, s.l1, s.iw, table.w,
                              IF s.na = 0 THEN s.c ELSE s.ch))

(* What cfftf1() leaves in the caller's array.                             *)
Returned(s) == IF s.na = 0 THEN s.c ELSE s.ch

(* ComplexDoubleFFT::ft() (isign = -1) and bt() in one step.               *)
Transform(table, isign, x) ==
    Returned(FoldLeft(LAMBDA s, ip : Iterate(table, isign, s), Start(x),
                      table.factors))

-----------------------------------------------------------------------------
LineInit ==
    \E n \in Sizes, isign \in {-1, 1}, x \in UNION {Inputs(m) : m \in Sizes} :
        /\ x \in Inputs(n)
        /\ job = [n |-> n, isign |-> isign, x |-> x]
        /\ wtable = WaveTable(n)
        /\ pass = Start(x)

(* The loop over the factors.                                              *)
Pass ==
    /\ pass.k1 <= Len(wtable.factors)
    /\ pass' = Iterate(wtable, job.isign, pass)
    /\ UNCHANGED <<job, wtable>>

Transformed == job # Null /\ pass.k1 > Len(wtable.factors)

-----------------------------------------------------------------------------
(* The definition: the m-th number is the sum of the data, the k-th of     *)
(* them turned by m k steps of the n to a turn.                            *)
Dft(n, isign, x) ==
    [m \in 0 .. n - 1 |->
       Total([k \in 1 .. n |-> Times(x[k - 1], Turn(isign * m * (k - 1), n))])]

(* Whatever factors a length has, and in whichever array the last pass     *)
(* leaves it, the result is the transform by definition.                   *)
TransformIsDft == Transformed => Returned(pass) = Dft(job.n, job.isign, job.x)

=============================================================================
